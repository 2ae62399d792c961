-------------------------- MODULE EvacuationProofs --------------------------
(***************************************************************************)
(* Lemmas about DisplacedHomes, up to the handlers of outputs: windows     *)
(* that leave an output take refuge and remember where they were.          *)
(* The inventories are seen from outside: Calm says what an inventory on   *)
(* which no slide and no presentation runs promises, and the proof that it *)
(* keeps that promise is WorkspaceGroupProofs'.  The invariant HInv is     *)
(* stated here, and proved in DisplacedHomesProofs.                        *)
(***************************************************************************)
EXTENDS DisplacedHomes, SequenceLemmas, FiniteSetTheorems, TLAPS

\* What is proved of one workspace group, for the groups of the outputs.
Facts == INSTANCE WorkspaceGroupProofs WITH
  Launches <- {}, Configs <- {Config}, Disturbances <- {}, config <- Config, group <- desk

\* The constants of the groups are as WorkspaceGroup wants them.
LEMMA GroupConstants ==
  /\ MaxWorkspaces \in Nat /\ MaxWorkspaces >= 2
  /\ None \notin Int /\ None \notin Views
  /\ None \notin {"pair", "set", "interactive", "preparing", "ending", "shown"}
  /\ Anonymous \notin Names /\ None \notin Names \cup {Anonymous}
  /\ {} \subseteq Facts!Disturbance
  /\ {Config} \subseteq Facts!ConfigType
  /\ \A c \in {Config} :
       /\ c.minimum \in 1..MaxWorkspaces
       /\ \A i, j \in DOMAIN c.names : c.names[i] = c.names[j] => i = j
       /\ \A i, j \in DOMAIN c.fixed : c.fixed[i] = c.fixed[j] /\ c.fixed[i] # Anonymous => i = j
       /\ ~c.dynamic => Len(c.fixed) \in 1..MaxWorkspaces
<1>1. Config \in Facts!ConfigType
  BY HomesAssumption DEF Inventory!ConfigType, Facts!ConfigType
<1>2. \A c \in {Config} : c = Config
  OBVIOUS
<1> QED BY <1>1, <1>2, HomesAssumption

-----------------------------------------------------------------------------
(* The inventories.  The operators of WorkspaceGroup reach this module     *)
(* twice, through the model and through the facts; they are the same.      *)

\* Reading an inventory and growing it.
LEMMA SameReadings ==
  ASSUME NEW g, NEW i, NEW n
  PROVE  /\ Inventory!Live(g) = Facts!Live(g)
         /\ Inventory!Size(g) = Facts!Size(g)
         /\ Inventory!WorkspaceAt(g, i) = Facts!WorkspaceAt(g, i)
         /\ Inventory!InsertAt(g, i, n) = Facts!InsertAt(g, i, n)
<1>1. Inventory!Live(g) = Facts!Live(g)
  BY Zenon DEF Inventory!Live, Facts!Live
<1>2. Inventory!Size(g) = Facts!Size(g)
  BY Zenon DEF Inventory!Size, Facts!Size, Inventory!Live, Facts!Live, Inventory!Cardinality,
         Facts!Cardinality
<1>3. Inventory!WorkspaceAt(g, i) = Facts!WorkspaceAt(g, i)
  BY Zenon DEF Inventory!WorkspaceAt, Facts!WorkspaceAt, Inventory!Live, Facts!Live
<1>4. Inventory!InsertAt(g, i, n) = Facts!InsertAt(g, i, n)
  BY Zenon DEF Inventory!InsertAt, Facts!InsertAt, Inventory!Live, Facts!Live, Inventory!Fresh,
         Facts!Fresh
<1> QED BY <1>1, <1>2, <1>3, <1>4

\* The reconciliation of names.
LEMMA SameNames ==
  ASSUME NEW g, NEW c
  PROVE  /\ Inventory!DropUnwantedNames(g, c) = Facts!DropUnwantedNames(g, c)
         /\ Inventory!InsertNames(g, c) = Facts!InsertNames(g, c)
         /\ Inventory!ClaimForNames(g, c) = Facts!ClaimForNames(g, c)
<1>1. Inventory!DropUnwantedNames(g, c) = Facts!DropUnwantedNames(g, c)
  BY Zenon DEF Inventory!DropUnwantedNames, Facts!DropUnwantedNames, Inventory!Live, Facts!Live,
         Inventory!Desired, Facts!Desired, Inventory!Least, Facts!Least
<1>2. Inventory!InsertNames(g, c) = Facts!InsertNames(g, c)
  BY Zenon DEF Inventory!InsertNames, Facts!InsertNames, Inventory!Live, Facts!Live,
         Inventory!IsFirst, Facts!IsFirst, Inventory!Empty, Facts!Empty, Inventory!Occupied,
         Facts!Occupied, Inventory!Served, Facts!Served, Inventory!Missing, Facts!Missing,
         Inventory!Desired, Facts!Desired, Inventory!Least, Facts!Least, Inventory!Turn, Facts!Turn,
         Inventory!Cardinality, Facts!Cardinality, Inventory!Size, Facts!Size
<1>3. Inventory!ClaimForNames(g, c) = Facts!ClaimForNames(g, c)
  BY Zenon DEF Inventory!ClaimForNames, Facts!ClaimForNames, Inventory!Live, Facts!Live,
         Inventory!Empty, Facts!Empty, Inventory!Occupied, Facts!Occupied, Inventory!Reserved,
         Facts!Reserved, Inventory!IsFirst, Facts!IsFirst, Inventory!IsLast, Facts!IsLast,
         Inventory!Missing, Facts!Missing, Inventory!Desired, Facts!Desired, Inventory!Least,
         Facts!Least, Inventory!Turn, Facts!Turn, Inventory!Cardinality, Facts!Cardinality
<1> QED BY <1>1, <1>2, <1>3

\* What is pruned, and its erasure.
LEMMA SamePrune ==
  ASSUME NEW g, NEW c, NEW d
  PROVE  /\ Inventory!FrontKeeper(g, c) = Facts!FrontKeeper(g, c)
         /\ Inventory!Pruned(g, c) = Facts!Pruned(g, c)
         /\ Inventory!Erase(g, d) = Facts!Erase(g, d)
<1>1. Inventory!FrontKeeper(g, c) = Facts!FrontKeeper(g, c)
  BY Zenon DEF Inventory!FrontKeeper, Facts!FrontKeeper, Inventory!Live, Facts!Live,
         Inventory!IsFirst, Facts!IsFirst, Inventory!Empty, Facts!Empty, Inventory!Occupied,
         Facts!Occupied
<1>2. Inventory!Pruned(g, c) = Facts!Pruned(g, c)
  BY Zenon DEF Inventory!Pruned, Facts!Pruned, Inventory!Prunable, Facts!Prunable, Inventory!Live,
         Facts!Live, Inventory!Empty, Facts!Empty, Inventory!Occupied, Facts!Occupied,
         Inventory!Reserved, Facts!Reserved, Inventory!FrontKeeper, Facts!FrontKeeper,
         Inventory!IsFirst, Facts!IsFirst, Inventory!ActiveKeeper, Facts!ActiveKeeper,
         Inventory!BackKeeper, Facts!BackKeeper, Inventory!IsLast, Facts!IsLast, Inventory!Size,
         Facts!Size, Inventory!Cardinality, Facts!Cardinality
<1>3. Inventory!Erase(g, d) = Facts!Erase(g, d)
  BY Zenon DEF Inventory!Erase, Facts!Erase, Inventory!Live, Facts!Live, Inventory!Cardinality,
         Facts!Cardinality
<1> QED BY <1>1, <1>2, <1>3

\* The floor and the sentinels.
LEMMA SameSentinels ==
  ASSUME NEW g, NEW c, NEW f
  PROVE  /\ Inventory!FillToMinimum(g, c) = Facts!FillToMinimum(g, c)
         /\ Inventory!AppendSentinel(g, f) = Facts!AppendSentinel(g, f)
         /\ Inventory!PrependSentinel(g, c, f) = Facts!PrependSentinel(g, c, f)
         /\ Inventory!ForgetRevisit(g) = Facts!ForgetRevisit(g)
<1>1. Inventory!FillToMinimum(g, c) = Facts!FillToMinimum(g, c)
  BY Zenon DEF Inventory!FillToMinimum, Facts!FillToMinimum, Inventory!Size, Facts!Size,
         Inventory!Live, Facts!Live, Inventory!Cardinality, Facts!Cardinality, Inventory!InsertAt,
         Facts!InsertAt, Inventory!Fresh, Facts!Fresh
<1>2. Inventory!AppendSentinel(g, f) = Facts!AppendSentinel(g, f)
  BY Zenon DEF Inventory!AppendSentinel, Facts!AppendSentinel, Inventory!Size, Facts!Size,
         Inventory!Live, Facts!Live, Inventory!Cardinality, Facts!Cardinality, Inventory!IsLast,
         Facts!IsLast, Inventory!Empty, Facts!Empty, Inventory!Occupied, Facts!Occupied,
         Inventory!InsertAt, Facts!InsertAt, Inventory!Fresh, Facts!Fresh
<1>3. Inventory!PrependSentinel(g, c, f) = Facts!PrependSentinel(g, c, f)
  BY Zenon DEF Inventory!PrependSentinel, Facts!PrependSentinel, Inventory!Size, Facts!Size,
         Inventory!Live, Facts!Live, Inventory!Cardinality, Facts!Cardinality, Inventory!InsertAt,
         Facts!InsertAt, Inventory!Fresh, Facts!Fresh
<1>4. Inventory!ForgetRevisit(g) = Facts!ForgetRevisit(g)
  BY Zenon DEF Inventory!ForgetRevisit, Facts!ForgetRevisit
<1> QED BY <1>1, <1>2, <1>3, <1>4

\* A reconciliation.
LEMMA SameReconcile ==
  ASSUME NEW g, NEW c
  PROVE  /\ Inventory!Rebuild(g, c) = Facts!Rebuild(g, c)
         /\ Inventory!Reconcile(g, c) = Facts!Reconcile(g, c)
<1>1. \A k : Inventory!Rebuild(k, c) = Facts!Rebuild(k, c)
  <2>1. \A k : Inventory!ReconcileNames(k, c) = Facts!ReconcileNames(k, c)
    BY SameNames DEF Inventory!ReconcileNames, Facts!ReconcileNames
  <2> QED BY <2>1, SamePrune, SameSentinels DEF Inventory!Rebuild, Facts!Rebuild
<1>2. Inventory!Reconcile(g, c) = Facts!Reconcile(g, c)
  BY <1>1, Zenon DEF Inventory!Reconcile, Facts!Reconcile, Inventory!NoHold, Facts!NoHold,
         Inventory!Defer, Facts!Defer, Inventory!SlideActive, Facts!SlideActive
<1> QED BY <1>1, <1>2

\* A switch, and the group a new output starts with.
LEMMA SameStart ==
  ASSUME NEW g, NEW c, NEW w
  PROVE  /\ Inventory!SwitchNow(g, c, w) = Facts!SwitchNow(g, c, w)
         /\ Inventory!Constructed(c) = Facts!Constructed(c)
<1>1. Inventory!SwitchNow(g, c, w) = Facts!SwitchNow(g, c, w)
  <2>1. Inventory!SwitchTo(Inventory!SlideFinish(Inventory!Invalidate(g)), w)
          = Facts!SwitchTo(Facts!SlideFinish(Facts!Invalidate(g)), w)
    BY Zenon DEF Inventory!SwitchTo, Facts!SwitchTo, Inventory!Live, Facts!Live,
           Inventory!SlideFinish, Facts!SlideFinish, Inventory!NoSlide, Facts!NoSlide,
           Inventory!Invalidate, Facts!Invalidate, Inventory!NoHold, Facts!NoHold
  <2> QED BY <2>1, SameReconcile DEF Inventory!SwitchNow, Facts!SwitchNow
<1>2. Inventory!Constructed(c) = Facts!Constructed(c)
  BY Zenon DEF Inventory!Constructed, Facts!Constructed, Inventory!InitialLabels,
         Facts!InitialLabels, Inventory!Desired, Facts!Desired, Inventory!Least, Facts!Least,
         Inventory!NoSlide, Facts!NoSlide, Inventory!NoHold, Facts!NoHold
<1> QED BY <1>1, <1>2

\* An inventory at rest, whose selection, windows and order are sound.
Calm(g) == Facts!Resting(g)

\* What can be read from it (m_workspaces, m_active, workspaceAt).
LEMMA CalmFacts ==
  ASSUME NEW g, Calm(g)
  PROVE  /\ Inventory!WellTyped(g) /\ Inventory!PointsAtLive(g)
         /\ g = [f \in Inventory!Fields |-> g[f]]
         /\ Inventory!Live(g) \subseteq Nat /\ None \notin Inventory!Live(g)
         /\ g.active \in Inventory!Live(g)
         /\ g.home \in [Views -> Inventory!Live(g) \cup {None}]
         /\ g.index \in [Inventory!Live(g) -> 0 .. (Inventory!Size(g) - 1)]
         /\ g.label \in [Inventory!Live(g) -> Names \cup {Anonymous}]
         /\ Inventory!Size(g) \in 1 .. MaxWorkspaces
         /\ \A i \in 0 .. (Inventory!Size(g) - 1) : Inventory!WorkspaceAt(g, i) \in Inventory!Live(g)
         /\ \A i : Inventory!WorkspaceAt(g, i) \in Inventory!Live(g) \cup {None}
         /\ \A i : Inventory!WorkspaceAt(g, i) # None => i \in 0 .. (Inventory!Size(g) - 1)
<1>1. /\ Facts!Size(g) \in 1 .. MaxWorkspaces
      /\ \A i \in 0 .. (Facts!Size(g) - 1) : Facts!WorkspaceAt(g, i) \in Facts!Live(g)
      /\ \A i : Facts!WorkspaceAt(g, i) \in Facts!OptionalOf(Facts!Live(g))
      /\ \A i : Facts!WorkspaceAt(g, i) # None => i \in 0 .. (Facts!Size(g) - 1)
      /\ g.index \in [Facts!Live(g) -> 0 .. (Facts!Size(g) - 1)]
      /\ g.active \in Facts!Live(g) /\ Facts!Live(g) \subseteq Nat /\ None \notin Facts!Live(g)
      /\ g.home \in [Views -> Facts!OptionalOf(Facts!Live(g))]
  <2>1. \A k : Facts!Resting(k) =>
          /\ Facts!Size(k) \in 1 .. MaxWorkspaces /\ MaxWorkspaces \in Nat
          /\ \A i \in 0 .. (Facts!Size(k) - 1) :
               Facts!WorkspaceAt(k, i) \in Facts!Live(k) /\ k.index[Facts!WorkspaceAt(k, i)] = i
          /\ \A i : Facts!WorkspaceAt(k, i) \in Facts!OptionalOf(Facts!Live(k))
          /\ \A i : Facts!WorkspaceAt(k, i) # None => i \in 0 .. (Facts!Size(k) - 1)
          /\ k.index \in [Facts!Live(k) -> 0 .. (Facts!Size(k) - 1)]
          /\ k.active \in Facts!Live(k) /\ Facts!Live(k) \subseteq Nat /\ None \notin Facts!Live(k)
          /\ k.home \in [Views -> Facts!OptionalOf(Facts!Live(k))]
    BY Facts!AtRests, GroupConstants, Zenon
  <2> QED BY <2>1 DEF Calm
<1>2. Facts!WellTyped(g) /\ Facts!PointsAtLive(g)
  BY DEF Calm, Facts!Resting, Facts!Sound
<1>3. Inventory!WellTyped(g)
  BY <1>2, Zenon DEF Inventory!WellTyped, Facts!WellTyped, Inventory!Live, Facts!Live,
         Inventory!OptionalOf, Facts!OptionalOf, Inventory!SlideActive, Facts!SlideActive,
         Inventory!Fields, Facts!Fields, Inventory!NoSlide, Facts!NoSlide
<1>4. Inventory!PointsAtLive(g)
  BY <1>2, Zenon DEF Inventory!PointsAtLive, Facts!PointsAtLive, Inventory!Live, Facts!Live,
         Inventory!OptionalOf, Facts!OptionalOf
<1>5. /\ g = [f \in Inventory!Fields |-> g[f]]
      /\ g.label \in [Inventory!Live(g) -> Names \cup {Anonymous}]
  BY <1>3 DEF Inventory!WellTyped
<1> QED BY <1>1, <1>3, <1>4, <1>5, SameReadings, Zenon DEF Facts!OptionalOf

\* A reconciliation moves neither a window nor the selection.
LEMMA CalmReconciled ==
  ASSUME NEW g, Calm(g)
  PROVE  Calm(Reconciled(g)) /\ Reconciled(g).home = g.home /\ Reconciled(g).active = g.active
<1>1. \A c \in {Config} : \A k : Facts!Resting(k) =>
        LET h == Facts!Reconcile(k, c) IN Facts!Resting(h) /\ h.home = k.home /\ h.active = k.active
  BY Facts!ReconcileRests, GroupConstants, Zenon
<1>2. Reconciled(g) = Facts!Reconcile(g, Config)
  BY SameReconcile DEF Reconciled
<1> QED BY <1>1, <1>2 DEF Calm

\* Who lives where is edited, and the inventory reconciled.
LEMMA CalmHome ==
  ASSUME NEW g, Calm(g), NEW v \in Views, NEW w \in Inventory!Live(g) \cup {None},
         NEW h, h = Reconciled([g EXCEPT !.home[v] = w])
  PROVE  Calm(h) /\ h.home = [g.home EXCEPT ![v] = w] /\ h.active = g.active
<1>1. \A m : Facts!Resting(m) => \A u \in Views : \A x \in Facts!OptionalOf(Facts!Live(m)) :
        \A n : n = [m EXCEPT !.home[u] = x] =>
          Facts!Resting(n) /\ n.home = [m.home EXCEPT ![u] = x] /\ n.active = m.active
  BY Facts!HomeRests, GroupConstants, Zenon
<1>2. w \in Facts!OptionalOf(Facts!Live(g)) /\ Facts!Resting(g)
  BY SameReadings DEF Facts!OptionalOf, Calm
<1> DEFINE k == [g EXCEPT !.home[v] = w]
<1>3. Calm(k) /\ k.home = [g.home EXCEPT ![v] = w] /\ k.active = g.active
  <2>1. PICK n : n = k
    OBVIOUS
  <2>2. Facts!Resting(n) /\ n.home = [g.home EXCEPT ![v] = w] /\ n.active = g.active
    <3>1. \A u \in Views : \A x \in Facts!OptionalOf(Facts!Live(g)) :
            \A m : m = [g EXCEPT !.home[u] = x] =>
              Facts!Resting(m) /\ m.home = [g.home EXCEPT ![u] = x] /\ m.active = g.active
      BY <1>1, <1>2
    <3>2. \A m : m = [g EXCEPT !.home[v] = w] =>
              Facts!Resting(m) /\ m.home = [g.home EXCEPT ![v] = w] /\ m.active = g.active
      BY <1>2, <3>1
    <3> QED BY <2>1, <3>2
  <2> QED BY <2>1, <2>2 DEF Calm
<1> HIDE DEF k
<1>4. Calm(Reconciled(k)) /\ Reconciled(k).home = k.home /\ Reconciled(k).active = k.active
  BY <1>3, CalmReconciled
<1> QED BY <1>3, <1>4 DEF k

\* A switch to another workspace, or to the active one.
LEMMA CalmSwitch ==
  ASSUME NEW g, Calm(g), NEW w \in Inventory!Live(g)
  PROVE  LET h == Inventory!SwitchNow(g, Config, w) IN Calm(h) /\ h.home = g.home /\ h.active = w
<1>1. \A c \in {Config} : \A k : Facts!Sound(k) /\ Facts!Dense(k) => \A x \in Facts!Live(k) :
        LET h == Facts!SwitchNow(k, c, x) IN Facts!Resting(h) /\ h.home = k.home /\ h.active = x
  BY Facts!SwitchRests, GroupConstants, Zenon
<1>2. Facts!Sound(g) /\ Facts!Dense(g) /\ w \in Facts!Live(g)
  BY SameReadings DEF Calm, Facts!Resting
<1>3. Inventory!SwitchNow(g, Config, w) = Facts!SwitchNow(g, Config, w)
  BY SameStart
<1> QED BY <1>1, <1>2, <1>3 DEF Calm

\* New workspaces, where there is room.
LEMMA CalmInsert ==
  ASSUME NEW g, Calm(g), NEW i \in 0 .. Inventory!Size(g), NEW n \in Nat \ {0},
         Inventory!Size(g) + n <= MaxWorkspaces
  PROVE  LET h == Inventory!InsertAt(g, i, n)
         IN /\ Calm(h) /\ h.home = g.home /\ h.active = g.active
            /\ g.serial \in Inventory!Live(h)
<1>1. \A k : Facts!Resting(k) => \A j \in 0 .. Facts!Size(k) : \A m \in Nat : Facts!Size(k) + m <= MaxWorkspaces =>
        LET h == Facts!InsertAt(k, j, m)
        IN /\ Facts!Resting(h) /\ h.home = k.home /\ h.active = k.active
           /\ Facts!Live(k) \subseteq Facts!Live(h) /\ Facts!Size(h) = Facts!Size(k) + m
           /\ m > 0 => k.serial \in Facts!Live(h)
  BY Facts!InsertRests, GroupConstants, Zenon
<1>2. Inventory!Size(g) = Facts!Size(g) /\ Inventory!InsertAt(g, i, n) = Facts!InsertAt(g, i, n)
  BY SameReadings
<1>3. \A h : Inventory!Live(h) = Facts!Live(h)
  BY SameReadings
<1> QED BY <1>1, <1>2, <1>3 DEF Calm

\* The inventory of a new output (Output::Output), on which no window is.
LEMMA CalmStart == Calm(FirstGroup) /\ FirstGroup.home = [v \in Views |-> None]
<1>1. \A c \in {Config} :
        LET h == Facts!SwitchNow(Facts!Constructed(c), c, 0)
        IN Facts!Resting(h) /\ h.home = [v \in Views |-> None]
  BY Facts!StartRests, GroupConstants, Zenon
<1>2. FirstGroup = Facts!SwitchNow(Facts!Constructed(Config), Config, 0)
  BY SameStart DEF FirstGroup
<1> QED BY <1>1, <1>2 DEF Calm

-----------------------------------------------------------------------------
(* Finding a workspace.                                                    *)

\* An inventory that was asked for a workspace: it has the windows and the
\* selection it had, and the workspace is in it, if there is one.
Serves(g, r) ==
  /\ Calm(r.group) /\ r.group.home = g.home /\ r.group.active = g.active
  /\ r.workspace \in Inventory!Live(r.group) \cup {None}

\* resolveDynamicWorkspace adds workspaces up to a position.
LEMMA MaterializeCalm ==
  ASSUME NEW g, Calm(g), NEW index \in Nat
  PROVE  LET h == Materialize(g, index) IN Calm(h) /\ h.home = g.home /\ h.active = g.active
<1> DEFINE missing == index + 1 - Inventory!Size(g)
           room == MaxWorkspaces - Inventory!Size(g)
           n == IF missing < room THEN missing ELSE room
<1>1. Inventory!Size(g) \in 1 .. MaxWorkspaces /\ MaxWorkspaces \in Nat
  BY CalmFacts, HomesAssumption
<1>2. n \in Int /\ Inventory!Size(g) + n <= MaxWorkspaces
  BY <1>1
<1>3. Materialize(g, index) = IF ~g.dynamic \/ n <= 0 THEN g ELSE Inventory!InsertAt(g, Inventory!Size(g), n)
  BY DEF Materialize
<1> HIDE DEF n
<1>4. CASE ~g.dynamic \/ n <= 0
  BY <1>3, <1>4
<1>5. CASE ~(~g.dynamic \/ n <= 0)
  <2>1. n \in Nat \ {0} /\ Inventory!Size(g) \in 0 .. Inventory!Size(g)
    BY <1>1, <1>2, <1>5
  <2> DEFINE h == Inventory!InsertAt(g, Inventory!Size(g), n)
  <2>2. Calm(h) /\ h.home = g.home /\ h.active = g.active
    BY <1>2, <2>1, CalmInsert
  <2>3. Materialize(g, index) = h
    BY <1>3, <1>5
  <2> HIDE DEF h
  <2> QED BY <2>2, <2>3
<1> QED BY <1>4, <1>5

\* The place of an anonymous workspace.
LEMMA AnonymousCalm ==
  ASSUME NEW g, Calm(g), NEW index \in Nat
  PROVE  Serves(g, AnonymousAt(g, index))
<1> DEFINE h == Materialize(g, index)
           w == Inventory!WorkspaceAt(h, index)
           taken == w # None /\ h.dynamic /\ h.label[w] # Anonymous
           full == Inventory!Size(h) >= MaxWorkspaces
           r == AnonymousAt(g, index)
<1>1. Calm(h) /\ h.home = g.home /\ h.active = g.active
  BY MaterializeCalm
<1>2. r = CASE ~taken -> [group |-> h, workspace |-> w]
            [] taken /\ full -> [group |-> h, workspace |-> None]
            [] taken /\ ~full -> [group |-> Inventory!InsertAt(h, index, 1), workspace |-> h.serial]
  BY DEF AnonymousAt
<1> HIDE DEF h, r
<1>3. /\ w \in Inventory!Live(h) \cup {None} /\ (w # None => index \in 0 .. (Inventory!Size(h) - 1))
      /\ Inventory!Size(h) \in 1 .. MaxWorkspaces /\ MaxWorkspaces \in Nat
  BY <1>1, CalmFacts, HomesAssumption
<1>4. CASE ~taken
  <2>1. r = [group |-> h, workspace |-> w]
    BY <1>2, <1>4
  <2> QED BY <1>1, <1>3, <2>1 DEF Serves, r
<1>5. CASE taken /\ full
  <2>1. r = [group |-> h, workspace |-> None]
    BY <1>2, <1>5
  <2> QED BY <1>1, <2>1 DEF Serves, r
<1>6. CASE taken /\ ~full
  <2> DEFINE k == Inventory!InsertAt(h, index, 1)
  <2>1. r = [group |-> k, workspace |-> h.serial]
    BY <1>2, <1>6
  <2>2. index \in 0 .. Inventory!Size(h) /\ 1 \in Nat \ {0} /\ Inventory!Size(h) + 1 <= MaxWorkspaces
    BY <1>3, <1>6
  <2>3. Calm(k) /\ k.home = h.home /\ k.active = h.active /\ h.serial \in Inventory!Live(k)
    BY <1>1, <2>2, CalmInsert
  <2> HIDE DEF k
  <2> QED BY <1>1, <2>1, <2>3 DEF Serves, r
<1> QED BY <1>4, <1>5, <1>6

LEMMA NamedLive ==
  ASSUME NEW g, NEW label
  PROVE  Named(g, label) \in Inventory!Live(g) \cup {None}
BY DEF Named

\* The workspace of a home, or the active one where it is not to be had.
LEMMA HomeWorkspaceCalm ==
  ASSUME NEW g, Calm(g), NEW at \in Place
  PROVE  Serves(g, HomeWorkspace(g, at)) /\ HomeWorkspace(g, at).workspace # None
<1> DEFINE r == Resolved(g, at)
           x == HomeWorkspace(g, at)
<1>1. at.index \in Nat
  BY DEF Place
<1>3. Serves(g, r)
  <2>1. CASE at.label # Anonymous
    <3>1. r = [group |-> g, workspace |-> Named(g, at.label)]
      BY <2>1 DEF Resolved
    <3> HIDE DEF r
    <3> QED BY <3>1, NamedLive DEF Serves
  <2>2. CASE at.label = Anonymous
    <3>1. r = AnonymousAt(g, at.index)
      BY <2>2 DEF Resolved
    <3> HIDE DEF r
    <3> QED BY <1>1, <3>1, AnonymousCalm
  <2> QED BY <2>1, <2>2
<1>4. x.group = r.group /\ x.workspace = IF r.workspace = None THEN r.group.active ELSE r.workspace
  BY DEF HomeWorkspace
<1> HIDE DEF r, x
<1>5. r.group.active \in Inventory!Live(r.group) /\ None \notin Inventory!Live(r.group)
  BY <1>3, CalmFacts DEF Serves
<1> QED BY <1>3, <1>4, <1>5 DEF Serves, x

\* An empty workspace for what is moved to another output (transferDestination).
LEMMA TransferCalm ==
  ASSUME NEW g, Calm(g)
  PROVE  Serves(g, TransferDestination(g))
<1> DEFINE spare == {w \in Inventory!Live(g) : ~Inventory!Occupied(g, w) /\ (g.dynamic => g.label[w] = Anonymous)}
           last == CHOOSE w \in spare : \A x \in spare : g.index[x] <= g.index[w]
           r == TransferDestination(g)
<1>1. r = IF spare # {} THEN [group |-> g, workspace |-> last]
          ELSE IF ~g.dynamic \/ Inventory!Size(g) >= MaxWorkspaces THEN [group |-> g, workspace |-> None]
          ELSE [group |-> Inventory!InsertAt(g, Inventory!Size(g), 1), workspace |-> g.serial]
  BY DEF TransferDestination
<1>2. /\ Inventory!Size(g) \in 1 .. MaxWorkspaces /\ MaxWorkspaces \in Nat
      /\ g.index \in [Inventory!Live(g) -> 0 .. (Inventory!Size(g) - 1)]
  BY CalmFacts, HomesAssumption
<1> HIDE DEF r
<1>3. CASE spare # {}
  <2> DEFINE size == Inventory!Size(g)
             below == {size - g.index[w] : w \in spare}
  <2>1. below \in SUBSET Nat /\ below # {}
    BY <1>2, <1>3
  <2>2. Min(below) \in below /\ \A y \in below : Min(below) <= y
    <3> HIDE DEF below
    <3> QED BY <2>1, LeastOfNat
  <2>3. PICK w \in spare : Min(below) = size - g.index[w]
    BY <2>2
  <2>4. \A x \in spare : g.index[x] <= g.index[w]
    <3> TAKE x \in spare
    <3>1. Min(below) <= size - g.index[x]
      BY <2>2
    <3>2. size - g.index[w] <= size - g.index[x] /\ g.index[w] \in Int /\ g.index[x] \in Int /\ size \in Int
      BY <1>2, <2>3, <3>1
    <3> QED BY <3>2
  <2>5. last \in spare
    BY <2>4
  <2> HIDE DEF last
  <2>6. r = [group |-> g, workspace |-> last] /\ last \in Inventory!Live(g)
    BY <1>1, <1>3, <2>5
  <2> QED BY <2>6 DEF Serves, r
<1>4. CASE spare = {} /\ (~g.dynamic \/ Inventory!Size(g) >= MaxWorkspaces)
  <2>1. r = [group |-> g, workspace |-> None]
    BY <1>1, <1>4
  <2> QED BY <2>1 DEF Serves, r
<1>5. CASE spare = {} /\ ~(~g.dynamic \/ Inventory!Size(g) >= MaxWorkspaces)
  <2> DEFINE k == Inventory!InsertAt(g, Inventory!Size(g), 1)
  <2>1. r = [group |-> k, workspace |-> g.serial]
    BY <1>1, <1>5
  <2>2. /\ Inventory!Size(g) \in 0 .. Inventory!Size(g) /\ 1 \in Nat \ {0}
        /\ Inventory!Size(g) + 1 <= MaxWorkspaces
    BY <1>2, <1>5
  <2>3. Calm(k) /\ k.home = g.home /\ k.active = g.active /\ g.serial \in Inventory!Live(k)
    BY <2>2, CalmInsert
  <2> HIDE DEF k
  <2> QED BY <2>1, <2>3 DEF Serves, r
<1> QED BY <1>3, <1>4, <1>5

-----------------------------------------------------------------------------
(* Where the windows are.                                                  *)

\* Every inventory is at rest, and a window is in one of them at most.
Fine(s) ==
  /\ s = [f \in DeskFields |-> s[f]]
  /\ s.group = [o \in Outputs |-> s.group[o]]
  /\ \A o \in Outputs : Calm(s.group[o])
  /\ \A v \in Views : \A o, p \in Outputs :
       s.group[o].home[v] # None /\ s.group[p].home[v] # None => o = p

\* Nothing but the inventories differs.
OnlyGroups(s, t) == \A f \in DeskFields \ {"group"} : t[f] = s[f]

\* The windows of W are on workspace w of output o, or nowhere, the others
\* where they were, and every output shows the workspace it showed.
Puts(s, t, W, o, w) ==
  \A p \in Outputs :
    /\ t.group[p].active = s.group[p].active
    /\ t.group[p].home =
         [v \in Views |-> IF v \in W THEN IF p = o THEN w ELSE None ELSE s.group[p].home[v]]

LEMMA NoneFacts == None \notin Outputs /\ None \notin Views /\ Outputs \subseteq Nat
<1>1. Outputs \subseteq Nat /\ None \notin Int /\ None \notin Views
  BY HomesAssumption, Zenon
<1>2. None \notin Nat
  BY <1>1
<1> QED BY <1>1, <1>2

\* View::m_workspace: the output whose inventory has the window.
LEMMA OnFacts ==
  ASSUME NEW s, Fine(s), NEW v \in Views
  PROVE  /\ On(s, v) \in Outputs \cup {None}
         /\ \A o \in Outputs : On(s, v) = o <=> s.group[o].home[v] # None
         /\ On(s, v) = None <=> \A o \in Outputs : s.group[o].home[v] = None
<1>1. CASE \E o \in Outputs : s.group[o].home[v] # None
  <2>1. PICK o \in Outputs : s.group[o].home[v] # None
    BY <1>1
  <2>2. \A p \in Outputs : s.group[p].home[v] # None => p = o
    BY <2>1 DEF Fine
  <2>3. On(s, v) = o
    BY <2>1, <2>2 DEF On
  <2> QED BY <2>1, <2>2, <2>3, NoneFacts
<1>2. CASE ~ \E o \in Outputs : s.group[o].home[v] # None
  <2>1. On(s, v) = None
    BY <1>2 DEF On
  <2> QED BY <1>2, <2>1, NoneFacts
<1> QED BY <1>1, <1>2

Regrouped(s, o, g) == [s EXCEPT !.group[o] = g]

\* No other output has a window of g.
TakesNone(s, o, g) == \A v \in Views : g.home[v] # None => \A p \in Outputs \ {o} : s.group[p].home[v] = None

\* One inventory is replaced, and takes no window of another one.
LEMMA Regroup ==
  ASSUME NEW s, Fine(s), NEW o \in Outputs, NEW g, Calm(g), TakesNone(s, o, g),
         NEW t, t = Regrouped(s, o, g)
  PROVE  /\ Fine(t) /\ OnlyGroups(s, t)
         /\ t.group[o] = g /\ \A p \in Outputs \ {o} : t.group[p] = s.group[p]
<1>1. t = [f \in DeskFields |-> t[f]] /\ t.group = [s.group EXCEPT ![o] = g] /\ OnlyGroups(s, t)
  BY DEF Fine, DeskFields, OnlyGroups, Regrouped
<1>2. /\ t.group = [p \in Outputs |-> t.group[p]]
      /\ t.group[o] = g /\ \A p \in Outputs \ {o} : t.group[p] = s.group[p]
  BY <1>1 DEF Fine
<1>3. \A p \in Outputs : Calm(t.group[p])
  BY <1>2 DEF Fine
<1>4. ASSUME NEW v \in Views, NEW p \in Outputs, NEW q \in Outputs,
             t.group[p].home[v] # None, t.group[q].home[v] # None
      PROVE  p = q
  <2>1. CASE p # o /\ q # o
    BY <1>2, <1>4, <2>1 DEF Fine
  <2>2. CASE p = o \/ q = o
    BY <1>2, <1>4, <2>2 DEF TakesNone
  <2> QED BY <2>1, <2>2
<1> QED BY <1>1, <1>2, <1>3, <1>4 DEF Fine

\* On follows what was put where.
LEMMA PutsOn ==
  ASSUME NEW s, Fine(s), NEW t, Fine(t), NEW W, NEW o, NEW w, Puts(s, t, W, o, w),
         o = None \/ (o \in Outputs /\ w # None)
  PROVE  \A v \in Views : On(t, v) = IF v \in W THEN o ELSE On(s, v)
<1> SUFFICES ASSUME NEW v \in Views PROVE On(t, v) = IF v \in W THEN o ELSE On(s, v)
  OBVIOUS
<1>1. \A p \in Outputs : t.group[p].home[v] = IF v \in W THEN IF p = o THEN w ELSE None ELSE s.group[p].home[v]
  BY DEF Puts
<1>2. /\ On(t, v) \in Outputs \cup {None}
      /\ \A p \in Outputs : On(t, v) = p <=> t.group[p].home[v] # None
      /\ On(t, v) = None <=> \A p \in Outputs : t.group[p].home[v] = None
  BY OnFacts
<1>3. /\ On(s, v) \in Outputs \cup {None}
      /\ \A p \in Outputs : On(s, v) = p <=> s.group[p].home[v] # None
      /\ On(s, v) = None <=> \A p \in Outputs : s.group[p].home[v] = None
  BY OnFacts
<1>4. CASE v \in W
  BY <1>1, <1>2, <1>4, NoneFacts
<1>5. CASE v \notin W
  BY <1>1, <1>2, <1>3, <1>5
<1> QED BY <1>4, <1>5

\* One more window goes the same way.
LEMMA PutsAgain ==
  ASSUME NEW s, NEW t, NEW u, NEW W, NEW v, NEW o, NEW w, Puts(s, t, W, o, w), Puts(t, u, {v}, o, w)
  PROVE  Puts(s, u, W \cup {v}, o, w)
<1> SUFFICES ASSUME NEW p \in Outputs
             PROVE  /\ u.group[p].active = s.group[p].active
                    /\ u.group[p].home = [x \in Views |-> IF x \in W \cup {v} THEN IF p = o THEN w ELSE None
                                                         ELSE s.group[p].home[x]]
  BY Zenon DEF Puts
<1>1. /\ t.group[p].active = s.group[p].active
      /\ t.group[p].home = [x \in Views |-> IF x \in W THEN IF p = o THEN w ELSE None
                                              ELSE s.group[p].home[x]]
  BY Zenon DEF Puts
<1>2. /\ u.group[p].active = t.group[p].active
      /\ u.group[p].home = [x \in Views |-> IF x \in {v} THEN IF p = o THEN w ELSE None
                                              ELSE t.group[p].home[x]]
  BY Zenon DEF Puts
<1> QED BY <1>1, <1>2

\* A window leaves the inventory it is in.
LEMMA DetachPuts ==
  ASSUME NEW s, Fine(s), NEW v \in Views
  PROVE  LET t == Detach(s, v)
         IN Fine(t) /\ OnlyGroups(s, t) /\ Puts(s, t, {v}, None, None)
            /\ \A p \in Outputs : On(s, v) # p => t.group[p] = s.group[p]
<1> DEFINE t == Detach(s, v)
           from == On(s, v)
<1>1. \A p \in Outputs : Calm(s.group[p]) /\ s.group[p].home = [u \in Views |-> s.group[p].home[u]]
  BY CalmFacts DEF Fine
<1>2. CASE from = None
  <2>1. t = s
    BY <1>2 DEF Detach
  <2>2. \A p \in Outputs : s.group[p].home[v] = None
    BY <1>2, OnFacts
  <2>3. Puts(s, s, {v}, None, None)
    BY <1>1, <2>2, NoneFacts DEF Puts
  <2> QED BY <2>1, <2>3 DEF OnlyGroups
<1>3. CASE from # None
  <2>1. from \in Outputs /\ \A p \in Outputs : from = p <=> s.group[p].home[v] # None
    BY <1>3, OnFacts
  <2> DEFINE g == Reconciled([s.group[from] EXCEPT !.home[v] = None])
  <2>2. t = Regrouped(s, from, g)
    BY <1>3 DEF Detach, Regrouped
  <2>3. Calm(g) /\ g.home = [s.group[from].home EXCEPT ![v] = None] /\ g.active = s.group[from].active
    <3>1. PICK k : k = s.group[from]
      OBVIOUS
    <3>2. Calm(k) /\ g = Reconciled([k EXCEPT !.home[v] = None])
      BY <1>1, <2>1, <3>1
    <3> HIDE DEF g
    <3>3. Calm(g) /\ g.home = [k.home EXCEPT ![v] = None] /\ g.active = k.active
      BY <3>2, CalmHome
    <3> QED BY <3>1, <3>3
  <2> HIDE DEF g, t, from
  <2>4. TakesNone(s, from, g)
    BY <1>1, <2>1, <2>3 DEF Fine, TakesNone
  <2>5. /\ Fine(t) /\ OnlyGroups(s, t)
        /\ t.group[from] = g /\ \A p \in Outputs \ {from} : t.group[p] = s.group[p]
    BY <2>1, <2>2, <2>3, <2>4, Regroup
  <2>6. g.home = [u \in Views |-> IF u \in {v} THEN None ELSE s.group[from].home[u]]
    BY <1>1, <2>1, <2>3
  <2>7. \A p \in Outputs \ {from} :
          s.group[p].home = [u \in Views |-> IF u \in {v} THEN None ELSE s.group[p].home[u]]
    BY <1>1, <2>1
  <2>8. Puts(s, t, {v}, None, None)
    BY <2>1, <2>3, <2>5, <2>6, <2>7, NoneFacts DEF Puts
  <2> QED BY <2>5, <2>8 DEF t, from
<1> QED BY <1>2, <1>3

\* View::setWorkspace: wherever the window was, it is on that workspace.
LEMMA SetWorkspacePuts ==
  ASSUME NEW s, Fine(s), NEW v \in Views, NEW o \in Outputs, NEW w \in Inventory!Live(s.group[o])
  PROVE  LET t == SetWorkspace(s, v, o, w)
         IN Fine(t) /\ OnlyGroups(s, t) /\ Puts(s, t, {v}, o, w) /\ w \in Inventory!Live(t.group[o])
<1> DEFINE t == SetWorkspace(s, v, o, w)
           d == IF On(s, v) = o THEN s ELSE Detach(s, v)
           g == Reconciled([d.group[o] EXCEPT !.home[v] = w])
<1>1. \A p \in Outputs : Calm(s.group[p]) /\ s.group[p].home = [u \in Views |-> s.group[p].home[u]]
  BY CalmFacts DEF Fine
<1>2. w # None
  BY <1>1, CalmFacts
<1>3. CASE s.group[o].home[v] = w
  <2>1. t = s
    BY <1>3 DEF SetWorkspace
  <2>2. \A p \in Outputs \ {o} : s.group[p].home[v] = None
    BY <1>2, <1>3 DEF Fine
  <2>3. Puts(s, s, {v}, o, w)
    BY <1>1, <1>3, <2>2 DEF Puts
  <2> QED BY <2>1, <2>3 DEF OnlyGroups
<1>4. CASE s.group[o].home[v] # w
  <2>1. t = Regrouped(d, o, g)
    BY <1>4 DEF SetWorkspace, Regrouped
  <2>2. /\ Fine(d) /\ OnlyGroups(s, d) /\ d.group[o] = s.group[o]
        /\ \A p \in Outputs \ {o} :
             /\ d.group[p].active = s.group[p].active
             /\ d.group[p].home = [u \in Views |-> IF u \in {v} THEN None ELSE s.group[p].home[u]]
    <3>1. CASE On(s, v) = o
      <4>1. \A p \in Outputs \ {o} : s.group[p].home[v] = None
        BY <3>1, OnFacts
      <4> QED BY <1>1, <3>1, <4>1 DEF OnlyGroups
    <3>2. CASE On(s, v) # o
      <4>1. d = Detach(s, v)
        BY <3>2
      <4> HIDE DEF d
      <4>2. /\ Fine(d) /\ OnlyGroups(s, d) /\ Puts(s, d, {v}, None, None)
            /\ \A p \in Outputs : On(s, v) # p => d.group[p] = s.group[p]
        BY <4>1, DetachPuts
      <4> QED BY <3>2, <4>2, NoneFacts DEF Puts
    <3> QED BY <3>1, <3>2
  <2> HIDE DEF d
  <2>3. Calm(g) /\ g.home = [s.group[o].home EXCEPT ![v] = w] /\ g.active = s.group[o].active
    <3>1. PICK k : k = s.group[o]
      OBVIOUS
    <3>2. Calm(k) /\ w \in Inventory!Live(k) /\ g = Reconciled([k EXCEPT !.home[v] = w])
      BY <1>1, <2>2, <3>1
    <3> HIDE DEF g
    <3>3. Calm(g) /\ g.home = [k.home EXCEPT ![v] = w] /\ g.active = k.active
      BY <3>2, CalmHome
    <3> QED BY <3>1, <3>3
  <2> HIDE DEF g, t
  <2>4. TakesNone(d, o, g)
    <3> SUFFICES ASSUME NEW u \in Views, g.home[u] # None, NEW p \in Outputs \ {o} PROVE d.group[p].home[u] = None
      BY DEF TakesNone
    <3>1. CASE u = v
      BY <2>2, <3>1
    <3>2. CASE u # v
      <4>1. s.group[o].home[u] # None
        BY <1>1, <2>3, <3>2
      <4>2. s.group[p].home[u] = None
        BY <4>1 DEF Fine
      <4> QED BY <2>2, <3>2, <4>2
    <3> QED BY <3>1, <3>2
  <2>5. /\ Fine(t) /\ OnlyGroups(d, t)
        /\ t.group[o] = g /\ \A p \in Outputs \ {o} : t.group[p] = d.group[p]
    BY <2>1, <2>2, <2>3, <2>4, Regroup
  <2>6. g.home = [u \in Views |-> IF u \in {v} THEN w ELSE s.group[o].home[u]]
    BY <1>1, <2>3
  <2>7. Puts(s, t, {v}, o, w)
    BY <2>2, <2>3, <2>5, <2>6 DEF Puts
  <2>8. w \in Inventory!Live(t.group[o])
    <3>1. g.home[v] = w
      BY <2>6
    <3>2. g.home \in [Views -> Inventory!Live(g) \cup {None}]
      BY <2>3, CalmFacts
    <3> QED BY <1>2, <2>5, <3>1, <3>2
  <2>9. OnlyGroups(s, t)
    BY <2>2, <2>5 DEF OnlyGroups
  <2> QED BY <2>5, <2>7, <2>8, <2>9 DEF t
<1> QED BY <1>3, <1>4

-----------------------------------------------------------------------------
(* Several windows go one after the other.                                 *)

LEMMA Windows == \A W \in SUBSET Views : IsFiniteSet(W)
BY HomesAssumption, FS_Subset

SetFold == INSTANCE FoldLemmas WITH Op <- LAMBDA a, b, s, v : SetWorkspace(s, v, a, b)

LEMMA NothingPut == ASSUME NEW s, Fine(s), NEW o, NEW w PROVE OnlyGroups(s, s) /\ Puts(s, s, {}, o, w)
<1>1. \A p \in Outputs : s.group[p].home = [u \in Views |-> s.group[p].home[u]]
  BY CalmFacts DEF Fine
<1> QED BY <1>1 DEF OnlyGroups, Puts

\* The workspace they go to is still there when the next one arrives.
LEMMA SetAllPuts ==
  ASSUME NEW s, Fine(s), NEW W \in SUBSET Views, NEW o \in Outputs, NEW w \in Inventory!Live(s.group[o])
  PROVE  LET t == SetAll(s, W, o, w)
         IN Fine(t) /\ OnlyGroups(s, t) /\ Puts(s, t, W, o, w) /\ w \in Inventory!Live(t.group[o])
<1> DEFINE q == SetToSeq(W)
<1>1. q \in Seq(W) /\ ToSet(q) = W
  BY Windows, SetToSeqFacts
<1>wellordered. SetFold!WellOrdered
  BY NatLeast DEF SetFold!WellOrdered
<1>2. PICK after :
        /\ after[0] = s
        /\ \A i \in 1 .. Len(q) : after[i] = SetWorkspace(after[i - 1], q[i], o, w)
        /\ SetFold!Result(o, w, s, q) = after[Len(q)]
  <2> HIDE DEF q
  <2> QED BY <1>1, <1>wellordered, SetFold!Folded
<1>3. SetAll(s, W, o, w) = SetFold!Result(o, w, s, q)
  BY Zenon DEF SetAll, FoldLeft, MapThenFoldSet, Max, SetFold!MapThenFoldSet, SetFold!Greatest,
               SetFold!Result
<1> HIDE DEF q
<1> DEFINE Past(i) == {q[j] : j \in 1 .. i}
           Right(t, V) == Fine(t) /\ OnlyGroups(s, t) /\ Puts(s, t, V, o, w) /\ w \in Inventory!Live(t.group[o])
           T == {i \in 0 .. Len(q) : Right(after[i], Past(i))}
<1>4. Len(q) \in Nat /\ DOMAIN q = 1 .. Len(q) /\ \A i \in 1 .. Len(q) : q[i] \in W
  BY <1>1
<1>5. 0 \in T
  <2>1. Past(0) = {}
    OBVIOUS
  <2>2. Right(s, {})
    BY NothingPut
  <2> HIDE DEF Past, Right
  <2>3. Right(after[0], Past(0))
    BY <1>2, <2>1, <2>2, Zenon
  <2> QED BY <1>4, <2>3
<1>6. ASSUME NEW i \in 1 .. Len(q), i - 1 \in T PROVE i \in T
  <2>1. PICK a, v, b : a = after[i - 1] /\ v = q[i] /\ b = after[i]
    OBVIOUS
  <2>2. Past(i) = Past(i - 1) \cup {v}
    <3>1. 1 .. i = (1 .. (i - 1)) \cup {i}
      BY <1>4
    <3> QED BY <2>1, <3>1
  <2>3. Right(a, Past(i - 1)) /\ b = SetWorkspace(a, v, o, w) /\ v \in Views
    BY <1>2, <1>4, <1>6, <2>1
  <2> HIDE DEF Past
  <2>4. Fine(b) /\ OnlyGroups(a, b) /\ Puts(a, b, {v}, o, w) /\ w \in Inventory!Live(b.group[o])
    BY <2>3, SetWorkspacePuts
  <2>5. Puts(s, b, Past(i - 1) \cup {v}, o, w)
    BY <2>3, <2>4, PutsAgain
  <2>6. OnlyGroups(s, b)
    BY <2>3, <2>4 DEF OnlyGroups
  <2>7. Right(b, Past(i))
    BY <2>2, <2>4, <2>5, <2>6
  <2> HIDE DEF Right
  <2> QED BY <2>1, <2>7
<1>7. Len(q) \in T
  <2> HIDE DEF T
  <2>1. PICK n \in Nat : n = Len(q)
    BY <1>4
  <2>2. \A i \in 0 .. n : i \in T
    BY <1>5, <1>6, <2>1, LoopInvariant
  <2> QED BY <2>1, <2>2
<1>8. Past(Len(q)) = W
  BY <1>1, <1>4 DEF ToSet
<1>9. Right(after[Len(q)], W)
  <2> HIDE DEF Past, Right
  <2> QED BY <1>7, <1>8
<1> QED BY <1>2, <1>3, <1>9

DetachFold == INSTANCE FoldLemmas WITH Op <- LAMBDA a, b, s, v : Detach(s, v)

LEMMA DetachAllPuts ==
  ASSUME NEW s, Fine(s), NEW W \in SUBSET Views
  PROVE  LET t == DetachAll(s, W) IN Fine(t) /\ OnlyGroups(s, t) /\ Puts(s, t, W, None, None)
<1> DEFINE q == SetToSeq(W)
<1>1. q \in Seq(W) /\ ToSet(q) = W
  BY Windows, SetToSeqFacts
<1>wellordered. DetachFold!WellOrdered
  BY NatLeast DEF DetachFold!WellOrdered
<1>2. PICK after :
        /\ after[0] = s
        /\ \A i \in 1 .. Len(q) : after[i] = Detach(after[i - 1], q[i])
        /\ DetachFold!Result(None, None, s, q) = after[Len(q)]
  <2> HIDE DEF q
  <2> QED BY <1>1, <1>wellordered, DetachFold!Folded
<1>3. DetachAll(s, W) = DetachFold!Result(None, None, s, q)
  BY Zenon DEF DetachAll, FoldLeft, MapThenFoldSet, Max, DetachFold!MapThenFoldSet, DetachFold!Greatest,
               DetachFold!Result
<1> HIDE DEF q
<1> DEFINE Past(i) == {q[j] : j \in 1 .. i}
           Right(t, V) == Fine(t) /\ OnlyGroups(s, t) /\ Puts(s, t, V, None, None)
           T == {i \in 0 .. Len(q) : Right(after[i], Past(i))}
<1>4. Len(q) \in Nat /\ DOMAIN q = 1 .. Len(q) /\ \A i \in 1 .. Len(q) : q[i] \in W
  BY <1>1
<1>5. 0 \in T
  <2>1. Past(0) = {}
    OBVIOUS
  <2>2. Right(s, {})
    BY NothingPut
  <2> HIDE DEF Past, Right
  <2>3. Right(after[0], Past(0))
    BY <1>2, <2>1, <2>2, Zenon
  <2> QED BY <1>4, <2>3
<1>6. ASSUME NEW i \in 1 .. Len(q), i - 1 \in T PROVE i \in T
  <2>1. PICK a, v, b : a = after[i - 1] /\ v = q[i] /\ b = after[i]
    OBVIOUS
  <2>2. Past(i) = Past(i - 1) \cup {v}
    <3>1. 1 .. i = (1 .. (i - 1)) \cup {i}
      BY <1>4
    <3> QED BY <2>1, <3>1
  <2>3. Right(a, Past(i - 1)) /\ b = Detach(a, v) /\ v \in Views
    BY <1>2, <1>4, <1>6, <2>1
  <2> HIDE DEF Past
  <2>4. Fine(b) /\ OnlyGroups(a, b) /\ Puts(a, b, {v}, None, None)
    BY <2>3, DetachPuts
  <2>5. Puts(s, b, Past(i - 1) \cup {v}, None, None)
    BY <2>3, <2>4, PutsAgain
  <2>6. OnlyGroups(s, b)
    BY <2>3, <2>4 DEF OnlyGroups
  <2>7. Right(b, Past(i))
    BY <2>2, <2>4, <2>5, <2>6
  <2> HIDE DEF Right
  <2> QED BY <2>1, <2>7
<1>7. Len(q) \in T
  <2> HIDE DEF T
  <2>1. PICK n \in Nat : n = Len(q)
    BY <1>4
  <2>2. \A i \in 0 .. n : i \in T
    BY <1>5, <1>6, <2>1, LoopInvariant
  <2> QED BY <2>1, <2>2
<1>8. Past(Len(q)) = W
  BY <1>1, <1>4 DEF ToSet
<1>9. Right(after[Len(q)], W)
  <2> HIDE DEF Past, Right
  <2> QED BY <1>7, <1>8
<1> QED BY <1>2, <1>3, <1>9

\* A move by the user also ends what the windows remembered of a home.
Moves(s, t, W, o, w) ==
  /\ Fine(t) /\ Puts(s, t, W, o, w) /\ w \in Inventory!Live(t.group[o])
  /\ \A f \in DeskFields \ {"group", "home", "idle"} : t[f] = s[f]
  /\ t.home = [v \in Views |-> IF v \in W THEN None ELSE s.home[v]]
  /\ t.idle \in BOOLEAN /\ (s.idle => t.idle)

\* Inventories do not know of homes, or of what is scheduled.
LEMMA FineElsewhere ==
  ASSUME NEW s, Fine(s), NEW t, t = [f \in DeskFields |-> t[f]], t.group = s.group
  PROVE  Fine(t)
<1>1. t.group = [o \in Outputs |-> t.group[o]] /\ \A o \in Outputs : Calm(t.group[o])
  BY DEF Fine
<1>2. \A v \in Views : \A o, p \in Outputs :
        t.group[o].home[v] # None /\ t.group[p].home[v] # None => o = p
  BY DEF Fine
<1> QED BY <1>1, <1>2, Zenon DEF Fine

LEMMA MoveToMoves ==
  ASSUME NEW s, Fine(s), NEW v \in Views, NEW o \in Outputs, NEW w \in Inventory!Live(s.group[o]),
         s.home = [u \in Views |-> s.home[u]], s.idle \in BOOLEAN
  PROVE  Moves(s, MoveTo(s, v, o, w), {v}, o, w)
<1> DEFINE r == [s EXCEPT !.home[v] = None]
           t == SetWorkspace(r, v, o, w)
           u == MoveTo(s, v, o, w)
<1>1. /\ r = [f \in DeskFields |-> r[f]] /\ r.home = [s.home EXCEPT ![v] = None]
      /\ \A f \in DeskFields \ {"home"} : r[f] = s[f]
  BY DEF Fine, DeskFields
<1>2. r.group = s.group /\ r.idle = s.idle
  BY <1>1 DEF DeskFields
<1>3. Fine(r)
  <2> HIDE DEF r
  <2> QED BY <1>1, <1>2, FineElsewhere
<1>4. u = [t EXCEPT !.idle = @ \/ s.home[v] # None]
  BY DEF MoveTo
<1> HIDE DEF r
<1>5. Fine(t) /\ OnlyGroups(r, t) /\ Puts(r, t, {v}, o, w) /\ w \in Inventory!Live(t.group[o])
  BY <1>2, <1>3, SetWorkspacePuts
<1> HIDE DEF t, u
<1>6. t.home = r.home /\ t.idle = r.idle /\ \A f \in DeskFields \ {"home", "group", "idle"} : t[f] = s[f]
  BY <1>1, <1>5 DEF OnlyGroups, DeskFields
<1>7. /\ u = [f \in DeskFields |-> u[f]] /\ u.idle = (t.idle \/ s.home[v] # None)
      /\ \A f \in DeskFields \ {"idle"} : u[f] = t[f]
  BY <1>4, <1>5 DEF Fine, DeskFields
<1>8. u.group = t.group /\ u.home = t.home
  BY <1>7 DEF DeskFields
<1>9. Fine(u)
  BY <1>5, <1>7, <1>8, FineElsewhere
<1>10. Puts(s, u, {v}, o, w)
  <2>1. PICK a, b : a = s.group /\ b = u.group
    OBVIOUS
  <2>2. \A p \in Outputs :
          /\ b[p].active = a[p].active
          /\ b[p].home = [x \in Views |-> IF x \in {v} THEN IF p = o THEN w ELSE None ELSE a[p].home[x]]
    BY <1>2, <1>5, <1>8, <2>1 DEF Puts
  <2> QED BY <2>1, <2>2 DEF Puts
<1>11. u.home = [x \in Views |-> IF x \in {v} THEN None ELSE s.home[x]]
  BY <1>1, <1>6, <1>8
<1>12. \A f \in DeskFields \ {"group", "home", "idle"} : u[f] = s[f]
  BY <1>6, <1>7
<1>13. u.idle \in BOOLEAN /\ (s.idle => u.idle)
  BY <1>2, <1>6, <1>7
<1> QED BY <1>5, <1>8, <1>9, <1>10, <1>11, <1>12, <1>13 DEF Moves, u

MoveFold == INSTANCE FoldLemmas WITH Op <- LAMBDA a, b, s, v : MoveTo(s, v, a, b)

LEMMA MoveAllMoves ==
  ASSUME NEW s, Fine(s), NEW W \in SUBSET Views, NEW o \in Outputs, NEW w \in Inventory!Live(s.group[o]),
         s.home = [u \in Views |-> s.home[u]], s.idle \in BOOLEAN
  PROVE  Moves(s, MoveAll(s, W, o, w), W, o, w)
<1> DEFINE q == SetToSeq(W)
<1>1. q \in Seq(W) /\ ToSet(q) = W
  BY Windows, SetToSeqFacts
<1>wellordered. MoveFold!WellOrdered
  BY NatLeast DEF MoveFold!WellOrdered
<1>2. PICK after :
        /\ after[0] = s
        /\ \A i \in 1 .. Len(q) : after[i] = MoveTo(after[i - 1], q[i], o, w)
        /\ MoveFold!Result(o, w, s, q) = after[Len(q)]
  <2> HIDE DEF q
  <2> QED BY <1>1, <1>wellordered, MoveFold!Folded
<1>3. MoveAll(s, W, o, w) = MoveFold!Result(o, w, s, q)
  BY Zenon DEF MoveAll, FoldLeft, MapThenFoldSet, Max, MoveFold!MapThenFoldSet, MoveFold!Greatest,
               MoveFold!Result
<1> HIDE DEF q
<1> DEFINE Past(i) == {q[j] : j \in 1 .. i}
           T == {i \in 0 .. Len(q) : Moves(s, after[i], Past(i), o, w)}
<1>4. Len(q) \in Nat /\ DOMAIN q = 1 .. Len(q) /\ \A i \in 1 .. Len(q) : q[i] \in W
  BY <1>1
<1>5. 0 \in T
  <2>1. Past(0) = {}
    OBVIOUS
  <2>2. Moves(s, s, {}, o, w)
    BY NothingPut DEF Moves
  <2> HIDE DEF Past
  <2>3. Moves(s, after[0], Past(0), o, w)
    BY <1>2, <2>1, <2>2, Zenon
  <2> QED BY <1>4, <2>3
<1>6. ASSUME NEW i \in 1 .. Len(q), i - 1 \in T PROVE i \in T
  <2>1. PICK a, v, b : a = after[i - 1] /\ v = q[i] /\ b = after[i]
    OBVIOUS
  <2>2. Past(i) = Past(i - 1) \cup {v}
    <3>1. 1 .. i = (1 .. (i - 1)) \cup {i}
      BY <1>4
    <3> QED BY <2>1, <3>1
  <2>3. Moves(s, a, Past(i - 1), o, w) /\ b = MoveTo(a, v, o, w) /\ v \in Views
    BY <1>2, <1>4, <1>6, <2>1
  <2> HIDE DEF Past
  <2>4. Fine(a) /\ w \in Inventory!Live(a.group[o]) /\ a.home = [u \in Views |-> a.home[u]] /\ a.idle \in BOOLEAN
    BY <2>3 DEF Moves
  <2>5. Moves(a, b, {v}, o, w)
    BY <2>3, <2>4, MoveToMoves
  <2>6. Puts(s, b, Past(i - 1) \cup {v}, o, w)
    BY <2>3, <2>5, PutsAgain DEF Moves
  <2>7. b.home = [u \in Views |-> IF u \in Past(i - 1) \cup {v} THEN None ELSE s.home[u]]
    BY <2>3, <2>5 DEF Moves
  <2>8. Moves(s, b, Past(i), o, w)
    BY <2>2, <2>3, <2>5, <2>6, <2>7 DEF Moves
  <2> QED BY <2>1, <2>8
<1>7. Len(q) \in T
  <2> HIDE DEF T
  <2>1. PICK n \in Nat : n = Len(q)
    BY <1>4
  <2>2. \A i \in 0 .. n : i \in T
    BY <1>5, <1>6, <2>1, LoopInvariant
  <2> QED BY <2>1, <2>2
<1>8. Past(Len(q)) = W
  BY <1>1, <1>4 DEF ToSet
<1> HIDE DEF Past
<1> QED BY <1>2, <1>3, <1>7, <1>8

-----------------------------------------------------------------------------
(* The inductive invariant.                                                *)

\* The shape of the desk.
Shaped(s) ==
  /\ Fine(s) /\ s.listed \in Seq(Outputs) /\ IsInjective(s.listed)
  /\ s.desktop \in [Outputs -> BOOLEAN] /\ s.asleep \in [Outputs -> BOOLEAN]
  /\ s.open \in SUBSET Views /\ s.home \in [Views -> Home \cup {None}]
  /\ s.chosen \in [Outputs -> Place \cup {None}] /\ s.idle \in BOOLEAN

\* Who has a place is open, and has it on an output of the desktop, or on one
\* of X, which are being evacuated.
Lodged(s, X) ==
  \A v \in Views : On(s, v) # None =>
    v \in s.open /\ On(s, v) \in Listed(s) /\ (s.desktop[On(s, v)] \/ On(s, v) \in X)

\* Who remembers a home is open, and is at that home if it only protects it.
Remembers(s) ==
  \A v \in Views : s.home[v] # None =>
    v \in s.open /\ (s.home[v].protect => On(s, v) = s.home[v].output)

\* A window that remembers a home was put there last, one that does not is
\* where it was put.
Belongs(s, puts) == \A v \in Views : puts[v] = IF s.home[v] # None THEN s.home[v].output ELSE On(s, v)

\* A desk on which everyone is somewhere on the desktop, or on an output of X,
\* and belongs where it was put.
Housed(s, X, puts) == Shaped(s) /\ Remembers(s) /\ Lodged(s, X) /\ Belongs(s, puts)

\* No restore is pending: who has a home that is there is at home, and if some
\* output is enabled everyone is somewhere; nothing is said of the windows of W.
AtRest(s, W) ==
  ~s.idle =>
    /\ \A v \in Views \ W : s.home[v] # None /\ s.home[v].output \in Enabled(s) => On(s, v) = s.home[v].output
    /\ Enabled(s) # {} => Orphans(s) \subseteq W

HInv ==
  /\ Housed(desk, {}, placed) /\ AtRest(desk, {})
  /\ placed \in [Views -> Outputs \cup {None}] /\ events \in 0 .. MaxEvents

-----------------------------------------------------------------------------
(* Leaving an output.                                                      *)

\* Where windows are depends on the inventories alone.
LEMMA SamePlace == ASSUME NEW s, NEW t, t.group = s.group, NEW v PROVE On(t, v) = On(s, v)
BY DEF On

\* A workspace that exists has a place that can be remembered.
LEMMA PositionIsPlace ==
  ASSUME NEW g, Calm(g), NEW w \in Inventory!Live(g)
  PROVE  Position(g, w) \in Place
<1>1. g.index[w] \in Nat /\ g.label[w] \in Names \cup {Anonymous}
  BY CalmFacts
<1> QED BY <1>1 DEF Position, Place

\* nullptr is no home and no place.
LEMMA NoneIsNoHome == None \notin Home /\ None \notin Place
BY HomesAssumption, Zenon

\* Only what the windows remember differs.
OnlyHomes(s, t) ==
  /\ t = [f \in DeskFields |-> t[f]] /\ \A f \in DeskFields \ {"home"} : t[f] = s[f]

LEMMA OnlyHomesShaped ==
  ASSUME NEW s, Shaped(s), NEW t, OnlyHomes(s, t), t.home \in [Views -> Home \cup {None}]
  PROVE  Shaped(t) /\ t.group = s.group
<1>1. /\ t.group = s.group /\ t.listed = s.listed /\ t.desktop = s.desktop /\ t.asleep = s.asleep
      /\ t.open = s.open /\ t.chosen = s.chosen /\ t.idle = s.idle
  BY DEF OnlyHomes, DeskFields
<1>2. Fine(t)
  BY <1>1, FineElsewhere DEF OnlyHomes, Shaped
<1> QED BY <1>1, <1>2 DEF Shaped

\* The windows of W are on output o.
AllOn(s, W, o) == \A v \in W : On(s, v) = o

\* The windows of W that remembered no home remember one on o.
Captured(s, t, o, W, protect) ==
  /\ OnlyHomes(s, t) /\ Shaped(t)
  /\ \A v \in Views : ~(v \in W /\ s.home[v] = None) => t.home[v] = s.home[v]
  /\ \A v \in W : s.home[v] = None =>
       t.home[v] # None /\ t.home[v].output = o /\ t.home[v].protect = protect

\* rememberWorkspace gives windows that are on an output, and remember none, a home there.
LEMMA CaptureFacts ==
  ASSUME NEW s, Shaped(s), NEW o \in Outputs, NEW W \in SUBSET Views, AllOn(s, W, o),
         NEW protect \in BOOLEAN, NEW u, u = Capture(s, o, W, protect)
  PROVE  Captured(s, u, o, W, protect)
<1> DEFINE t == Capture(s, o, W, protect)
           rec(v) == [output |-> o, at |-> Position(s.group[o], s.group[o].home[v]), protect |-> protect]
<1>1. t = [s EXCEPT !.home = [v \in Views |-> IF v \in W /\ s.home[v] = None THEN rec(v) ELSE s.home[v]]]
  BY DEF Capture
<1>2. ASSUME NEW v \in W PROVE rec(v) \in Home /\ rec(v).output = o /\ rec(v).protect = protect
  <2>1. s.group[o].home[v] # None
    BY OnFacts, <1>2 DEF Shaped, AllOn
  <2>2. Calm(s.group[o]) /\ s.group[o].home[v] \in Inventory!Live(s.group[o])
    <3>1. Calm(s.group[o])
      BY DEF Shaped, Fine
    <3>2. s.group[o].home \in [Views -> Inventory!Live(s.group[o]) \cup {None}]
      BY <3>1, CalmFacts
    <3> QED BY <1>2, <2>1, <3>1, <3>2
  <2>3. Position(s.group[o], s.group[o].home[v]) \in Place
    BY <2>2, PositionIsPlace
  <2> QED BY <2>3 DEF Home
<1> HIDE DEF t, rec
<1>3. OnlyHomes(s, t)
  BY <1>1 DEF OnlyHomes, Shaped, Fine, DeskFields
<1>4. t.home = [v \in Views |-> IF v \in W /\ s.home[v] = None THEN rec(v) ELSE s.home[v]]
  BY <1>1 DEF Shaped, Fine, DeskFields
<1>5. t.home \in [Views -> Home \cup {None}]
  BY <1>2, <1>4 DEF Shaped
<1>6. Shaped(t)
  BY <1>3, <1>5, OnlyHomesShaped
<1>7. \A v \in Views : ~(v \in W /\ s.home[v] = None) => t.home[v] = s.home[v]
  BY <1>4
<1>8. ASSUME NEW v \in W, s.home[v] = None
      PROVE  t.home[v] # None /\ t.home[v].output = o /\ t.home[v].protect = protect
  <2>1. t.home[v] = rec(v)
    BY <1>4, <1>8
  <2> QED BY <1>2, <2>1, NoneIsNoHome
<1> QED BY <1>3, <1>6, <1>7, <1>8 DEF Captured, t

\* Windows that leave are away from then on.
LEMMA AwayFacts ==
  ASSUME NEW s, Shaped(s), NEW W \in SUBSET Views, \A v \in W : s.home[v] # None
  PROVE  LET t == Away(s, W)
         IN /\ OnlyHomes(s, t) /\ Shaped(t)
            /\ \A v \in Views \ W : t.home[v] = s.home[v]
            /\ \A v \in W : t.home[v] # None /\ t.home[v].output = s.home[v].output /\ t.home[v].protect = FALSE
<1> DEFINE t == Away(s, W)
           h(v) == [s.home[v] EXCEPT !.protect = FALSE]
<1>1. t = [s EXCEPT !.home = [v \in Views |-> IF v \in W THEN h(v) ELSE s.home[v]]]
  BY DEF Away
<1>2. ASSUME NEW v \in W PROVE h(v) \in Home /\ h(v).output = s.home[v].output /\ h(v).protect = FALSE
  <2>1. s.home[v] \in Home
    BY <1>2 DEF Shaped
  <2> QED BY <2>1 DEF Home
<1> HIDE DEF t, h
<1>3. OnlyHomes(s, t)
  BY <1>1 DEF OnlyHomes, Shaped, Fine, DeskFields
<1>4. t.home = [v \in Views |-> IF v \in W THEN h(v) ELSE s.home[v]]
  BY <1>1 DEF Shaped, Fine, DeskFields
<1>5. t.home \in [Views -> Home \cup {None}]
  <2>1. \A v \in Views : s.home[v] \in Home \cup {None}
    BY DEF Shaped
  <2>2. \A v \in Views : (IF v \in W THEN h(v) ELSE s.home[v]) \in Home \cup {None}
    BY <1>2, <2>1
  <2> QED BY <1>4, <2>2
<1>6. Shaped(t)
  BY <1>3, <1>5, OnlyHomesShaped
<1>7. \A v \in Views \ W : t.home[v] = s.home[v]
  BY <1>4
<1>8. ASSUME NEW v \in W
      PROVE  t.home[v] # None /\ t.home[v].output = s.home[v].output /\ t.home[v].protect = FALSE
  <2>1. t.home[v] = h(v)
    BY <1>4, <1>8
  <2> QED BY <1>2, <2>1, NoneIsNoHome
<1> QED BY <1>3, <1>6, <1>7, <1>8 DEF t

\* The selection of the output that leaves is remembered.
LEMMA SelectionFacts ==
  ASSUME NEW s, Shaped(s), NEW o \in Outputs
  PROVE  LET t == RememberSelection(s, o)
         IN /\ Shaped(t) /\ t = [f \in DeskFields |-> t[f]]
            /\ \A f \in DeskFields \ {"chosen"} : t[f] = s[f]
<1> DEFINE t == RememberSelection(s, o)
           p == Position(s.group[o], s.group[o].active)
<1>1. t = [s EXCEPT !.chosen = [s.chosen EXCEPT ![o] = IF @ = None THEN p ELSE @]]
  BY DEF RememberSelection
<1>2. p \in Place
  <2>1. Calm(s.group[o]) /\ s.group[o].active \in Inventory!Live(s.group[o])
    BY CalmFacts DEF Shaped, Fine
  <2> QED BY <2>1, PositionIsPlace
<1> HIDE DEF t, p
<1>3. /\ t = [f \in DeskFields |-> t[f]] /\ \A f \in DeskFields \ {"chosen"} : t[f] = s[f]
      /\ t.chosen = [s.chosen EXCEPT ![o] = IF @ = None THEN p ELSE @]
  BY <1>1 DEF Shaped, Fine, DeskFields
<1>4. t.chosen \in [Outputs -> Place \cup {None}]
  BY <1>2, <1>3 DEF Shaped
<1>5. /\ t.group = s.group /\ t.listed = s.listed /\ t.desktop = s.desktop /\ t.asleep = s.asleep
      /\ t.open = s.open /\ t.home = s.home /\ t.idle = s.idle
  BY <1>3 DEF DeskFields
<1>6. Fine(t)
  BY <1>3, <1>5, FineElsewhere DEF Shaped
<1>7. Shaped(t)
  BY <1>4, <1>5, <1>6 DEF Shaped
<1> QED BY <1>3, <1>7 DEF t

\* m_outputs, and those of it that show something.
LEMMA ListedFacts ==
  ASSUME NEW s, s.listed \in Seq(Outputs)
  PROVE  Listed(s) \subseteq Outputs /\ Enabled(s) \subseteq Listed(s) /\ None \notin Listed(s)
<1>1. Listed(s) \subseteq Outputs /\ Enabled(s) \subseteq Listed(s)
  BY DEF Listed, Enabled
<1> QED BY <1>1, NoneFacts

\* Enabled(s) is made of listed outputs; the first of a set of them is one of them.
LEMMA FirstFacts ==
  ASSUME NEW s, Shaped(s), NEW S, S \subseteq Listed(s)
  PROVE  /\ Listed(s) \subseteq Outputs /\ Enabled(s) \subseteq Listed(s)
         /\ S = {} => FirstOf(s, S) = None
         /\ S # {} => FirstOf(s, S) \in S
<1> DEFINE found == {i \in DOMAIN s.listed : s.listed[i] \in S}
<1>1. DOMAIN s.listed \in SUBSET Nat /\ Listed(s) \subseteq Outputs /\ Enabled(s) \subseteq Listed(s)
  BY DEF Shaped, Listed, Enabled
<1>2. FirstOf(s, S) = IF found = {} THEN None ELSE s.listed[Min(found)]
  BY DEF FirstOf
<1>3. S # {} => found # {}
  BY DEF Listed
<1>4. ASSUME found # {} PROVE Min(found) \in found
  <2>1. found \in SUBSET Nat
    BY <1>1
  <2> HIDE DEF found
  <2> QED BY <1>4, <2>1, LeastOfNat
<1> QED BY <1>1, <1>2, <1>3, <1>4

\* What an evacuation of o does: its windows go to an enabled output, if there
\* is another one, and remember where they came from; those whose workspace
\* they share may remember that they are at home.
Evacuated(s, t, o) ==
  /\ Shaped(t)
  /\ \A f \in {"listed", "desktop", "asleep", "open", "idle"} : t[f] = s[f]
  /\ \A v \in Views :
       /\ On(s, v) # o => On(t, v) = On(s, v)
       /\ On(s, v) = o =>
            /\ Enabled(s) \ {o} # {} => On(t, v) \in Enabled(s) \ {o}
            /\ Enabled(s) \ {o} = {} => On(t, v) = None
            /\ t.home[v] # None
       /\ s.home[v] # None => t.home[v] # None /\ t.home[v].output = s.home[v].output
       /\ s.home[v] = None /\ t.home[v] # None => On(s, v) # None /\ t.home[v].output = On(s, v)
       /\ t.home[v] # None /\ t.home[v].protect => On(t, v) = t.home[v].output

LEMMA EvacuateFacts ==
  ASSUME NEW s, Shaped(s), Remembers(s), NEW o \in Listed(s)
  PROVE  Evacuated(s, Evacuate(s, o), o)
<1> DEFINE d == FirstOf(s, Enabled(s) \ {o})
           leaving == {v \in Views : On(s, v) = o}
           refuge == s.group[d].active
           s0 == RememberSelection(s, o)
           s1 == Capture(s0, o, leaving, FALSE)
           residents == ViewsAt(s1, d, refuge)
           s2 == IF leaving # {} /\ d # None THEN Capture(s1, d, residents, TRUE) ELSE s1
           s3 == Away(s2, leaving)
           t == IF d # None THEN SetAll(s3, leaving, d, refuge) ELSE DetachAll(s3, leaving)
<1>0. Evacuate(s, o) = t
  BY DEF Evacuate, Reassign
<1>1. /\ o \in Outputs /\ o # None
      /\ (Enabled(s) \ {o} # {} => d \in Enabled(s) \ {o} /\ d \in Outputs /\ d # None)
      /\ (Enabled(s) \ {o} = {} => d = None)
  <2>1. Enabled(s) \ {o} \subseteq Listed(s) /\ Listed(s) \subseteq Outputs
    BY FirstFacts DEF Enabled
  <2>2. (Enabled(s) \ {o} # {} => d \in Enabled(s) \ {o}) /\ (Enabled(s) \ {o} = {} => d = None)
    BY <2>1, FirstFacts
  <2> QED BY <2>1, <2>2, NoneFacts
<1>2. d # None => d \in Outputs /\ d # o
  BY <1>1
<1> HIDE DEF d
<1>3. Shaped(s0) /\ \A f \in DeskFields \ {"chosen"} : s0[f] = s[f]
  BY <1>1, SelectionFacts
<1> HIDE DEF s0
<1>4. /\ s0.group = s.group /\ s0.home = s.home /\ s0.listed = s.listed /\ s0.desktop = s.desktop
      /\ s0.asleep = s.asleep /\ s0.open = s.open /\ s0.idle = s.idle
  BY <1>3 DEF DeskFields
<1>5. leaving \in SUBSET Views /\ \A v \in leaving : On(s0, v) = o
  BY <1>4, SamePlace
<1>6. /\ OnlyHomes(s0, s1) /\ Shaped(s1)
      /\ \A v \in Views : ~(v \in leaving /\ s0.home[v] = None) => s1.home[v] = s0.home[v]
      /\ \A v \in leaving : s0.home[v] = None =>
           s1.home[v] # None /\ s1.home[v].output = o /\ s1.home[v].protect = FALSE
  <2>1. PICK protect \in BOOLEAN : protect = FALSE
    OBVIOUS
  <2>2. s1 = Capture(s0, o, leaving, protect) /\ AllOn(s0, leaving, o)
    BY <1>5, <2>1 DEF AllOn
  <2> HIDE DEF leaving, s1
  <2>3. Captured(s0, s1, o, leaving, protect)
    BY <1>1, <1>3, <1>5, <2>2, CaptureFacts
  <2> QED BY <2>1, <2>3 DEF Captured
<1> HIDE DEF s1
<1>7. s1.group = s.group
  BY <1>4, <1>6 DEF OnlyHomes, DeskFields
<1>8. \A v \in leaving : s1.home[v] # None
  BY <1>4, <1>5, <1>6
<1>9. /\ OnlyHomes(s1, s2) /\ Shaped(s2)
      /\ \A v \in Views : s1.home[v] # None => s2.home[v] = s1.home[v]
      /\ \A v \in Views : s1.home[v] = None /\ s2.home[v] # None =>
           On(s, v) = d /\ d # None /\ s2.home[v].output = d
  <2>1. CASE leaving # {} /\ d # None
    <3>1. s2 = Capture(s1, d, residents, TRUE)
      BY <2>1
    <3>2. residents \in SUBSET Views /\ \A v \in residents : On(s1, v) = d /\ On(s, v) = d
      <4>1. Calm(s.group[d]) /\ d \in Outputs /\ Fine(s) /\ Fine(s1)
        BY <1>2, <1>6, <2>1 DEF Shaped, Fine
      <4>2. refuge # None
        BY <4>1, CalmFacts
      <4>3. \A v \in residents : v \in Views /\ s.group[d].home[v] # None
        BY <1>7, <4>2 DEF ViewsAt
      <4>4. \A v \in residents : On(s, v) = d
        BY <4>1, <4>3, OnFacts
      <4> QED BY <1>7, <4>3, <4>4, SamePlace
    <3> HIDE DEF residents, s2
    <3>4. PICK protect \in BOOLEAN : protect = TRUE
      OBVIOUS
    <3>5. s2 = Capture(s1, d, residents, protect) /\ AllOn(s1, residents, d)
      BY <3>1, <3>2, <3>4 DEF AllOn
    <3>3. Captured(s1, s2, d, residents, protect)
      BY <1>2, <1>6, <2>1, <3>2, <3>5, CaptureFacts
    <3> QED BY <2>1, <3>2, <3>3 DEF Captured
  <2>2. CASE ~(leaving # {} /\ d # None)
    <3>1. s2 = s1
      BY <2>2
    <3>2. OnlyHomes(s1, s1)
      BY <1>6 DEF OnlyHomes
    <3> HIDE DEF s2
    <3> QED BY <1>6, <3>1, <3>2
  <2> QED BY <2>1, <2>2
<1> HIDE DEF s2
<1>10. /\ OnlyHomes(s2, s3) /\ Shaped(s3)
       /\ \A v \in Views \ leaving : s3.home[v] = s2.home[v]
       /\ \A v \in leaving : s3.home[v] # None /\ s3.home[v].output = s2.home[v].output /\ s3.home[v].protect = FALSE
  <2>1. \A v \in leaving : s2.home[v] # None
    BY <1>5, <1>8, <1>9
  <2> HIDE DEF leaving
  <2> QED BY <1>5, <1>9, <2>1, AwayFacts
<1> HIDE DEF s3
<1>11. /\ s3.group = s.group /\ s3.listed = s.listed /\ s3.desktop = s.desktop
       /\ s3.asleep = s.asleep /\ s3.open = s.open /\ s3.idle = s.idle /\ s3.chosen = s0.chosen
  BY <1>4, <1>6, <1>9, <1>10 DEF OnlyHomes, DeskFields
<1>12. Fine(t) /\ OnlyGroups(s3, t) /\ \A v \in Views : On(t, v) = IF v \in leaving THEN d ELSE On(s, v)
  <2>1. Fine(s3)
    BY <1>10 DEF Shaped
  <2>2. \A v \in Views : On(s3, v) = On(s, v)
    BY <1>11, SamePlace
  <2>3. CASE d # None
    <3>1. t = SetAll(s3, leaving, d, refuge)
      BY <2>3
    <3>2. Calm(s3.group[d]) /\ d \in Outputs /\ s3.group[d] = s.group[d]
      BY <1>2, <1>11, <2>1, <2>3 DEF Fine
    <3>3. refuge \in Inventory!Live(s3.group[d]) /\ refuge # None
      BY <3>2, CalmFacts
    <3> HIDE DEF t, refuge, leaving
    <3>4. Fine(t) /\ OnlyGroups(s3, t) /\ Puts(s3, t, leaving, d, refuge)
      BY <1>5, <2>1, <3>1, <3>2, <3>3, SetAllPuts
    <3>5. \A v \in Views : On(t, v) = IF v \in leaving THEN d ELSE On(s3, v)
      BY <2>1, <3>2, <3>3, <3>4, PutsOn
    <3> QED BY <2>2, <3>4, <3>5
  <2>4. CASE d = None
    <3>1. t = DetachAll(s3, leaving)
      BY <2>4
    <3> HIDE DEF t, leaving
    <3>2. Fine(t) /\ OnlyGroups(s3, t) /\ Puts(s3, t, leaving, None, None)
      BY <1>5, <2>1, <3>1, DetachAllPuts
    <3>3. \A v \in Views : On(t, v) = IF v \in leaving THEN None ELSE On(s3, v)
      BY <2>1, <3>2, PutsOn
    <3> QED BY <2>2, <2>4, <3>2, <3>3
  <2> QED BY <2>3, <2>4
<1> HIDE DEF t
<1>13. /\ t.listed = s.listed /\ t.desktop = s.desktop /\ t.asleep = s.asleep /\ t.open = s.open
       /\ t.idle = s.idle /\ t.home = s3.home /\ t.chosen = s3.chosen
  BY <1>11, <1>12 DEF OnlyGroups, DeskFields
<1>14. Shaped(t)
  BY <1>10, <1>11, <1>12, <1>13 DEF Shaped
<1>15. ASSUME NEW v \in Views
       PROVE  /\ On(s, v) # o => On(t, v) = On(s, v)
              /\ On(s, v) = o =>
                   /\ Enabled(s) \ {o} # {} => On(t, v) \in Enabled(s) \ {o}
                   /\ Enabled(s) \ {o} = {} => On(t, v) = None
                   /\ t.home[v] # None
              /\ s.home[v] # None => t.home[v] # None /\ t.home[v].output = s.home[v].output
              /\ s.home[v] = None /\ t.home[v] # None => On(s, v) # None /\ t.home[v].output = On(s, v)
              /\ t.home[v] # None /\ t.home[v].protect => On(t, v) = t.home[v].output
  <2>1. CASE On(s, v) = o
    <3>1. v \in leaving
      BY <2>1
    <3> HIDE DEF leaving
    <3>2. s2.home[v] = s1.home[v] /\ s1.home[v] # None
      BY <1>8, <1>9, <3>1
    <3>3. t.home[v] # None /\ t.home[v].output = s1.home[v].output /\ t.home[v].protect = FALSE
      BY <1>10, <1>13, <3>1, <3>2
    <3>4. s.home[v] # None => s1.home[v] = s.home[v]
      BY <1>4, <1>6
    <3>5. s.home[v] = None => s1.home[v].output = o
      BY <1>4, <1>6, <3>1
    <3>6. On(t, v) = d
      BY <1>12, <3>1
    <3> QED BY <1>1, <2>1, <3>3, <3>4, <3>5, <3>6
  <2>2. CASE On(s, v) # o
    <3>1. v \notin leaving
      BY <2>2
    <3> HIDE DEF leaving
    <3>2. On(t, v) = On(s, v) /\ s1.home[v] = s.home[v] /\ t.home[v] = s2.home[v]
      BY <1>4, <1>6, <1>10, <1>12, <1>13, <3>1
    <3>3. s.home[v] # None => t.home[v] = s.home[v]
      BY <1>9, <3>2
    <3>4. s.home[v] = None /\ t.home[v] # None => On(s, v) = d /\ d # None /\ t.home[v].output = d
      BY <1>9, <3>2
    <3>5. s.home[v] # None /\ s.home[v].protect => On(s, v) = s.home[v].output
      BY DEF Remembers
    <3> QED BY <2>2, <3>2, <3>3, <3>4, <3>5
  <2> QED BY <2>1, <2>2
<1>16. \A f \in {"listed", "desktop", "asleep", "open", "idle"} : t[f] = s[f]
  BY <1>13
<1>17. Evacuated(s, t, o)
  BY <1>14, <1>15, <1>16 DEF Evacuated
<1> QED BY <1>0, <1>17

\* So windows go on belonging where they belong, and the output is empty.
LEMMA EvacuatedKeeps ==
  ASSUME NEW s, Shaped(s), Remembers(s), NEW X, Lodged(s, X), NEW puts, Belongs(s, puts), NEW o \in Listed(s),
         NEW t, Evacuated(s, t, o)
  PROVE  /\ Shaped(t) /\ Remembers(t) /\ Lodged(t, X \ {o}) /\ Belongs(t, puts)
         /\ Listed(t) = Listed(s) /\ Enabled(t) = Enabled(s)
<1>1. t.listed = s.listed /\ t.desktop = s.desktop /\ t.asleep = s.asleep /\ t.open = s.open /\ Shaped(t)
  BY DEF Evacuated
<1>2. Listed(t) = Listed(s) /\ Enabled(t) = Enabled(s) /\ o # None
  <2>1. o # None
    BY ListedFacts DEF Shaped
  <2> QED BY <1>1, <2>1 DEF Listed, Enabled
<1>3. ASSUME NEW v \in Views, t.home[v] # None
      PROVE  v \in t.open /\ (t.home[v].protect => On(t, v) = t.home[v].output)
  <2>1. s.home[v] # None \/ On(s, v) # None
    BY <1>3 DEF Evacuated
  <2>2. v \in s.open
    BY <2>1 DEF Remembers, Lodged
  <2> QED BY <1>1, <1>3, <2>2 DEF Evacuated
<1>4. ASSUME NEW v \in Views, On(t, v) # None
      PROVE  v \in t.open /\ On(t, v) \in Listed(t) /\ (t.desktop[On(t, v)] \/ On(t, v) \in X \ {o})
  <2>1. CASE On(s, v) = o
    <3>1. On(t, v) \in Enabled(s) \ {o}
      BY <1>4, <2>1 DEF Evacuated
    <3>2. v \in s.open
      BY <1>2, <2>1 DEF Lodged
    <3> QED BY <1>1, <1>2, <3>1, <3>2 DEF Enabled
  <2>2. CASE On(s, v) # o
    <3>1. On(t, v) = On(s, v)
      BY <2>2 DEF Evacuated
    <3> QED BY <1>1, <1>2, <1>4, <2>2, <3>1 DEF Lodged
  <2> QED BY <2>1, <2>2
<1>5. ASSUME NEW v \in Views PROVE puts[v] = IF t.home[v] # None THEN t.home[v].output ELSE On(t, v)
  <2>1. puts[v] = IF s.home[v] # None THEN s.home[v].output ELSE On(s, v)
    BY DEF Belongs
  <2>2. /\ s.home[v] # None => t.home[v] # None /\ t.home[v].output = s.home[v].output
        /\ s.home[v] = None /\ t.home[v] # None => t.home[v].output = On(s, v)
        /\ t.home[v] = None => On(t, v) = On(s, v)
    BY DEF Evacuated
  <2> QED BY <2>1, <2>2
<1>6. Remembers(t) /\ Lodged(t, X \ {o}) /\ Belongs(t, puts)
  BY <1>3, <1>4, <1>5 DEF Remembers, Lodged, Belongs
<1> QED BY <1>1, <1>2, <1>6

\* The outputs, the windows that are open and what is scheduled are the same.
SameOutputs(s, t) ==
  /\ t.listed = s.listed /\ t.desktop = s.desktop /\ t.asleep = s.asleep /\ t.open = s.open
  /\ t.idle = s.idle

LEMMA EvacuateHouses ==
  ASSUME NEW s, NEW X, NEW puts, Housed(s, X, puts), NEW o \in Listed(s), NEW t, t = Evacuate(s, o)
  PROVE  Evacuated(s, t, o) /\ Housed(t, X \ {o}, puts) /\ SameOutputs(s, t)
<1>1. Shaped(s) /\ Remembers(s) /\ Lodged(s, X) /\ Belongs(s, puts)
  BY DEF Housed
<1>2. Evacuated(s, t, o)
  BY <1>1, EvacuateFacts
<1>3. Shaped(t) /\ Remembers(t) /\ Lodged(t, X \ {o}) /\ Belongs(t, puts)
  BY <1>1, <1>2, EvacuatedKeeps
<1>4. SameOutputs(s, t)
  BY <1>2 DEF Evacuated, SameOutputs
<1> QED BY <1>2, <1>3, <1>4 DEF Housed

ReassignFold == INSTANCE FoldLemmas WITH Op <- LAMBDA a, b, s, o : IF o \in a THEN Evacuate(s, o) ELSE s

\* A pass over m_outputs leaves none of the outputs that are gone with a window.
LEMMA ReassignAllHouses ==
  ASSUME NEW s, NEW gone, NEW puts, Housed(s, gone, puts), gone \subseteq Listed(s),
         NEW t, t = ReassignAll(s, gone)
  PROVE  Housed(t, {}, puts) /\ SameOutputs(s, t)
<1> DEFINE q == s.listed
<1>1. q \in Seq(Outputs)
  BY DEF Housed, Shaped
<1>wellordered. ReassignFold!WellOrdered
  BY NatLeast DEF ReassignFold!WellOrdered
<1>2. PICK after :
        /\ after[0] = s
        /\ \A i \in 1 .. Len(q) :
             after[i] = IF q[i] \in gone THEN Evacuate(after[i - 1], q[i]) ELSE after[i - 1]
        /\ ReassignFold!Result(gone, None, s, q) = after[Len(q)]
  <2> HIDE DEF q
  <2> QED BY <1>1, <1>wellordered, ReassignFold!Folded
<1>3. ReassignAll(s, gone) = ReassignFold!Result(gone, None, s, q)
  BY Zenon DEF ReassignAll, FoldLeft, MapThenFoldSet, Max, ReassignFold!MapThenFoldSet,
               ReassignFold!Greatest, ReassignFold!Result
<1>4. Len(q) \in Nat /\ \A i \in 1 .. Len(q) : q[i] \in Outputs /\ q[i] \in Listed(s)
  BY <1>1 DEF Listed
<1>5. Listed(s) = {q[j] : j \in 1 .. Len(q)}
  BY <1>1 DEF Listed
<1> HIDE DEF q
<1> DEFINE Left(i) == gone \ {q[j] : j \in 1 .. i}
           Right(u, V) == Housed(u, V, puts) /\ SameOutputs(s, u)
           T == {i \in 0 .. Len(q) : Right(after[i], Left(i))}
<1>6. 0 \in T
  <2>1. Left(0) = gone
    OBVIOUS
  <2>2. Right(s, gone)
    BY DEF SameOutputs
  <2> HIDE DEF Left, Right
  <2>3. Right(after[0], Left(0))
    BY <1>2, <2>1, <2>2, Zenon
  <2> QED BY <1>4, <2>3
<1>7. ASSUME NEW i \in 1 .. Len(q), i - 1 \in T PROVE i \in T
  <2>1. PICK a, o, b : a = after[i - 1] /\ o = q[i] /\ b = after[i]
    OBVIOUS
  <2>2. Left(i) = Left(i - 1) \ {o}
    <3>1. 1 .. i = (1 .. (i - 1)) \cup {i}
      BY <1>4
    <3> QED BY <2>1, <3>1
  <2>3. Right(a, Left(i - 1)) /\ b = (IF o \in gone THEN Evacuate(a, o) ELSE a) /\ o \in Listed(s)
    BY <1>2, <1>4, <1>7, <2>1
  <2>4. Right(b, Left(i))
    <3>1. CASE o \in gone
      <4>1. PICK V : V = Left(i - 1)
        OBVIOUS
      <4> HIDE DEF Left
      <4>2. o \in Listed(a) /\ Housed(a, V, puts) /\ b = Evacuate(a, o)
        BY <2>3, <3>1, <4>1 DEF SameOutputs, Listed
      <4>3. Housed(b, V \ {o}, puts) /\ SameOutputs(a, b)
        BY <4>2, EvacuateHouses
      <4> QED BY <2>2, <2>3, <4>1, <4>3 DEF SameOutputs
    <3>2. CASE o \notin gone
      <4>1. Left(i) = Left(i - 1) /\ b = a
        BY <2>2, <2>3, <3>2
      <4> HIDE DEF Left, Right
      <4> QED BY <2>3, <4>1
    <3> QED BY <3>1, <3>2
  <2> HIDE DEF Right, Left
  <2> QED BY <2>1, <2>4
<1>8. Len(q) \in T
  <2> HIDE DEF T
  <2>1. PICK n \in Nat : n = Len(q)
    BY <1>4
  <2>2. \A i \in 0 .. n : i \in T
    BY <1>6, <1>7, <2>1, LoopInvariant
  <2> QED BY <2>1, <2>2
<1>9. Left(Len(q)) = {}
  BY <1>5
<1>10. Right(after[Len(q)], {})
  <2> HIDE DEF Left, Right
  <2> QED BY <1>8, <1>9
<1> QED BY <1>2, <1>3, <1>10

-----------------------------------------------------------------------------
(* The handlers of outputs.                                                *)

\* The windows are where they were, and remember what they remembered.
SameWindows(s, t) ==
  /\ Fine(t) /\ t.home = s.home /\ t.open = s.open /\ t.chosen = s.chosen
  /\ \A v \in Views : On(t, v) = On(s, v)

\* m_outputs and what is scheduled have their shape.
OutputsTyped(t) ==
  /\ t.listed \in Seq(Outputs) /\ IsInjective(t.listed)
  /\ t.desktop \in [Outputs -> BOOLEAN] /\ t.asleep \in [Outputs -> BOOLEAN] /\ t.idle \in BOOLEAN

LEMMA Rehoused ==
  ASSUME NEW s, NEW X, NEW puts, Housed(s, X, puts), NEW t, SameWindows(s, t), OutputsTyped(t),
         NEW Y, Lodged(t, Y)
  PROVE  Housed(t, Y, puts)
<1>1. Shaped(t)
  BY DEF Housed, Shaped, SameWindows, OutputsTyped
<1>2. Remembers(t) /\ Belongs(t, puts)
  BY DEF Housed, Remembers, Belongs, SameWindows
<1> QED BY <1>1, <1>2 DEF Housed

\* With fewer outputs enabled, what is at rest stays at rest.
LEMMA FewerEnabled ==
  ASSUME NEW s, NEW W, AtRest(s, W), s.open \in SUBSET Views, NEW t, SameWindows(s, t),
         Enabled(t) \subseteq Enabled(s), s.idle => t.idle
  PROVE  AtRest(t, W)
<1>1. Orphans(t) = Orphans(s)
  BY DEF Orphans, SameWindows
<1> QED BY <1>1 DEF AtRest, SameWindows

\* Inventories alone say where windows are.
SameInventories(s, t) == t = [f \in DeskFields |-> t[f]] /\ t.group = s.group

LEMMA SameGroups ==
  ASSUME NEW s, Fine(s), NEW t, SameInventories(s, t)
  PROVE  Fine(t) /\ \A v \in Views : On(t, v) = On(s, v)
<1>1. t = [f \in DeskFields |-> t[f]] /\ t.group = s.group
  BY DEF SameInventories
<1> QED BY <1>1, FineElsewhere, SamePlace

\* scheduleDisplacedViewRestore: whatever is not at rest is now expected not to be.
LEMMA ScheduleHouses ==
  ASSUME NEW s, NEW puts, Housed(s, {}, puts), NEW t, t = Schedule(s)
  PROVE  Housed(t, {}, puts) /\ AtRest(t, {})
<1>1. /\ t = [f \in DeskFields |-> t[f]] /\ t.idle = TRUE /\ t.group = s.group /\ t.home = s.home
      /\ t.open = s.open /\ t.chosen = s.chosen /\ t.listed = s.listed /\ t.desktop = s.desktop
      /\ t.asleep = s.asleep
  BY DEF Schedule, Housed, Shaped, Fine, DeskFields
<1>2. Fine(t) /\ \A v \in Views : On(t, v) = On(s, v)
  <2>1. SameInventories(s, t) /\ Fine(s)
    BY <1>1 DEF SameInventories, Housed, Shaped
  <2> QED BY <2>1, SameGroups
<1>3. SameWindows(s, t) /\ OutputsTyped(t)
  BY <1>1, <1>2 DEF SameWindows, OutputsTyped, Housed, Shaped
<1>4. Lodged(t, {})
  BY <1>1, <1>2 DEF Housed, Lodged, Listed
<1> QED BY <1>1, <1>3, <1>4, Rehoused DEF AtRest

\* Output::setPowered: one that wakes up schedules a restore.
LEMMA SetPoweredHouses ==
  ASSUME NEW s, NEW puts, Housed(s, {}, puts), AtRest(s, {}), NEW o \in Outputs, NEW powered \in BOOLEAN,
         NEW r, r = [s EXCEPT !.asleep[o] = ~powered], NEW t, t = IF powered THEN Schedule(r) ELSE r
  PROVE  Housed(t, {}, puts) /\ AtRest(t, {})
<1>1. /\ r = [f \in DeskFields |-> r[f]] /\ r.idle = s.idle /\ r.group = s.group /\ r.home = s.home
      /\ r.open = s.open /\ r.chosen = s.chosen /\ r.listed = s.listed /\ r.desktop = s.desktop
      /\ r.asleep = [s.asleep EXCEPT ![o] = ~powered]
  BY DEF Housed, Shaped, Fine, DeskFields
<1>0. Fine(s) /\ s.open \in SUBSET Views
  BY DEF Housed, Shaped
<1>2. Fine(r) /\ \A v \in Views : On(r, v) = On(s, v)
  <2>1. SameInventories(s, r)
    BY <1>1 DEF SameInventories
  <2> QED BY <1>0, <2>1, SameGroups
<1>3. SameWindows(s, r) /\ OutputsTyped(r)
  BY <1>1, <1>2 DEF SameWindows, OutputsTyped, Housed, Shaped
<1>4. Lodged(r, {})
  BY <1>1, <1>2 DEF Housed, Lodged, Listed
<1>5. Housed(r, {}, puts)
  BY <1>3, <1>4, Rehoused
<1>6. CASE powered
  BY <1>5, <1>6, ScheduleHouses
<1>7. CASE ~powered
  <2>1. Enabled(r) \subseteq Enabled(s)
    BY <1>1, <1>7 DEF Enabled, Listed, Housed, Shaped
  <2>2. AtRest(r, {})
    BY <1>0, <1>1, <1>3, <2>1, FewerEnabled
  <2> QED BY <1>5, <1>7, <2>2
<1> QED BY <1>6, <1>7

\* Which outputs are on the desktop is decided anew; those that hold a window
\* and are on it no longer are among the gone.
LEMMA EnablingHouses ==
  ASSUME NEW s, NEW puts, Housed(s, {}, puts), NEW on, NEW gone,
         {o \in Listed(s) : s.desktop[o] /\ o \notin on} \subseteq gone,
         NEW t, t = Enabling(s, on)
  PROVE  Housed(t, gone, puts) /\ Listed(t) = Listed(s)
<1>1. /\ t = [f \in DeskFields |-> t[f]] /\ t.idle = s.idle /\ t.group = s.group /\ t.home = s.home
      /\ t.open = s.open /\ t.chosen = s.chosen /\ t.listed = s.listed
      /\ t.desktop = [o \in Outputs |-> o \in on]
      /\ t.asleep = [o \in Outputs |-> s.asleep[o] /\ s.desktop[o] /\ o \in on]
  BY DEF Enabling, Housed, Shaped, Fine, DeskFields
<1>2. Fine(t) /\ \A v \in Views : On(t, v) = On(s, v)
  <2>1. SameInventories(s, t) /\ Fine(s)
    BY <1>1 DEF SameInventories, Housed, Shaped
  <2> QED BY <2>1, SameGroups
<1>3. t.desktop \in [Outputs -> BOOLEAN] /\ t.asleep \in [Outputs -> BOOLEAN]
  <2>1. \A o \in Outputs : (o \in on) \in BOOLEAN /\ (s.asleep[o] /\ s.desktop[o] /\ o \in on) \in BOOLEAN
    OBVIOUS
  <2>2. t.desktop = [o \in Outputs |-> o \in on] /\ t.asleep = [o \in Outputs |-> s.asleep[o] /\ s.desktop[o] /\ o \in on]
    BY <1>1
  <2> QED BY <2>1, <2>2, Zenon
<1>4. SameWindows(s, t) /\ OutputsTyped(t)
  BY <1>1, <1>2, <1>3 DEF SameWindows, OutputsTyped, Housed, Shaped
<1>5. Listed(t) = Listed(s) /\ Listed(s) \subseteq Outputs
  <2>1. Listed(s) \subseteq Outputs
    BY ListedFacts DEF Housed, Shaped
  <2> QED BY <1>1, <2>1 DEF Listed
<1>6. Lodged(t, gone)
  <2> SUFFICES ASSUME NEW v \in Views, On(t, v) # None
               PROVE  v \in t.open /\ On(t, v) \in Listed(t) /\ (t.desktop[On(t, v)] \/ On(t, v) \in gone)
    BY DEF Lodged
  <2>1. v \in s.open /\ On(s, v) \in Listed(s) /\ s.desktop[On(s, v)]
    BY <1>2 DEF Housed, Lodged
  <2> QED BY <1>1, <1>2, <1>5, <2>1, Zenon
<1> QED BY <1>4, <1>5, <1>6, Rehoused

\* applyOutputs and the output management: the outputs that are gone are
\* evacuated together, and a restore is scheduled.
LEMMA PolicyHouses ==
  ASSUME NEW s, NEW puts, Housed(s, {}, puts), NEW on, NEW gone,
         {o \in Listed(s) : s.desktop[o] /\ o \notin on} \subseteq gone, gone \subseteq Listed(s),
         NEW t, t = Schedule(ReassignAll(Enabling(s, on), gone))
  PROVE  Housed(t, {}, puts) /\ AtRest(t, {})
<1>1. PICK a, b : a = Enabling(s, on) /\ b = ReassignAll(a, gone)
  OBVIOUS
<1>2. Housed(a, gone, puts) /\ Listed(a) = Listed(s)
  BY <1>1, EnablingHouses
<1>3. Housed(b, {}, puts)
  BY <1>1, <1>2, ReassignAllHouses
<1>4. t = Schedule(b)
  BY <1>1
<1> QED BY <1>3, <1>4, ScheduleHouses

\* An output nobody is on is given a new inventory.
LEMMA RenewGroup ==
  ASSUME NEW s, Fine(s), NEW o \in Outputs, \A v \in Views : On(s, v) # o,
         NEW a, a = Regrouped(s, o, FirstGroup)
  PROVE  /\ Fine(a) /\ a.group = [s.group EXCEPT ![o] = FirstGroup]
         /\ \A v \in Views : On(a, v) = On(s, v)
<1>1. Calm(FirstGroup) /\ TakesNone(s, o, FirstGroup)
  BY CalmStart DEF TakesNone
<1>2. Fine(a) /\ OnlyGroups(s, a) /\ a.group[o] = FirstGroup /\ \A p \in Outputs \ {o} : a.group[p] = s.group[p]
  <2>1. PICK g : g = FirstGroup
    OBVIOUS
  <2>2. a = Regrouped(s, o, g) /\ Calm(g) /\ TakesNone(s, o, g)
    BY <1>1, <2>1
  <2> QED BY <2>1, <2>2, Regroup
<1>3. a.group = [s.group EXCEPT ![o] = FirstGroup]
  BY DEF Regrouped, Fine, DeskFields
<1>4. ASSUME NEW v \in Views PROVE On(a, v) = On(s, v)
  <2>1. /\ On(s, v) \in Outputs \cup {None} /\ \A p \in Outputs : On(s, v) = p <=> s.group[p].home[v] # None
    BY OnFacts
  <2>2. s.group[o].home[v] = None /\ a.group[o].home[v] = None
    BY <1>2, <2>1, CalmStart
  <2>3. \A p \in Outputs : a.group[p].home[v] # None <=> s.group[p].home[v] # None
    BY <1>2, <2>2
  <2>4. /\ On(a, v) \in Outputs \cup {None} /\ \A p \in Outputs : On(a, v) = p <=> a.group[p].home[v] # None
    BY <1>2, OnFacts
  <2> QED BY <2>1, <2>3, <2>4, NoneFacts
<1> QED BY <1>2, <1>3, <1>4

\* addOutput: an output is there, with an inventory of its own.
LEMMA AddOutputHouses ==
  ASSUME NEW s, NEW puts, Housed(s, {}, puts), NEW o \in Outputs, o \notin Listed(s), NEW enabled \in BOOLEAN,
         NEW t, t = Schedule([s EXCEPT !.listed = Append(@, o), !.desktop[o] = enabled,
                                       !.asleep[o] = FALSE, !.group[o] = FirstGroup])
  PROVE  Housed(t, {}, puts) /\ AtRest(t, {})
<1> DEFINE r == [s EXCEPT !.listed = Append(@, o), !.desktop[o] = enabled, !.asleep[o] = FALSE,
                          !.group[o] = FirstGroup]
<1>0. Shaped(s) /\ Fine(s) /\ Lodged(s, {})
  BY DEF Housed, Shaped
<1>1. PICK a : a = Regrouped(s, o, FirstGroup)
  OBVIOUS
<1>2. \A v \in Views : On(s, v) # o
  BY <1>0, NoneFacts DEF Lodged
<1>3. Fine(a) /\ a.group = [s.group EXCEPT ![o] = FirstGroup] /\ \A v \in Views : On(a, v) = On(s, v)
  BY <1>0, <1>1, <1>2, RenewGroup
<1>4. \A v \in Views : On(a, v) = On(s, v)
  BY <1>3
<1>5. /\ r = [f \in DeskFields |-> r[f]] /\ r.idle = s.idle /\ r.group = a.group /\ r.home = s.home
      /\ r.open = s.open /\ r.chosen = s.chosen /\ r.listed = Append(s.listed, o)
      /\ r.desktop = [s.desktop EXCEPT ![o] = enabled] /\ r.asleep = [s.asleep EXCEPT ![o] = FALSE]
  BY <1>0, <1>3 DEF Fine, DeskFields
<1>6. t = Schedule(r)
  OBVIOUS
<1> HIDE DEF r
<1>7. SameInventories(a, r)
  BY <1>5 DEF SameInventories
<1>8. Fine(r) /\ \A v \in Views : On(r, v) = On(s, v)
  BY <1>3, <1>4, <1>7, SameGroups
<1>9. r.listed \in Seq(Outputs) /\ IsInjective(r.listed) /\ Listed(s) \subseteq Listed(r)
  <2>1. PICK q, l : q = s.listed /\ l = r.listed
    OBVIOUS
  <2>2. q \in Seq(Outputs) /\ \A i, j \in DOMAIN q : q[i] = q[j] => i = j
    BY <1>0, <2>1 DEF Shaped, IsInjective
  <2>3. l = Append(q, o)
    BY <1>5, <2>1
  <2>4. /\ l \in Seq(Outputs) /\ Len(q) \in Nat /\ DOMAIN q = 1 .. Len(q) /\ DOMAIN l = 1 .. (Len(q) + 1)
        /\ l[Len(q) + 1] = o /\ \A i \in 1 .. Len(q) : l[i] = q[i]
    BY <2>2, <2>3
  <2>5. \A i \in DOMAIN q : q[i] # o
    BY <2>1 DEF Listed
  <2>6. \A i, j \in DOMAIN l : l[i] = l[j] => i = j
    BY <2>2, <2>4, <2>5
  <2>7. \A i \in DOMAIN q : i \in DOMAIN l /\ l[i] = q[i]
    BY <2>4
  <2> QED BY <2>1, <2>4, <2>6, <2>7 DEF IsInjective, Listed
<1>10. SameWindows(s, r) /\ OutputsTyped(r)
  BY <1>0, <1>5, <1>8, <1>9 DEF SameWindows, OutputsTyped, Shaped
<1>11. Lodged(r, {})
  <2> SUFFICES ASSUME NEW v \in Views, On(r, v) # None
               PROVE  v \in r.open /\ On(r, v) \in Listed(r) /\ r.desktop[On(r, v)]
    BY DEF Lodged
  <2>1. v \in s.open /\ On(s, v) \in Listed(s) /\ s.desktop[On(s, v)] /\ On(r, v) = On(s, v)
    BY <1>0, <1>8 DEF Lodged
  <2>2. On(s, v) \in Outputs /\ On(s, v) # o
    BY <1>0, <2>1, ListedFacts DEF Shaped
  <2> QED BY <1>0, <1>5, <1>9, <2>1, <2>2 DEF Shaped
<1>12. Housed(r, {}, puts)
  BY <1>10, <1>11, Rehoused
<1> QED BY <1>6, <1>12, ScheduleHouses

\* m_outputs loses the output, and it would start anew.
Removal(e, o) ==
  [e EXCEPT !.listed = RemoveFirst(@, o), !.desktop[o] = FALSE, !.asleep[o] = FALSE,
            !.group[o] = FirstGroup]

\* removeOutput: its windows have left before it goes, whoever is at home stays
\* there, and whoever can be shown is.
LEMMA RemoveOutputHouses ==
  ASSUME NEW s, NEW puts, Housed(s, {}, puts), AtRest(s, {}), NEW o \in Listed(s),
         NEW e, e = Evacuate(s, o),
         NEW t, t = Removal(e, o)
  PROVE  Housed(t, {}, puts) /\ AtRest(t, {})
<1>1. Evacuated(s, e, o) /\ Housed(e, {} \ {o}, puts) /\ SameOutputs(s, e)
  BY EvacuateHouses
<1>2. o \in Outputs /\ o # None /\ Listed(e) = Listed(s) /\ Enabled(e) = Enabled(s)
  <2>1. o \in Outputs /\ o # None
    BY ListedFacts DEF Housed, Shaped
  <2> QED BY <1>1, <2>1 DEF SameOutputs, Listed, Enabled
<1>3. Housed(e, {}, puts) /\ Shaped(e) /\ Fine(e) /\ Lodged(e, {})
  <2>1. {} \ {o} = {}
    OBVIOUS
  <2>2. Housed(e, {}, puts)
    BY <1>1, <2>1, Zenon
  <2> QED BY <2>2 DEF Housed, Shaped
<1>4. \A v \in Views : On(e, v) # o
  BY <1>1, <1>2 DEF Evacuated
<1>5. PICK a : a = Regrouped(e, o, FirstGroup)
  OBVIOUS
<1>6. Fine(a) /\ a.group = [e.group EXCEPT ![o] = FirstGroup] /\ \A v \in Views : On(a, v) = On(e, v)
  BY <1>2, <1>3, <1>4, <1>5, RenewGroup
<1>7. /\ t = [f \in DeskFields |-> t[f]] /\ t.idle = e.idle /\ t.group = a.group /\ t.home = e.home
      /\ t.open = e.open /\ t.chosen = e.chosen /\ t.listed = RemoveFirst(e.listed, o)
      /\ t.desktop = [e.desktop EXCEPT ![o] = FALSE] /\ t.asleep = [e.asleep EXCEPT ![o] = FALSE]
  BY <1>3, <1>6 DEF Fine, DeskFields, Removal
<1>8. SameInventories(a, t)
  BY <1>7 DEF SameInventories
<1>9. Fine(t) /\ \A v \in Views : On(t, v) = On(e, v)
  BY <1>6, <1>8, SameGroups
<1>10. t.listed \in Seq(Outputs) /\ IsInjective(t.listed) /\ Listed(t) = Listed(e) \ {o}
  <2>1. PICK q, r : q = e.listed /\ r = t.listed
    OBVIOUS
  <2>2. q \in Seq(Outputs) /\ IsInjective(q) /\ r = RemoveFirst(q, o)
    BY <1>3, <1>7, <2>1 DEF Shaped
  <2>3. r \in Seq(Outputs) /\ IsInjective(r) /\ ToSet(r) = ToSet(q) \ {o}
    BY <2>2, RemoveFirstOnce
  <2>4. Listed(t) = ToSet(r) /\ Listed(e) = ToSet(q)
    BY <2>1 DEF Listed, ToSet
  <2> QED BY <2>1, <2>3, <2>4
<1>11. SameWindows(e, t) /\ OutputsTyped(t)
  <2>1. t.desktop \in [Outputs -> BOOLEAN] /\ t.asleep \in [Outputs -> BOOLEAN] /\ t.idle \in BOOLEAN
    <3>1. /\ e.desktop \in [Outputs -> BOOLEAN] /\ e.asleep \in [Outputs -> BOOLEAN] /\ e.idle \in BOOLEAN
      BY <1>3 DEF Shaped
    <3>2. /\ t.desktop = [e.desktop EXCEPT ![o] = FALSE] /\ t.asleep = [e.asleep EXCEPT ![o] = FALSE]
          /\ t.idle = e.idle
      BY <1>7
    <3>3. PICK x \in [Outputs -> BOOLEAN], y \in [Outputs -> BOOLEAN] : x = e.desktop /\ y = e.asleep
      BY <3>1
    <3>4. t.desktop = [x EXCEPT ![o] = FALSE] /\ t.asleep = [y EXCEPT ![o] = FALSE]
      BY <3>2, <3>3
    <3>5. [x EXCEPT ![o] = FALSE] \in [Outputs -> BOOLEAN] /\ [y EXCEPT ![o] = FALSE] \in [Outputs -> BOOLEAN]
      OBVIOUS
    <3> QED BY <3>1, <3>2, <3>4, <3>5
  <2>2. OutputsTyped(t)
    BY <1>10, <2>1 DEF OutputsTyped
  <2>3. SameWindows(e, t)
    BY <1>7, <1>9 DEF SameWindows
  <2> QED BY <2>2, <2>3
<1>12. Lodged(t, {})
  <2> SUFFICES ASSUME NEW v \in Views, On(t, v) # None
               PROVE  v \in t.open /\ On(t, v) \in Listed(t) /\ t.desktop[On(t, v)]
    BY DEF Lodged
  <2>1. v \in e.open /\ On(e, v) \in Listed(e) /\ e.desktop[On(e, v)] /\ On(t, v) = On(e, v) /\ On(e, v) # o
    BY <1>3, <1>4, <1>9 DEF Lodged
  <2>2. On(e, v) \in Outputs
    BY <1>3, <2>1, ListedFacts DEF Shaped
  <2> QED BY <1>3, <1>7, <1>10, <2>1, <2>2 DEF Shaped
<1>13. Housed(t, {}, puts)
  BY <1>3, <1>11, <1>12, Rehoused
<1>14. Enabled(t) \subseteq Enabled(s) \ {o}
  <2>1. \A p \in Listed(e) \ {o} : t.desktop[p] = e.desktop[p] /\ t.asleep[p] = e.asleep[p]
    <3>1. Listed(e) \subseteq Outputs
      BY <1>3, ListedFacts DEF Shaped
    <3> QED BY <1>3, <1>7, <3>1 DEF Shaped
  <2> QED BY <1>2, <1>10, <2>1 DEF Enabled
<1>15. AtRest(t, {})
  <2> SUFFICES ASSUME ~t.idle
               PROVE  /\ \A v \in Views : t.home[v] # None /\ t.home[v].output \in Enabled(t) =>
                                            On(t, v) = t.home[v].output
                      /\ Enabled(t) # {} => Orphans(t) = {}
    BY DEF AtRest
  <2>1. /\ \A v \in Views : s.home[v] # None /\ s.home[v].output \in Enabled(s) => On(s, v) = s.home[v].output
        /\ Enabled(s) # {} => Orphans(s) = {}
    BY <1>1, <1>7 DEF AtRest, SameOutputs
  <2>2. ASSUME NEW v \in Views, t.home[v] # None, t.home[v].output \in Enabled(t)
        PROVE  On(t, v) = t.home[v].output
    <3>1. e.home[v] # None /\ e.home[v].output \in Enabled(s) \ {o} /\ On(t, v) = On(e, v)
      BY <1>7, <1>9, <1>14, <2>2
    <3>2. On(s, v) = e.home[v].output
      <4>1. CASE s.home[v] # None
        BY <1>1, <2>1, <3>1, <4>1 DEF Evacuated
      <4>2. CASE s.home[v] = None
        BY <1>1, <3>1, <4>2 DEF Evacuated
      <4> QED BY <4>1, <4>2
    <3>3. On(e, v) = On(s, v)
      BY <1>1, <3>1, <3>2 DEF Evacuated
    <3> QED BY <1>7, <3>1, <3>2, <3>3
  <2>3. ASSUME Enabled(t) # {}, NEW v \in Orphans(t) PROVE FALSE
    <3>1. v \in s.open /\ v \in Views /\ On(e, v) = None
      <4>1. v \in e.open /\ e.open \in SUBSET Views
        BY <1>3, <1>7, <2>3 DEF Orphans, Shaped
      <4> QED BY <1>1, <1>9, <2>3, <4>1 DEF Orphans, SameOutputs
    <3>2. On(s, v) # None /\ Enabled(s) \ {o} # {}
      BY <1>14, <2>1, <2>3, <3>1 DEF Orphans
    <3>3. CASE On(s, v) = o
      <4>1. On(e, v) \in Enabled(s)
        BY <1>1, <3>1, <3>2, <3>3 DEF Evacuated
      <4> QED BY <3>1, <4>1, ListedFacts DEF Enabled, Housed, Shaped
    <3>4. CASE On(s, v) # o
      BY <1>1, <3>1, <3>2, <3>4 DEF Evacuated
    <3> QED BY <3>3, <3>4
  <2> QED BY <2>2, <2>3
<1> QED BY <1>13, <1>15
=============================================================================
