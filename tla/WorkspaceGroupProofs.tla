------------------------ MODULE WorkspaceGroupProofs ------------------------
(* Proofs about WorkspaceGroup.                                            *)
(*                                                                         *)
(* First what the handlers need of each other: Sound says it of one group  *)
(* record, there is a lemma for each operator from groups to groups, and   *)
(* then every action is a composition of them.  Then what each phase of a  *)
(* reconciliation keeps of the contents.  Last what the handlers keep: one *)
(* edits who lives where, moves the selection, the slide or the hold       *)
(* (Moves), and reconciles or not; Follows says what such a sequence       *)
(* keeps.                                                                  *)
EXTENDS WorkspaceGroup, TLAPS, FiniteSetTheorems

\* Typed, without a stale pointer, and with a hold that is current.
Sound(g) == WellTyped(g) /\ PointsAtLive(g) /\ Current(g)

\* The fields that say which workspaces there are and who lives on them.
Inventory == {"index", "label", "home", "launch", "serial"}
\* The boolean fields.
Flags == {"dynamic", "pending", "gesture", "wild"}

\* Selections, slides and holds change no workspace: a group that differs
\* from a sound one only there is sound, if what is new in it points at live
\* workspaces and no slide runs under a hold (m_active, m_slide, m_inventoryOrder).
LEMMA SameInventory ==
  ASSUME NEW g, Sound(g), NEW h,
         h = [f \in Fields |-> h[f]],
         \A f \in Inventory : h[f] = g[f],
         \A f \in Flags : h[f] \in BOOLEAN,
         h.active \in OptionalOf(Live(g)), h.previous \in OptionalOf(Live(g)),
         \/ h.slide = g.slide
         \/ h.slide = NoSlide
         \/ /\ h.slide \in [base : Live(g), previous : OptionalOf(Live(g)),
                            next : OptionalOf(Live(g)), settling : BOOLEAN]
            /\ h.hold = NoHold,
         \/ h.hold = g.hold
         \/ h.hold = NoHold
         \/ /\ h.hold \in [owner : {"pair", "set"}, order : {g.index},
                           target : OptionalOf(Live(g)),
                           phase : {"interactive", "preparing", "ending", "shown"}]
            /\ h.slide = NoSlide
  PROVE  Sound(h) /\ Live(h) = Live(g)
<1>1. Live(h) = Live(g) /\ h.index = g.index /\ h.label = g.label
                        /\ h.home = g.home /\ h.launch = g.launch /\ h.serial = g.serial
  BY DEF Live, Inventory
<1>2. Live(g) \subseteq Nat /\ None \notin Nat
  BY ConstantAssumption DEF Sound, WellTyped
<1>3. h.slide \in [base : OptionalOf(Nat), previous : OptionalOf(Nat),
                   next : OptionalOf(Nat), settling : BOOLEAN]
      /\ (SlideActive(h) \/ h.slide = NoSlide)
  <2>1. CASE h.slide = g.slide
    BY <2>1 DEF Sound, WellTyped, SlideActive
  <2>2. CASE h.slide = NoSlide
    <3>1. NoSlide \in [base : OptionalOf(Nat), previous : OptionalOf(Nat),
                       next : OptionalOf(Nat), settling : BOOLEAN]
      <4>1. None \in OptionalOf(Nat) /\ FALSE \in BOOLEAN
        BY DEF OptionalOf
      <4> QED BY <4>1 DEF NoSlide
    <3> QED BY <2>2, <3>1
  <2>3. CASE h.slide \in [base : Live(g), previous : OptionalOf(Live(g)),
                          next : OptionalOf(Live(g)), settling : BOOLEAN]
    <3>1. h.slide.base # None
      BY <1>2, <2>3
    <3>2. OptionalOf(Live(g)) \subseteq OptionalOf(Nat) /\ Live(g) \subseteq OptionalOf(Nat)
      BY <1>2 DEF OptionalOf
    <3>3. h.slide \in [base : OptionalOf(Nat), previous : OptionalOf(Nat),
                       next : OptionalOf(Nat), settling : BOOLEAN]
      BY <2>3, <3>2
    <3> QED BY <3>1, <3>3 DEF SlideActive
  <2> QED BY <2>1, <2>2, <2>3
<1>4. /\ h.hold = [f \in {"owner", "order", "target", "phase"} |-> h.hold[f]]
      /\ h.hold.owner \in {None, "pair", "set"}
      /\ h.hold.target \in OptionalOf(Nat)
      /\ h.hold.phase \in {None, "interactive", "preparing", "ending", "shown"}
  BY <1>2 DEF Sound, WellTyped, NoHold, OptionalOf
<1>5. h.active \in OptionalOf(Nat) /\ h.previous \in OptionalOf(Nat)
  BY <1>2 DEF OptionalOf
<1>6. WellTyped(h)
  BY <1>1, <1>3, <1>4, <1>5 DEF Sound, WellTyped, Flags
<1>7. PointsAtLive(h)
  BY <1>1 DEF Sound, PointsAtLive, NoSlide, OptionalOf
<1>8. Current(h)
  BY <1>1 DEF Sound, Current, NoSlide, NoHold, SlideActive
<1> QED BY <1>1, <1>6, <1>7, <1>8 DEF Sound

\* What a workspace may be called.
Labels == Names \cup {Anonymous}

\* With no hold, an inventory that keeps every workspace stays sound, whatever
\* positions, labels and new workspaces it gets (m_workspaces, m_index).
LEMMA Grown ==
  ASSUME NEW g, Sound(g), g.hold = NoHold, NEW h,
         h = [f \in Fields |-> h[f]],
         \A f \in Fields \ {"index", "label", "serial"} : h[f] = g[f],
         Live(g) \subseteq Live(h),
         h.serial \in Nat, Live(h) \subseteq 0 .. (h.serial - 1),
         h.index \in [Live(h) -> Nat], h.label \in [Live(h) -> Labels]
  PROVE  Sound(h)
<1>1. WellTyped(h)
  BY DEF Sound, WellTyped, Fields, SlideActive, Labels
<1>2. PointsAtLive(h)
  BY DEF Sound, PointsAtLive, Fields, OptionalOf
<1>3. Current(h)
  BY DEF Current, Fields
<1> QED BY <1>1, <1>2, <1>3 DEF Sound

\* Names come and go without touching anything that points at a workspace
\* (Workspace::m_name in reconcileDynamicNames).
LEMMA Relabelled ==
  ASSUME NEW g, Sound(g), g.hold = NoHold, NEW label \in [Live(g) -> Labels]
  PROVE  /\ Sound([g EXCEPT !.label = label])
         /\ [g EXCEPT !.label = label].hold = NoHold
         /\ [g EXCEPT !.label = label].slide = g.slide
<1> DEFINE h == [g EXCEPT !.label = label]
<1>1. /\ h = [f \in Fields |-> h[f]]
      /\ \A f \in Fields \ {"label"} : h[f] = g[f]
      /\ h.label = label
  BY DEF Sound, WellTyped, Fields
<1> HIDE DEF h
<1>2. Live(h) = Live(g)
  BY <1>1 DEF Live, Fields
<1>3. Sound(h)
  <2>1. /\ h.serial \in Nat /\ Live(h) \subseteq 0 .. (h.serial - 1)
        /\ h.index \in [Live(h) -> Nat] /\ h.label \in [Live(h) -> Labels]
    BY <1>1, <1>2 DEF Sound, WellTyped, Fields
  <2> QED BY <1>1, <1>2, <2>1, Grown
<1>4. h.hold = NoHold /\ h.slide = g.slide
  BY <1>1 DEF Fields
<1> QED BY <1>3, <1>4 DEF h

\* An inventory is finite: its ids are below the next serial number
\* (m_nextWorkspaceId).
LEMMA SizeIsNat ==
  ASSUME NEW g, Sound(g)
  PROVE  IsFiniteSet(Live(g)) /\ Size(g) \in Nat
<1>1. IsFiniteSet(0 .. (g.serial - 1))
  <2>1. 0 \in Int /\ g.serial - 1 \in Int
    BY DEF Sound, WellTyped
  <2> QED BY <2>1, FS_Interval
<1>2. IsFiniteSet(Live(g))
  BY <1>1, FS_Subset DEF Sound, WellTyped
<1> QED BY <1>2, FS_CardinalityType DEF Size

\* Inserting empty workspaces anywhere keeps every pointer good and adds
\* exactly the fresh ids (appendDynamicWorkspace, prependDynamicWorkspace,
\* insertDynamicWorkspace).
LEMMA InsertAtSound ==
  ASSUME NEW g, Sound(g), g.hold = NoHold, NEW i \in Nat, NEW n \in Nat
  PROVE  /\ Sound(InsertAt(g, i, n))
         /\ InsertAt(g, i, n).hold = NoHold
         /\ InsertAt(g, i, n).slide = g.slide
         /\ Live(InsertAt(g, i, n)) = Live(g) \cup Fresh(g, n)
<1> DEFINE h == InsertAt(g, i, n)
<1>1. /\ h = [f \in Fields |-> h[f]]
      /\ \A f \in Fields \ {"index", "label", "serial"} : h[f] = g[f]
      /\ h.serial = g.serial + n
      /\ h.index = [w \in Live(g) \cup Fresh(g, n) |->
                      IF w \in Live(g)
                      THEN IF g.index[w] >= i THEN g.index[w] + n ELSE g.index[w]
                      ELSE i + (w - g.serial)]
      /\ h.label = [w \in Live(g) \cup Fresh(g, n) |->
                      IF w \in Live(g) THEN g.label[w] ELSE Anonymous]
  BY DEF Sound, WellTyped, Fields, InsertAt
<1> HIDE DEF h
<1>2. Live(h) = Live(g) \cup Fresh(g, n)
  BY <1>1 DEF Live
<1>3. g.serial \in Nat /\ Live(g) \subseteq 0 .. (g.serial - 1)
      /\ g.index \in [Live(g) -> Nat] /\ g.label \in [Live(g) -> Labels]
  BY DEF Sound, WellTyped, Labels
<1>4. h.serial \in Nat /\ Live(h) \subseteq 0 .. (h.serial - 1)
  BY <1>1, <1>2, <1>3 DEF Fresh
<1>5. h.index \in [Live(h) -> Nat]
  <2> SUFFICES ASSUME NEW w \in Live(g) \cup Fresh(g, n) PROVE h.index[w] \in Nat
    BY <1>1, <1>2
  <2>1. CASE w \in Live(g)
    BY <2>1, <1>1, <1>3
  <2>2. CASE w \in Fresh(g, n) \ Live(g)
    BY <2>2, <1>1, <1>3 DEF Fresh
  <2> QED BY <2>1, <2>2
<1>6. h.label \in [Live(h) -> Labels]
  BY <1>1, <1>2, <1>3 DEF Labels
<1>7. Sound(h)
  BY <1>1, <1>2, <1>4, <1>5, <1>6, Grown
<1> QED BY <1>1, <1>2, <1>7 DEF h, Fields

\* What a resolved configuration gives the inventory: names, labels, a floor
\* (resolveWorkspacesForOutput).
LEMMA ConfigTyped ==
  ASSUME NEW c \in Configs
  PROVE  /\ c.minimum \in Nat
         /\ Desired(c) \in Seq(Names)
         /\ c.fixed \in Seq(Labels)
         /\ ~c.dynamic => Len(c.fixed) >= 1
<1>1. c \in ConfigType
  BY ConstantAssumption
<1>2. c.names \in Seq(Names) /\ c.fixed \in Seq(Labels) /\ c.emptyAbove \in BOOLEAN
  BY <1>1 DEF ConfigType, Labels
<1>3. c.minimum \in Nat /\ (~c.dynamic => Len(c.fixed) >= 1)
  BY ConstantAssumption
<1>4. Desired(c) \in Seq(Names)
  <2> DEFINE m == Least(Len(c.names), MaxWorkspaces - (IF c.emptyAbove THEN 2 ELSE 1))
  <2>1. m \in 0 .. Len(c.names)
    BY <1>2, ConstantAssumption DEF Least
  <2>2. SubSeq(c.names, 1, m) \in Seq(Names)
    BY <2>1, <1>2
  <2> QED BY <2>2 DEF Desired
<1> QED BY <1>2, <1>3, <1>4

\* Dropping the names that are not declared keeps the inventory sound
\* (reconcileDynamicNames, first loop).
LEMMA DropUnwantedNamesSound ==
  ASSUME NEW g, Sound(g), g.hold = NoHold, g.slide = NoSlide, NEW c \in Configs
  PROVE  /\ Sound(DropUnwantedNames(g, c))
         /\ DropUnwantedNames(g, c).hold = NoHold
         /\ DropUnwantedNames(g, c).slide = NoSlide
<1> DEFINE wanted == {Desired(c)[i] : i \in DOMAIN Desired(c)}
           first(w) == \A x \in Live(g) : g.label[x] = g.label[w] => g.index[w] <= g.index[x]
           label == [w \in Live(g) |->
                       IF g.label[w] \in wanted /\ first(w) THEN g.label[w] ELSE Anonymous]
<1>1. label \in [Live(g) -> Labels]
  <2>1. \A w \in Live(g) : g.label[w] \in Labels
    BY DEF Sound, WellTyped, Labels
  <2>2. Anonymous \in Labels
    BY DEF Labels
  <2> HIDE DEF wanted, first
  <2> QED BY <2>1, <2>2
<1>2. DropUnwantedNames(g, c) = [g EXCEPT !.label = label]
  BY DEF DropUnwantedNames
<1> HIDE DEF label
<1> QED BY <1>1, <1>2, Relabelled

\* A name that claims an empty workspace keeps the inventory sound
\* (reconcileDynamicNames at the limit).
LEMMA ClaimForNamesSound ==
  ASSUME NEW g, Sound(g), g.hold = NoHold, g.slide = NoSlide, NEW c \in Configs
  PROVE  /\ Sound(ClaimForNames(g, c))
         /\ ClaimForNames(g, c).hold = NoHold
         /\ ClaimForNames(g, c).slide = NoSlide
<1> DEFINE spare == {w \in Live(g) : /\ Empty(g, w) /\ ~Reserved(g, w)
                                     /\ ~(c.emptyAbove /\ IsFirst(g, w))
                                     /\ ~IsLast(g, w)}
           rank(w) == Cardinality({x \in spare : g.index[x] < g.index[w]})
           claims(w) == {i \in Missing(g, c) : w \in spare /\ Turn(g, c, i) = rank(w)}
           label == [w \in Live(g) |->
                       IF claims(w) # {} THEN Desired(c)[CHOOSE i \in claims(w) : TRUE]
                       ELSE g.label[w]]
<1>1. label \in [Live(g) -> Labels]
  <2>1. \A w \in Live(g) : g.label[w] \in Labels
    BY DEF Sound, WellTyped, Labels
  <2>2. \A w \in Live(g) : claims(w) \subseteq DOMAIN Desired(c)
    BY DEF Missing
  <2>3. \A i \in DOMAIN Desired(c) : Desired(c)[i] \in Labels
    BY ConfigTyped DEF Labels
  <2> HIDE DEF claims
  <2> QED BY <2>1, <2>2, <2>3
<1>2. ClaimForNames(g, c) = [g EXCEPT !.label = label]
  BY DEF ClaimForNames
<1> HIDE DEF label
<1> QED BY <1>1, <1>2, Relabelled

\* New named workspaces below the leading sentinel keep the inventory sound
\* (reconcileDynamicNames, the insertions).
LEMMA InsertNamesSound ==
  ASSUME NEW g, Sound(g), g.hold = NoHold, g.slide = NoSlide, NEW c \in Configs
  PROVE  /\ Sound(InsertNames(g, c))
         /\ InsertNames(g, c).hold = NoHold
         /\ InsertNames(g, c).slide = NoSlide
<1> DEFINE h == InsertNames(g, c)
           leading == c.emptyAbove /\ \E w \in Live(g) : IsFirst(g, w) /\ Empty(g, w)
           top == IF leading THEN 1 ELSE 0
           many == Cardinality(Served(g, c))
           new == {g.serial + i : i \in Served(g, c)}
           above(i) == Cardinality({j \in Served(g, c) : j < i})
<1>1. /\ h = [f \in Fields |-> h[f]]
      /\ \A f \in Fields \ {"index", "label", "serial"} : h[f] = g[f]
      /\ h.serial = g.serial + Len(Desired(c)) + 1
      /\ h.index = [w \in Live(g) \cup new |->
                      IF w \in new THEN top + above(w - g.serial)
                      ELSE IF g.index[w] >= top THEN g.index[w] + many ELSE g.index[w]]
      /\ h.label = [w \in Live(g) \cup new |->
                      IF w \in new THEN Desired(c)[w - g.serial] ELSE g.label[w]]
  BY DEF Sound, WellTyped, Fields, InsertNames
<1>2. Served(g, c) \subseteq 1 .. Len(Desired(c))
  BY ConfigTyped DEF Served, Missing
<1>3. /\ top \in Nat /\ many \in Nat
      /\ \A i : above(i) \in Nat
  <2>1. IsFiniteSet(1 .. Len(Desired(c)))
    <3>1. 1 \in Int /\ Len(Desired(c)) \in Int
      BY ConfigTyped
    <3> QED BY <3>1, FS_Interval
  <2>2. IsFiniteSet(Served(g, c))
    BY <2>1, <1>2, FS_Subset
  <2>3. many \in Nat
    BY <2>2, FS_CardinalityType
  <2>4. ASSUME NEW i PROVE above(i) \in Nat
    <3>1. IsFiniteSet({j \in Served(g, c) : j < i})
      BY <2>2, FS_Subset
    <3> QED BY <3>1, FS_CardinalityType
  <2> QED BY <2>3, <2>4
<1>4. /\ g.serial \in Nat /\ Live(g) \subseteq 0 .. (g.serial - 1)
      /\ g.index \in [Live(g) -> Nat] /\ g.label \in [Live(g) -> Labels]
      /\ Len(Desired(c)) \in Nat
  BY ConfigTyped DEF Sound, WellTyped, Labels
<1>5. \A w \in new : w - g.serial \in Served(g, c)
  BY <1>2, <1>4
<1>6. new \subseteq 0 .. (g.serial + Len(Desired(c)))
  BY <1>2, <1>4
<1>7. \A i \in Served(g, c) : Desired(c)[i] \in Labels
  BY <1>2, ConfigTyped DEF Labels
<1> HIDE DEF h, top, many, new, above
<1>8. Live(h) = Live(g) \cup new
  BY <1>1 DEF Live
<1>9. h.serial \in Nat /\ Live(h) \subseteq 0 .. (h.serial - 1)
  <2> DEFINE n == Len(Desired(c))
  <2>1. h.serial = g.serial + n + 1 /\ n \in Nat /\ g.serial \in Nat
    BY <1>1, <1>4
  <2>2. Live(h) \subseteq 0 .. (g.serial + n)
    <3>1. Live(g) \subseteq 0 .. (g.serial + n)
      BY <1>4
    <3> QED BY <1>6, <1>8, <3>1
  <2> HIDE DEF n
  <2> QED BY <2>1, <2>2
<1>10. h.index \in [Live(h) -> Nat]
  <2> SUFFICES ASSUME NEW w \in Live(g) \cup new PROVE h.index[w] \in Nat
    BY <1>1, <1>8
  <2>1. CASE w \in new
    BY <2>1, <1>1, <1>3
  <2>2. CASE w \in Live(g) \ new
    <3>1. g.index[w] \in Nat
      BY <2>2, <1>4
    <3>2. h.index[w] = IF g.index[w] >= top THEN g.index[w] + many ELSE g.index[w]
      BY <2>2, <1>1
    <3> QED BY <3>1, <3>2, <1>3
  <2> QED BY <2>1, <2>2
<1>11. h.label \in [Live(h) -> Labels]
  BY <1>1, <1>4, <1>5, <1>7, <1>8
<1>12. Sound(h)
  BY <1>1, <1>8, <1>9, <1>10, <1>11, Grown
<1> QED BY <1>1, <1>12 DEF h, Fields

\* The whole of reconcileDynamicNames keeps the inventory sound.
LEMMA ReconcileNamesSound ==
  ASSUME NEW g, Sound(g), g.hold = NoHold, g.slide = NoSlide, NEW c \in Configs
  PROVE  /\ Sound(ReconcileNames(g, c))
         /\ ReconcileNames(g, c).hold = NoHold
         /\ ReconcileNames(g, c).slide = NoSlide
<1> DEFINE g1 == DropUnwantedNames(g, c)
           g2 == InsertNames(g1, c)
<1>1. Sound(g1) /\ g1.hold = NoHold /\ g1.slide = NoSlide
  BY DropUnwantedNamesSound
<1> HIDE DEF g1
<1>2. Sound(g2) /\ g2.hold = NoHold /\ g2.slide = NoSlide
  BY <1>1, InsertNamesSound
<1> HIDE DEF g2
<1>3. ReconcileNames(g, c) = ClaimForNames(g2, c)
  BY DEF ReconcileNames, g1, g2
<1> QED BY <1>2, <1>3, ClaimForNamesSound

\* Erasing empty workspaces that are neither active nor reserved leaves no
\* pointer to them (the erase loop of reconcileDynamic, ~Workspace).
LEMMA EraseSound ==
  ASSUME NEW g, Sound(g), g.hold = NoHold, g.slide = NoSlide, NEW dropped,
         \A w \in dropped : ~Occupied(g, w) /\ ~Reserved(g, w) /\ w # g.active,
         dropped \subseteq Live(g)
  PROVE  /\ Sound(Erase(g, dropped))
         /\ Erase(g, dropped).hold = NoHold
         /\ Erase(g, dropped).slide = NoSlide
<1> DEFINE h == Erase(g, dropped)
           kept == Live(g) \ dropped
           below(w) == Cardinality({x \in kept : g.index[x] < g.index[w]})
<1>1. /\ h = [f \in Fields |-> h[f]]
      /\ \A f \in Fields \ {"index", "label", "previous", "launch"} : h[f] = g[f]
      /\ h.index = [w \in kept |-> below(w)]
      /\ h.label = [w \in kept |-> g.label[w]]
      /\ h.previous = IF g.previous \in dropped THEN None ELSE g.previous
      /\ h.launch = [l \in Launches |->
                      IF g.launch[l] \in dropped THEN None ELSE g.launch[l]]
  BY DEF Sound, WellTyped, Fields, Erase
<1> HIDE DEF h
<1>2. Live(h) = kept
  BY <1>1 DEF Live
<1>3. \A w \in kept : below(w) \in Nat
  <2> SUFFICES ASSUME NEW w \in kept PROVE below(w) \in Nat
    OBVIOUS
  <2>1. IsFiniteSet({x \in kept : g.index[x] < g.index[w]})
    BY SizeIsNat, FS_Subset
  <2> QED BY <2>1, FS_CardinalityType
<1> HIDE DEF below
<1>4. h.index \in [kept -> Nat]
  BY SMTT(30), <1>1, <1>3
<1>5. h.label \in [kept -> Names \cup {Anonymous}]
  BY <1>1 DEF Sound, WellTyped
<1>6. h.launch \in [Launches -> OptionalOf(Nat)]
      /\ \A l \in Launches : h.launch[l] \in OptionalOf(kept)
  <2>1. \A l \in Launches : /\ g.launch[l] \in OptionalOf(Nat)
                            /\ g.launch[l] \in OptionalOf(Live(g))
    BY DEF Sound, WellTyped, PointsAtLive
  <2>2. \A l \in Launches : /\ h.launch[l] \in OptionalOf(Nat)
                            /\ h.launch[l] \in OptionalOf(kept)
    BY <1>1, <2>1 DEF OptionalOf
  <2> QED BY <1>1, <2>2
<1>7. h.previous \in OptionalOf(Nat) /\ h.previous \in OptionalOf(kept)
  BY <1>1 DEF Sound, WellTyped, PointsAtLive, OptionalOf
<1>8. /\ h.active = g.active /\ h.home = g.home /\ h.slide = NoSlide /\ h.hold = NoHold
      /\ h.serial = g.serial
  BY <1>1 DEF Fields
<1>9. WellTyped(h)
  BY <1>1, <1>2, <1>4, <1>5, <1>6, <1>7, <1>8 DEF Sound, WellTyped, Fields, SlideActive
<1>10. PointsAtLive(h)
  BY <1>2, <1>6, <1>7, <1>8 DEF Sound, PointsAtLive, OptionalOf, NoSlide, Occupied
<1>11. Current(h)
  BY <1>8 DEF Current
<1> QED BY <1>8, <1>9, <1>10, <1>11 DEF Sound, h

\* What a reconciliation erases is live, empty, unreserved and not active
\* (the predicates of reconcileDynamic).
LEMMA PrunedIsUnused ==
  ASSUME NEW g, NEW c
  PROVE  /\ Pruned(g, c) \subseteq Live(g)
         /\ \A w \in Pruned(g, c) : ~Occupied(g, w) /\ ~Reserved(g, w) /\ w # g.active
BY DEF Pruned, Prunable, ActiveKeeper, Empty

\* Forgetting a previous workspace that became the active one is harmless
\* (refreshWorkspaceMetadata).
LEMMA ForgetRevisitSound ==
  ASSUME NEW g, Sound(g)
  PROVE  Sound(ForgetRevisit(g)) /\ Live(ForgetRevisit(g)) = Live(g)
         /\ ForgetRevisit(g).hold = g.hold
<1> DEFINE h == ForgetRevisit(g)
<1>1. /\ h = [f \in Fields |-> h[f]]
      /\ \A f \in Fields \ {"previous"} : h[f] = g[f]
      /\ h.previous \in {g.previous, None}
  BY DEF Sound, WellTyped, Fields, ForgetRevisit
<1> HIDE DEF h
<1>2. h.previous \in OptionalOf(Live(g)) /\ h.active \in OptionalOf(Live(g))
  BY <1>1 DEF Sound, PointsAtLive, OptionalOf, Fields
<1>3. \A f \in Flags : h[f] \in BOOLEAN
  BY <1>1 DEF Sound, WellTyped, Fields, Flags
<1>4. (\A f \in Inventory : h[f] = g[f]) /\ h.slide = g.slide /\ h.hold = g.hold
  BY <1>1 DEF Inventory, Fields
<1> QED BY <1>1, <1>2, <1>3, <1>4, SameInventory DEF h

\* The body of reconcileDynamic, with no hold and no slide, leaves every
\* pointer good: names, prune, floor and both sentinels.
LEMMA RebuildSound ==
  ASSUME NEW g, Sound(g), g.hold = NoHold, g.slide = NoSlide, NEW c \in Configs
  PROVE  Sound(Rebuild(g, c))
<1> DEFINE g0 == [g EXCEPT !.pending = FALSE]
           g1 == ReconcileNames(g0, c)
           front == FrontKeeper(g1, c)
           g2 == Erase(g1, Pruned(g1, c))
           g3 == FillToMinimum(g2, c)
           g4 == AppendSentinel(g3, front)
           g5 == PrependSentinel(g4, c, front)
<1>1. Sound(g0) /\ g0.hold = NoHold /\ g0.slide = NoSlide
  <2>1. /\ g0 = [f \in Fields |-> g0[f]]
        /\ \A f \in Fields \ {"pending"} : g0[f] = g[f]
        /\ g0.pending = FALSE
    BY DEF Sound, WellTyped, Fields
  <2> HIDE DEF g0
  <2>2. \A f \in Flags : g0[f] \in BOOLEAN
    BY ZenonT(60), <2>1 DEF Sound, WellTyped, Fields, Flags
  <2>3. /\ \A f \in Inventory : g0[f] = g[f]
        /\ g0.slide = g.slide /\ g0.hold = g.hold
        /\ g0.active = g.active /\ g0.previous = g.previous
    BY <2>1 DEF Inventory, Fields
  <2>4. g0.active \in OptionalOf(Live(g)) /\ g0.previous \in OptionalOf(Live(g))
    BY <2>3 DEF Sound, PointsAtLive
  <2> QED BY <2>1, <2>2, <2>3, <2>4, SameInventory
<1> HIDE DEF g0
<1>2. Sound(g1) /\ g1.hold = NoHold /\ g1.slide = NoSlide
  BY <1>1, ReconcileNamesSound
<1> HIDE DEF g1, front
<1>3. Sound(g2) /\ g2.hold = NoHold
  BY <1>2, PrunedIsUnused, EraseSound
<1> HIDE DEF g2
<1>4. Sound(g3) /\ g3.hold = NoHold
  <2>1. Size(g2) \in Nat /\ c.minimum \in Nat
    BY <1>3, SizeIsNat, ConfigTyped
  <2>2. CASE Size(g2) < c.minimum
    <3>1. c.minimum - Size(g2) \in Nat
      BY <2>1, <2>2
    <3>2. g3 = InsertAt(g2, Size(g2), c.minimum - Size(g2))
      BY <2>2 DEF FillToMinimum
    <3>3. /\ Sound(InsertAt(g2, Size(g2), c.minimum - Size(g2)))
          /\ InsertAt(g2, Size(g2), c.minimum - Size(g2)).hold = NoHold
      BY <1>3, <2>1, <3>1, InsertAtSound
    <3> QED BY <3>2, <3>3
  <2>3. CASE ~(Size(g2) < c.minimum)
    BY <2>3, <1>3 DEF FillToMinimum
  <2> QED BY <2>2, <2>3
<1> HIDE DEF g3
<1>5. Sound(g4) /\ g4.hold = NoHold
  <2>1. Size(g3) \in Nat /\ 1 \in Nat
    BY <1>4, SizeIsNat
  <2>2. g4 = g3 \/ g4 = InsertAt(g3, Size(g3), 1)
    BY DEF AppendSentinel
  <2>3. Sound(InsertAt(g3, Size(g3), 1)) /\ InsertAt(g3, Size(g3), 1).hold = NoHold
    BY <1>4, <2>1, InsertAtSound
  <2> QED BY <1>4, <2>2, <2>3
<1> HIDE DEF g4
<1>6. Sound(g5)
  <2>1. g5 = g4 \/ g5 = InsertAt(g4, 0, 1)
    BY DEF PrependSentinel
  <2>2. 0 \in Nat /\ 1 \in Nat
    OBVIOUS
  <2> QED BY <1>5, <2>1, <2>2, InsertAtSound
<1> HIDE DEF g5
<1>7. Rebuild(g, c) = ForgetRevisit(g5)
  BY DEF Rebuild, g5, g4, g3, g2, g1, g0, front
<1> QED BY <1>6, <1>7, ForgetRevisitSound

\* Taking the hold away changes nothing else (invalidatePresentationInventory).
LEMMA InvalidateSound ==
  ASSUME NEW g, Sound(g)
  PROVE  /\ Sound(Invalidate(g)) /\ Live(Invalidate(g)) = Live(g)
         /\ Invalidate(g).hold = NoHold
         /\ \A f \in Fields \ {"hold"} : Invalidate(g)[f] = g[f]
<1> DEFINE h == Invalidate(g)
<1>1. /\ h = [f \in Fields |-> h[f]]
      /\ \A f \in Fields \ {"hold"} : h[f] = g[f]
      /\ h.hold = NoHold
  BY DEF Sound, WellTyped, Fields, Invalidate
<1> HIDE DEF h
<1>2. /\ \A f \in Inventory : h[f] = g[f]
      /\ \A f \in Flags : h[f] \in BOOLEAN
      /\ h.slide = g.slide
      /\ h.active \in OptionalOf(Live(g)) /\ h.previous \in OptionalOf(Live(g))
  BY SMTT(30), <1>1 DEF Sound, WellTyped, PointsAtLive, Fields, Flags, Inventory
<1> QED BY <1>1, <1>2, SameInventory DEF h

\* Ending a slide changes nothing else (slideFinish).
LEMMA SlideFinishSound ==
  ASSUME NEW g, Sound(g)
  PROVE  /\ Sound(SlideFinish(g)) /\ Live(SlideFinish(g)) = Live(g)
         /\ SlideFinish(g).slide = NoSlide
         /\ \A f \in Fields \ {"slide"} : SlideFinish(g)[f] = g[f]
<1> DEFINE h == SlideFinish(g)
<1>1. /\ h = [f \in Fields |-> h[f]]
      /\ \A f \in Fields \ {"slide"} : h[f] = g[f]
      /\ h.slide = NoSlide
  BY DEF Sound, WellTyped, Fields, SlideFinish
<1> HIDE DEF h
<1>2. /\ \A f \in Inventory : h[f] = g[f]
      /\ \A f \in Flags : h[f] \in BOOLEAN
      /\ h.hold = g.hold
      /\ h.active \in OptionalOf(Live(g)) /\ h.previous \in OptionalOf(Live(g))
  BY SMTT(30), <1>1 DEF Sound, WellTyped, PointsAtLive, Fields, Flags, Inventory
<1> QED BY <1>1, <1>2, SameInventory DEF h

\* Switching to a live workspace is not wild and keeps pointers good
\* (commitSelection).
LEMMA SwitchToSound ==
  ASSUME NEW g, Sound(g), NEW w \in Live(g)
  PROVE  /\ Sound(SwitchTo(g, w)) /\ Live(SwitchTo(g, w)) = Live(g)
         /\ SwitchTo(g, w).active = w
         /\ SwitchTo(g, w).wild = g.wild
         /\ \A f \in Fields \ {"active", "previous", "wild"} : SwitchTo(g, w)[f] = g[f]
<1> DEFINE h == SwitchTo(g, w)
<1>1. /\ h = [f \in Fields |-> h[f]]
      /\ \A f \in Fields \ {"active", "previous", "wild"} : h[f] = g[f]
      /\ h.active = w
      /\ h.previous \in {g.previous, g.active}
      /\ h.previous = IF g.active = None THEN g.previous ELSE g.active
  BY DEF Sound, WellTyped, Fields, SwitchTo
<1>2. h.wild = (g.wild \/ w \notin Live(g))
  BY DEF Sound, WellTyped, Fields, SwitchTo
<1>3. h.wild = g.wild
  <2>1. g.wild \in BOOLEAN
    BY DEF Sound, WellTyped
  <2> QED BY <1>2, <2>1
<1> HIDE DEF h
<1>4. /\ \A f \in Inventory : h[f] = g[f]
      /\ h.slide = g.slide /\ h.hold = g.hold
      /\ h.active \in OptionalOf(Live(g)) /\ h.previous \in OptionalOf(Live(g))
  BY <1>1 DEF Sound, PointsAtLive, Fields, Inventory, OptionalOf
<1>5. \A f \in Flags : h[f] \in BOOLEAN
  BY <1>1, <1>3 DEF Sound, WellTyped, Fields, Flags
<1> QED BY <1>1, <1>3, <1>4, <1>5, SameInventory DEF h

\* Deferring a reconciliation only raises the flag
\* (m_inventoryReconciliationPending).
LEMMA DeferSound ==
  ASSUME NEW g, Sound(g)
  PROVE  /\ Sound(Defer(g)) /\ Live(Defer(g)) = Live(g)
         /\ \A f \in Fields \ {"pending"} : Defer(g)[f] = g[f]
<1> DEFINE h == [g EXCEPT !.pending = TRUE]
<1>1. /\ h = [f \in Fields |-> h[f]]
      /\ \A f \in Fields \ {"pending"} : h[f] = g[f]
      /\ h.pending \in BOOLEAN
  BY DEF Sound, WellTyped, Fields
<1> HIDE DEF h
<1>2. /\ \A f \in Inventory : h[f] = g[f]
      /\ h.slide = g.slide /\ h.hold = g.hold
      /\ h.active \in OptionalOf(Live(g)) /\ h.previous \in OptionalOf(Live(g))
  BY <1>1 DEF Sound, PointsAtLive, Fields, Inventory
<1>3. \A f \in Flags : h[f] \in BOOLEAN
  BY SMTT(30), <1>1 DEF Sound, WellTyped, Fields, Flags
<1>4. Sound(h) /\ Live(h) = Live(g)
  BY <1>1, <1>2, <1>3, SameInventory
<1>5. Defer(g) = g \/ Defer(g) = h
  BY DEF Defer, h
<1> QED BY <1>1, <1>4, <1>5

\* reconcileDynamic keeps a sound group sound, whichever of its early returns
\* it takes.
LEMMA ReconcileSound ==
  ASSUME NEW g, Sound(g), NEW c \in Configs
  PROVE  Sound(Reconcile(g, c))
<1>1. CASE ~g.dynamic
  <2>1. Reconcile(g, c) = g
    BY <1>1 DEF Reconcile
  <2> QED BY <2>1
<1>2. CASE g.dynamic /\ g.hold # NoHold
  <2>1. Reconcile(g, c) = Defer(g)
    BY <1>2 DEF Reconcile
  <2> QED BY <2>1, DeferSound
<1>3. CASE g.dynamic /\ g.hold = NoHold /\ SlideActive(g)
  <2>1. Reconcile(g, c) = g
    BY <1>3 DEF Reconcile
  <2> QED BY <2>1
<1>4. CASE g.dynamic /\ g.hold = NoHold /\ ~SlideActive(g) /\ ~c.dynamic
  <2> DEFINE h == [g EXCEPT !.pending = FALSE]
  <2>1. /\ h = [f \in Fields |-> h[f]]
        /\ \A f \in Fields \ {"pending"} : h[f] = g[f]
        /\ h.pending = FALSE
    BY DEF Sound, WellTyped, Fields
  <2>2. Reconcile(g, c) = h
    BY <1>4 DEF Reconcile
  <2> HIDE DEF h
  <2>3. /\ \A f \in Inventory : h[f] = g[f]
        /\ h.slide = g.slide /\ h.hold = g.hold
        /\ h.active \in OptionalOf(Live(g)) /\ h.previous \in OptionalOf(Live(g))
    BY <2>1 DEF Sound, PointsAtLive, Fields, Inventory
  <2>4. \A f \in Flags : h[f] \in BOOLEAN
    BY ZenonT(60), <2>1 DEF Sound, WellTyped, Fields, Flags
  <2> QED BY <2>1, <2>2, <2>3, <2>4, SameInventory
<1>5. CASE g.dynamic /\ g.hold = NoHold /\ ~SlideActive(g) /\ c.dynamic
  <2>1. Reconcile(g, c) = Rebuild(g, c)
    BY <1>5 DEF Reconcile
  <2>2. g.slide = NoSlide
    BY <1>5 DEF Sound, WellTyped
  <2> QED BY <1>5, <2>1, <2>2, RebuildSound
<1> QED BY <1>1, <1>2, <1>3, <1>4, <1>5

\* A switch without animation keeps a sound group sound (activate).
LEMMA SwitchNowSound ==
  ASSUME NEW g, Sound(g), NEW c \in Configs, NEW w \in Live(g)
  PROVE  Sound(SwitchNow(g, c, w))
<1> DEFINE g1 == Invalidate(g)
           g2 == SlideFinish(g1)
           g3 == SwitchTo(g2, w)
<1>1. Sound(g1) /\ Live(g1) = Live(g)
  BY InvalidateSound
<1> HIDE DEF g1
<1>2. Sound(g2) /\ Live(g2) = Live(g)
  BY <1>1, SlideFinishSound
<1> HIDE DEF g2
<1>3. Sound(g3)
  BY <1>2, SwitchToSound
<1> HIDE DEF g3
<1>4. SwitchNow(g, c, w) = Reconcile(g3, c)
  BY DEF SwitchNow, g1, g2, g3
<1> QED BY <1>3, <1>4, ReconcileSound

\* A switch that slides keeps a sound group sound (activate, slideBegin).
LEMMA StartSlideSound ==
  ASSUME NEW g, Sound(g), NEW w \in Live(g), g.active # None
  PROVE  Sound(StartSlide(g, w))
<1> DEFINE g1 == Invalidate(g)
           g2 == SwitchTo(g1, w)
           h == StartSlide(g, w)
           slide == [base |-> g.active,
                     previous |-> IF g.index[w] < g.index[g.active] THEN w ELSE None,
                     next |-> IF g.index[w] < g.index[g.active] THEN None ELSE w,
                     settling |-> TRUE]
<1>1. Sound(g1) /\ Live(g1) = Live(g) /\ g1.hold = NoHold
  BY InvalidateSound
<1> HIDE DEF g1
<1>2. Sound(g2) /\ Live(g2) = Live(g) /\ g2.hold = NoHold
  BY <1>1, SwitchToSound DEF Fields
<1> HIDE DEF g2
<1>3. h = [g2 EXCEPT !.slide = slide]
  BY DEF StartSlide, g1, g2
<1>4. slide \in [base : Live(g), previous : OptionalOf(Live(g)),
                 next : OptionalOf(Live(g)), settling : BOOLEAN]
  BY DEF Sound, PointsAtLive, OptionalOf
<1> HIDE DEF slide, h
<1>5. /\ h = [f \in Fields |-> h[f]]
      /\ \A f \in Fields \ {"slide"} : h[f] = g2[f]
      /\ h.slide = slide
  BY <1>2, <1>3 DEF Sound, WellTyped, Fields
<1>6. /\ \A f \in Inventory : h[f] = g2[f]
      /\ \A f \in Flags : h[f] \in BOOLEAN
      /\ h.hold = NoHold
      /\ h.active \in OptionalOf(Live(g2)) /\ h.previous \in OptionalOf(Live(g2))
  <2>1. /\ h.hold = NoHold /\ h.active = g2.active /\ h.previous = g2.previous
        /\ \A f \in Inventory \cup Flags : h[f] = g2[f]
    BY <1>2, <1>5 DEF Fields, Inventory, Flags
  <2>2. g2.active \in OptionalOf(Live(g2)) /\ g2.previous \in OptionalOf(Live(g2))
    BY <1>2 DEF Sound, PointsAtLive
  <2>3. \A f \in Flags : g2[f] \in BOOLEAN
    BY <1>2 DEF Sound, WellTyped, Flags
  <2> QED BY <2>1, <2>2, <2>3
<1>7. h.slide \in [base : Live(g2), previous : OptionalOf(Live(g2)),
                    next : OptionalOf(Live(g2)), settling : BOOLEAN]
  BY <1>2, <1>4, <1>5
<1>8. Sound(h)
  BY <1>2, <1>5, <1>6, <1>7, SameInventory
<1> QED BY <1>8 DEF h

\* Releasing the hold, with the reconciliation it makes up for, keeps a sound
\* group sound (releasePresentationInventory).
LEMMA ReleaseHoldSound ==
  ASSUME NEW g, Sound(g), NEW c \in Configs
  PROVE  Sound(ReleaseHold(g, c))
<1>1. Sound(Invalidate(g))
  BY InvalidateSound
<1>2. ReleaseHold(g, c) \in {Invalidate(g), Reconcile(Invalidate(g), c)}
  BY DEF ReleaseHold
<1>3. Sound(Reconcile(Invalidate(g), c))
  BY <1>1, ReconcileSound
<1> QED BY <1>1, <1>2, <1>3

\* A transition that makes its switch under its own hold keeps the group sound
\* and the hold as it is (activateSelection).
LEMMA ActivateSelectionSound ==
  ASSUME NEW g, Sound(g), NEW w
  PROVE  /\ Sound(ActivateSelection(g, w))
         /\ Live(ActivateSelection(g, w)) = Live(g)
         /\ ActivateSelection(g, w).hold = g.hold
<1>1. CASE w \notin Live(g) \cap DOMAIN g.hold.order
  <2>1. ActivateSelection(g, w) = g
    BY <1>1 DEF ActivateSelection
  <2> QED BY <2>1
<1>2. CASE w \in Live(g) \cap DOMAIN g.hold.order
  <2> DEFINE g1 == SlideFinish(g)
             g2 == SwitchTo(g1, w)
             g3 == IF g.active = w THEN g ELSE g2
  <2>1. Sound(g1) /\ Live(g1) = Live(g) /\ g1.hold = g.hold
    BY SlideFinishSound DEF Fields
  <2> HIDE DEF g1
  <2>2. Sound(g2) /\ Live(g2) = Live(g) /\ g2.hold = g.hold
    BY <1>2, <2>1, SwitchToSound DEF Fields
  <2> HIDE DEF g2
  <2>3. Sound(g3) /\ Live(g3) = Live(g) /\ g3.hold = g.hold
    BY <2>2
  <2>4. ActivateSelection(g, w) = Defer(g3)
    BY <1>2 DEF ActivateSelection, g1, g2
  <2> HIDE DEF g3
  <2>5. Sound(Defer(g3)) /\ Live(Defer(g3)) = Live(g) /\ Defer(g3).hold = g.hold
    BY <2>3, DeferSound DEF Fields
  <2> QED BY <2>4, <2>5
<1> QED BY <1>1, <1>2

\* A cancelled transition that still makes its switch keeps the inventory
\* (WorkspaceTransition::cancel).
LEMMA FinishRequestedSound ==
  ASSUME NEW g, Sound(g)
  PROVE  Sound(FinishRequested(g)) /\ Live(FinishRequested(g)) = Live(g)
BY ActivateSelectionSound DEF FinishRequested

\* Cancelling a scene transition keeps a sound group sound
\* (WorkspaceTransition::cancel, releasePresentationInventory).
LEMMA CancelPairSound ==
  ASSUME NEW g, Sound(g), NEW c \in Configs
  PROVE  Sound(CancelPair(g, c))
<1>1. Sound(FinishRequested(g))
  BY FinishRequestedSound
<1> QED BY <1>1, ReleaseHoldSound DEF CancelPair

\* The cancel inside activate keeps every workspace, so the one the caller
\* asked for is still there afterwards.
LEMMA InterruptSound ==
  ASSUME NEW g, Sound(g), NEW c
  PROVE  Sound(Interrupt(g, c)) /\ Live(Interrupt(g, c)) = Live(g)
<1> DEFINE g1 == FinishRequested(g)
<1>1. Sound(g1) /\ Live(g1) = Live(g)
  BY FinishRequestedSound
<1>2. Interrupt(g, c) \in {g, Invalidate(g1)}
  BY DEF Interrupt
<1> HIDE DEF g1
<1>3. Sound(Invalidate(g1)) /\ Live(Invalidate(g1)) = Live(g)
  BY <1>1, InvalidateSound
<1> QED BY <1>2, <1>3

\* A hold taken with no slide on screen describes the live inventory
\* (holdPresentationInventory).
LEMMA TakeHoldSound ==
  ASSUME NEW g, Sound(g), MayHold(g),
         NEW owner \in {"pair", "set"}, NEW target \in OptionalOf(Live(g)),
         NEW phase \in {"interactive", "preparing", "ending", "shown"}
  PROVE  Sound(TakeHold(g, owner, target, phase))
<1> DEFINE h == TakeHold(g, owner, target, phase)
           hold == [owner |-> owner, order |-> g.index, target |-> target, phase |-> phase]
<1>1. /\ h = [f \in Fields |-> h[f]]
      /\ \A f \in Fields \ {"hold"} : h[f] = g[f]
      /\ h.hold = hold
  BY DEF Sound, WellTyped, Fields, TakeHold
<1>2. hold \in [owner : {"pair", "set"}, order : {g.index}, target : OptionalOf(Live(g)),
                phase : {"interactive", "preparing", "ending", "shown"}]
  OBVIOUS
<1>3. g.slide = NoSlide
  BY DEF MayHold, Sound, WellTyped
<1> HIDE DEF h, hold
<1>4. /\ \A f \in Inventory : h[f] = g[f]
      /\ \A f \in Flags : h[f] \in BOOLEAN
      /\ h.slide = NoSlide
      /\ h.active \in OptionalOf(Live(g)) /\ h.previous \in OptionalOf(Live(g))
  BY SMTT(30), <1>1, <1>3 DEF Sound, WellTyped, PointsAtLive, Fields, Flags, Inventory
<1> QED BY <1>1, <1>2, <1>4, SameInventory DEF h

\* Every outcome of activate keeps a sound group sound, unless a scene
\* transition fails after it took its hold.
LEMMA ActivationsSound ==
  ASSUME "transition_failure" \notin Disturbances,
         NEW g, Sound(g), NEW c \in Configs, NEW w \in Live(g), NEW animate,
         NEW h \in Activations(g, c, w, animate)
  PROVE  Sound(h)
<1> DEFINE g1 == Interrupt(g, c)
<1>1. Sound(g1) /\ w \in Live(g1)
  BY InterruptSound
<1>2. \/ h = Reconcile(g1, c)
      \/ h = SwitchNow(g1, c, w)
      \/ g1.active # None /\ h = StartSlide(g1, w)
      \/ MayHold(g1) /\ h = TakeHold(g1, "pair", w, "preparing")
  BY DEF Activations, Native
<1> HIDE DEF g1
<1>3. w \in OptionalOf(Live(g1))
  BY <1>1 DEF OptionalOf
<1> QED BY <1>1, <1>2, <1>3, ReconcileSound, SwitchNowSound, StartSlideSound, TakeHoldSound

\* A released swipe lands on a live workspace (slideSettle).
LEMMA SlideSettleSound ==
  ASSUME NEW g, Sound(g), SlideActive(g), NEW c \in Configs, NEW delta,
         NEW h \in SlideSettle(g, c, delta)
  PROVE  Sound(h)
<1> DEFINE target == Landing(g, delta)
           g1 == IF target = g.active THEN g
                 ELSE [SwitchTo(g, target) EXCEPT
                         !.previous = g.active, !.wild = @ \/ g.active = None]
<1>1. target \in Live(g)
  BY DEF Landing, SlideActive, Sound, PointsAtLive, OptionalOf
<1> HIDE DEF target
<1>2. g.hold = NoHold
  BY DEF Sound, Current
<1>3. /\ g1 = [f \in Fields |-> g1[f]]
      /\ \A f \in Inventory : g1[f] = g[f]
      /\ g1.slide = g.slide /\ g1.hold = NoHold
      /\ \A f \in Flags : g1[f] \in BOOLEAN
      /\ g1.active \in OptionalOf(Live(g)) /\ g1.previous \in OptionalOf(Live(g))
  <2>1. CASE target = g.active
    <3>1. g1 = g
      BY <2>1
    <3> HIDE DEF g1
    <3>2. \A f \in Flags : g[f] \in BOOLEAN
      BY DEF Sound, WellTyped, Flags
    <3>3. g = [f \in Fields |-> g[f]]
      BY DEF Sound, WellTyped
    <3> QED BY <3>1, <3>2, <3>3, <1>2 DEF Sound, PointsAtLive
  <2>2. CASE target # g.active
    <3> DEFINE s == SwitchTo(g, target)
    <3>1. /\ Sound(s) /\ s.active = target
          /\ \A f \in Fields \ {"active", "previous", "wild"} : s[f] = g[f]
      BY <1>1, SwitchToSound
    <3> HIDE DEF s
    <3>2. g1 = [s EXCEPT !.previous = g.active, !.wild = @ \/ g.active = None]
      BY <2>2 DEF s
    <3> HIDE DEF g1
    <3>3. s = [f \in Fields |-> s[f]]
      BY <3>1 DEF Sound, WellTyped
    <3>4. /\ g1 = [f \in Fields |-> g1[f]]
          /\ \A f \in Fields \ {"previous", "wild"} : g1[f] = s[f]
          /\ g1.previous = g.active
      BY <3>2, <3>3 DEF Fields
    <3>5. g1.wild = (s.wild \/ g.active = None)
      BY <3>2, <3>3 DEF Fields
    <3>6. g1.wild \in BOOLEAN
      BY <3>5
    <3>7. /\ \A f \in Inventory : g1[f] = g[f]
          /\ g1.slide = g.slide /\ g1.hold = NoHold
          /\ g1.active = target /\ g1.previous = g.active
      BY <3>1, <3>4, <1>2 DEF Fields, Inventory
    <3>8. \A f \in Flags : g1[f] \in BOOLEAN
      <4>1. \A f \in Flags \ {"wild"} : g1[f] = g[f]
        BY <3>1, <3>4 DEF Fields, Flags
      <4>2. \A f \in Flags : g[f] \in BOOLEAN
        BY DEF Sound, WellTyped, Flags
      <4> QED BY <3>6, <4>1, <4>2
    <3>9. g1.active \in OptionalOf(Live(g)) /\ g1.previous \in OptionalOf(Live(g))
      BY <3>7, <1>1 DEF Sound, PointsAtLive, OptionalOf
    <3> QED BY <3>4, <3>7, <3>8, <3>9
  <2> QED BY <2>1, <2>2
<1> HIDE DEF g1
<1>4. Sound(g1) /\ Live(g1) = Live(g)
  BY <1>3, SameInventory
<1>5. h = [g1 EXCEPT !.slide.settling = TRUE] \/ h = Reconcile(SlideFinish(g1), c)
  BY DEF SlideSettle, g1, target
<1>6. CASE h = Reconcile(SlideFinish(g1), c)
  <2>1. Sound(SlideFinish(g1))
    BY <1>4, SlideFinishSound
  <2> QED BY <2>1, <1>6, ReconcileSound
<1>7. CASE h = [g1 EXCEPT !.slide.settling = TRUE]
  <2>1. /\ h = [f \in Fields |-> h[f]]
        /\ \A f \in Fields \ {"slide"} : h[f] = g1[f]
        /\ h.slide = [g1.slide EXCEPT !.settling = TRUE]
    BY <1>3, <1>7 DEF Fields
  <2>2. g.slide \in [base : Live(g), previous : OptionalOf(Live(g)),
                     next : OptionalOf(Live(g)), settling : BOOLEAN]
    BY DEF Sound, WellTyped, PointsAtLive, SlideActive, OptionalOf
  <2>3. h.slide \in [base : Live(g1), previous : OptionalOf(Live(g1)),
                     next : OptionalOf(Live(g1)), settling : BOOLEAN]
    <3>1. h.slide = [g.slide EXCEPT !.settling = TRUE]
      BY <1>3, <2>1
    <3>2. h.slide \in [base : Live(g), previous : OptionalOf(Live(g)),
                       next : OptionalOf(Live(g)), settling : BOOLEAN]
      BY <2>2, <3>1
    <3> QED BY <3>2, <1>4
  <2>4. /\ h.hold = NoHold /\ h.active = g1.active /\ h.previous = g1.previous
        /\ \A f \in Inventory \cup Flags : h[f] = g1[f]
    BY <2>1, <1>3 DEF Fields, Inventory, Flags
  <2> QED BY <2>1, <2>3, <2>4, <1>3, <1>4, SameInventory
<1> QED BY <1>5, <1>6, <1>7

\* Forgetting that fingers are down keeps a sound group sound.
LEMMA GestureFlagSound ==
  ASSUME NEW g, Sound(g)
  PROVE  /\ Sound([g EXCEPT !.gesture = FALSE])
         /\ [g EXCEPT !.gesture = FALSE].slide = g.slide
<1> DEFINE h == [g EXCEPT !.gesture = FALSE]
<1>1. /\ h = [f \in Fields |-> h[f]]
      /\ \A f \in Fields \ {"gesture"} : h[f] = g[f]
      /\ h.gesture \in BOOLEAN
  BY DEF Sound, WellTyped, Fields
<1> HIDE DEF h
<1>2. /\ \A f \in Inventory : h[f] = g[f]
      /\ h.slide = g.slide /\ h.hold = g.hold
      /\ h.active \in OptionalOf(Live(g)) /\ h.previous \in OptionalOf(Live(g))
  BY <1>1 DEF Sound, PointsAtLive, Fields, Inventory
<1>3. \A f \in Flags : h[f] \in BOOLEAN
  BY <1>1 DEF Sound, WellTyped, Fields, Flags
<1>4. Sound(h)
  BY <1>1, <1>2, <1>3, SameInventory
<1> QED BY <1>2, <1>4 DEF h

\* The end of a swipe keeps a sound group sound (finishSwitch).
LEMMA GestureEndSound ==
  ASSUME NEW g, Sound(g), NEW c \in Configs, NEW delta,
         NEW h \in GestureEnd(g, c, delta)
  PROVE  Sound(h)
<1> DEFINE g1 == [g EXCEPT !.gesture = FALSE]
<1>1. Sound(g1) /\ g1.slide = g.slide
  BY GestureFlagSound
<1> HIDE DEF g1
<1>2. h = g1 \/ (SlideActive(g) /\ h \in SlideSettle(g1, c, delta))
  BY DEF GestureEnd, g1
<1>3. SlideActive(g) => SlideActive(g1)
  BY <1>1 DEF SlideActive
<1> QED BY <1>1, <1>2, <1>3, SlideSettleSound

\* A fixed slot is held by a live workspace or by a new one
\* (reconcileInventory).
LEMMA HolderIsKeptOrNew ==
  ASSUME NEW g, Sound(g), NEW c \in Configs, NEW i \in Slots(c)
  PROVE  Holder(g, c, i) \in Live(g) \/ Holder(g, c, i) = g.serial + i
<1>1. Keeps(g, c, i) \subseteq Live(g)
  BY DEF Keeps
<1> HIDE DEF Keeps
<1> QED BY <1>1 DEF Holder

\* What a pointer to a removed workspace becomes holds a slot
\* (reconcileInventory, the moves).
LEMMA RelocatedIsHeld ==
  ASSUME NEW g, Sound(g), NEW c \in Configs, ~c.dynamic, NEW w \in OptionalOf(Live(g))
  PROVE  Relocated(g, c, w) \in OptionalOf({Holder(g, c, i) : i \in Slots(c)})
<1> DEFINE order == {Holder(g, c, i) : i \in Slots(c)}
           last == Len(c.fixed) - 1
<1>1. CASE w \in Removed(g, c)
  <2>1. g.index[w] \in Nat
    BY <1>1 DEF Removed, Sound, WellTyped
  <2>2. last \in Nat
    BY ConfigTyped
  <2>3. Least(g.index[w], last) \in Slots(c)
    BY <2>1, <2>2 DEF Least, Slots
  <2>4. Relocated(g, c, w) = Holder(g, c, Least(g.index[w], last))
    BY <1>1 DEF Relocated
  <2> HIDE DEF last
  <2> QED BY <2>3, <2>4 DEF OptionalOf
<1>2. CASE w \notin Removed(g, c)
  <2>1. Relocated(g, c, w) = w
    BY <1>2 DEF Relocated
  <2>2. w = None \/ w \in order
    BY <1>2 DEF Removed, OptionalOf
  <2> QED BY <2>1, <2>2 DEF OptionalOf
<1> QED BY <1>1, <1>2

\* A reload to a fixed inventory moves every pointer to a workspace that
\* stands in a slot, and forgets the launches on the others
\* (reconcileInventory).
LEMMA FixedInventorySound ==
  ASSUME NEW g, Sound(g), g.hold = NoHold, g.slide = NoSlide, NEW c \in Configs, ~c.dynamic
  PROVE  Sound(FixedInventory(g, c))
<1> DEFINE order == {Holder(g, c, i) : i \in Slots(c)}
           slot(w) == CHOOSE i \in Slots(c) : Holder(g, c, i) = w
           n == Len(c.fixed)
           h == [g EXCEPT
                  !.dynamic = FALSE,
                  !.index = [w \in order |-> slot(w)],
                  !.label = [w \in order |-> c.fixed[slot(w) + 1]],
                  !.serial = @ + Len(c.fixed),
                  !.home = [v \in Views |-> Relocated(g, c, g.home[v])],
                  !.launch = [l \in Launches |->
                                IF g.launch[l] \in Removed(g, c) THEN None ELSE g.launch[l]],
                  !.active = Relocated(g, c, g.active),
                  !.previous = IF @ \in Removed(g, c) THEN None ELSE @,
                  !.wild = @ \/ g.active = None]
<1>1. /\ h = [f \in Fields |-> h[f]]
      /\ h.slide = NoSlide /\ h.hold = NoHold
      /\ h.gesture = g.gesture /\ h.pending = g.pending
  BY DEF Sound, WellTyped, Fields
<1>2. /\ h.index = [w \in order |-> slot(w)]
      /\ h.label = [w \in order |-> c.fixed[slot(w) + 1]]
      /\ h.serial = g.serial + n
  BY DEF Sound, WellTyped, Fields
<1>3. /\ h.home = [v \in Views |-> Relocated(g, c, g.home[v])]
      /\ h.launch = [l \in Launches |->
                       IF g.launch[l] \in Removed(g, c) THEN None ELSE g.launch[l]]
      /\ h.active = Relocated(g, c, g.active)
      /\ h.previous = IF g.previous \in Removed(g, c) THEN None ELSE g.previous
  BY DEF Sound, WellTyped, Fields
<1>4. h.dynamic \in BOOLEAN /\ h.wild \in BOOLEAN
  <2>1. h.dynamic = FALSE
    BY DEF Sound, WellTyped, Fields
  <2>2. h.wild = (g.wild \/ g.active = None)
    BY DEF Sound, WellTyped, Fields
  <2> HIDE DEF h
  <2> QED BY <2>1, <2>2
<1>5. FixedInventory(g, c) = ForgetRevisit(h)
  BY DEF FixedInventory
<1>6. \A w \in order : slot(w) \in Slots(c)
  OBVIOUS
<1> HIDE DEF h, slot
<1>7. n \in Nat /\ n >= 1 /\ c.fixed \in Seq(Labels)
  BY ConfigTyped
<1>8. Live(h) = order
  BY <1>2 DEF Live
<1>9. h.serial \in Nat /\ order \subseteq 0 .. (h.serial - 1)
  <2>1. g.serial \in Nat /\ Live(g) \subseteq 0 .. (g.serial - 1)
    BY DEF Sound, WellTyped
  <2>2. ASSUME NEW i \in Slots(c) PROVE Holder(g, c, i) \in 0 .. (g.serial + n - 1)
    <3>1. CASE Holder(g, c, i) \in Live(g)
      BY <2>1, <3>1, <1>7
    <3>2. CASE Holder(g, c, i) = g.serial + i
      BY <2>1, <3>2, <1>7 DEF Slots
    <3> QED BY <3>1, <3>2, HolderIsKeptOrNew
  <2> HIDE DEF n
  <2> QED BY <1>2, <1>7, <2>1, <2>2
<1>10. h.index \in [order -> Nat]
  BY <1>2, <1>6, <1>7 DEF Slots
<1>11. h.label \in [order -> Labels]
  <2>1. \A w \in order : slot(w) + 1 \in 1 .. n
    BY <1>6, <1>7 DEF Slots
  <2>2. \A w \in order : c.fixed[slot(w) + 1] \in Labels
    BY <2>1, <1>7
  <2> QED BY <1>2, <2>2
<1>12. \A v \in Views : h.home[v] \in OptionalOf(order)
  BY <1>3, RelocatedIsHeld DEF Sound, PointsAtLive
<1>13. h.active \in OptionalOf(order)
  BY <1>3, RelocatedIsHeld DEF Sound, PointsAtLive
<1>14. \A w \in OptionalOf(Live(g)) : w \notin Removed(g, c) => w \in OptionalOf(order)
  BY DEF Removed, OptionalOf
<1>15. h.previous \in OptionalOf(order)
  BY <1>3, <1>14 DEF Sound, PointsAtLive, OptionalOf
<1>16. \A l \in Launches : h.launch[l] \in OptionalOf(order)
  <2>1. \A l \in Launches : g.launch[l] \in OptionalOf(Live(g))
    BY DEF Sound, PointsAtLive
  <2> QED BY <1>3, <1>14, <2>1 DEF OptionalOf
<1>17. OptionalOf(order) \subseteq OptionalOf(Nat)
  <2>1. order \subseteq Nat
    BY <1>9
  <2> QED BY <2>1 DEF OptionalOf
<1> HIDE DEF order
<1>18. WellTyped(h)
  <2>1. h.home \in [Views -> OptionalOf(Nat)] /\ h.launch \in [Launches -> OptionalOf(Nat)]
    BY <1>3, <1>12, <1>16, <1>17
  <2>2. h.active \in OptionalOf(Nat) /\ h.previous \in OptionalOf(Nat)
    BY <1>13, <1>15, <1>17
  <2>3. h.slide = g.slide /\ h.hold = g.hold
    BY <1>1
  <2>4. /\ g.slide \in [base : OptionalOf(Nat), previous : OptionalOf(Nat),
                        next : OptionalOf(Nat), settling : BOOLEAN]
        /\ g.hold = [f \in {"owner", "order", "target", "phase"} |-> g.hold[f]]
        /\ g.hold.owner \in {None, "pair", "set"}
        /\ g.hold.target \in OptionalOf(Nat)
        /\ g.hold.phase \in {None, "interactive", "preparing", "ending", "shown"}
        /\ g.pending \in BOOLEAN /\ g.gesture \in BOOLEAN
    BY DEF Sound, WellTyped
  <2> QED BY <1>1, <1>4, <1>8, <1>9, <1>10, <1>11, <2>1, <2>2, <2>3, <2>4
          DEF WellTyped, Labels
<1>19. PointsAtLive(h)
  BY <1>1, <1>8, <1>12, <1>13, <1>15, <1>16 DEF PointsAtLive, NoSlide, OptionalOf
<1>20. Current(h)
  BY <1>1 DEF Current
<1>21. Sound(h)
  BY <1>18, <1>19, <1>20 DEF Sound
<1> QED BY <1>5, <1>21, ForgetRevisitSound

\* A reload keeps a sound group sound, dynamic or fixed (reconcileInventory).
LEMMA ReconcileInventorySound ==
  ASSUME NEW g, Sound(g), NEW c \in Configs
  PROVE  Sound(ReconcileInventory(g, c))
<1> DEFINE g0 == Invalidate(g)
           g1 == SlideFinish(g0)
           g2 == [g1 EXCEPT !.dynamic = TRUE]
<1>1. Sound(g0) /\ g0.hold = NoHold
  BY InvalidateSound
<1> HIDE DEF g0
<1>2. Sound(g1) /\ g1.hold = NoHold /\ g1.slide = NoSlide
  BY <1>1, SlideFinishSound DEF Fields
<1> HIDE DEF g1
<1>3. Sound(g2)
  <2>1. /\ g2 = [f \in Fields |-> g2[f]]
        /\ \A f \in Fields \ {"dynamic"} : g2[f] = g1[f]
        /\ g2.dynamic \in BOOLEAN
    BY <1>2 DEF Sound, WellTyped, Fields
  <2> HIDE DEF g2
  <2>2. /\ \A f \in Inventory : g2[f] = g1[f]
        /\ g2.slide = g1.slide /\ g2.hold = g1.hold
        /\ g2.active = g1.active /\ g2.previous = g1.previous
    BY <2>1 DEF Fields, Inventory
  <2>3. g2.active \in OptionalOf(Live(g1)) /\ g2.previous \in OptionalOf(Live(g1))
    BY <1>2, <2>2 DEF Sound, PointsAtLive
  <2>4. \A f \in Flags : g2[f] \in BOOLEAN
    <3>1. \A f \in Flags : g1[f] \in BOOLEAN
      BY <1>2 DEF Sound, WellTyped, Flags
    <3> QED BY <2>1, <3>1 DEF Fields, Flags
  <2> QED BY <1>2, <2>1, <2>2, <2>3, <2>4, SameInventory
<1> HIDE DEF g2
<1>4. ReconcileInventory(g, c) = IF c.dynamic THEN Reconcile(g2, c) ELSE FixedInventory(g1, c)
  BY DEF ReconcileInventory, g2, g1, g0
<1>5. CASE c.dynamic
  BY <1>3, <1>4, <1>5, ReconcileSound
<1>6. CASE ~c.dynamic
  BY <1>2, <1>4, <1>6, FixedInventorySound
<1> QED BY <1>5, <1>6

\* Views and launches may be moved to any live workspace, or to none.
LEMMA UsersSound ==
  ASSUME NEW g, Sound(g), NEW h,
         h = [f \in Fields |-> h[f]],
         \A f \in Fields \ {"home", "launch"} : h[f] = g[f],
         h.home \in [Views -> OptionalOf(Live(g))],
         h.launch \in [Launches -> OptionalOf(Live(g))]
  PROVE  Sound(h) /\ Live(h) = Live(g)
<1>1. Live(h) = Live(g) /\ OptionalOf(Live(g)) \subseteq OptionalOf(Nat)
  <2>1. Live(h) = Live(g)
    BY DEF Live, Fields
  <2>2. Live(g) \subseteq Nat
    BY DEF Sound, WellTyped
  <2> QED BY <2>1, <2>2 DEF OptionalOf
<1>2. h.home \in [Views -> OptionalOf(Nat)] /\ h.launch \in [Launches -> OptionalOf(Nat)]
  BY <1>1
<1>3. WellTyped(h)
  BY <1>1, <1>2 DEF Sound, WellTyped, Fields, SlideActive
<1>4. /\ h.active = g.active /\ h.previous = g.previous
      /\ h.slide = g.slide /\ h.hold = g.hold /\ h.index = g.index
  BY DEF Fields
<1>5. PointsAtLive(h)
  BY <1>1, <1>4 DEF Sound, PointsAtLive
<1>6. Current(h)
  BY <1>4 DEF Sound, Current, SlideActive
<1> QED BY <1>1, <1>3, <1>5, <1>6 DEF Sound

\* One view moved to a live workspace, or to none (View::setWorkspace).
LEMMA HomeSound ==
  ASSUME NEW g, Sound(g), NEW v \in Views, NEW w \in OptionalOf(Live(g))
  PROVE  LET h == [g EXCEPT !.home[v] = w]
         IN Sound(h) /\ Live(h) = Live(g) /\ \A f \in Fields \ {"home"} : h[f] = g[f]
<1> DEFINE h == [g EXCEPT !.home[v] = w]
<1>1. /\ h = [f \in Fields |-> h[f]]
      /\ \A f \in Fields \ {"home"} : h[f] = g[f]
      /\ h.home = [g.home EXCEPT ![v] = w]
  BY DEF Sound, WellTyped, Fields
<1> HIDE DEF h
<1>2. /\ g.home \in [Views -> OptionalOf(Live(g))]
      /\ g.launch \in [Launches -> OptionalOf(Live(g))]
  BY DEF Sound, WellTyped, PointsAtLive
<1>3. /\ h.home \in [Views -> OptionalOf(Live(g))]
      /\ h.launch \in [Launches -> OptionalOf(Live(g))]
  BY <1>1, <1>2 DEF Fields
<1>4. Sound(h) /\ Live(h) = Live(g)
  BY <1>1, <1>3, UsersSound
<1> QED BY <1>1, <1>4 DEF h

\* One launch recorded on a live workspace, or forgotten
\* (WorkspaceLaunchAnchor).
LEMMA LaunchSound ==
  ASSUME NEW g, Sound(g), NEW l \in Launches, NEW w \in OptionalOf(Live(g))
  PROVE  Sound([g EXCEPT !.launch[l] = w])
<1> DEFINE h == [g EXCEPT !.launch[l] = w]
<1>1. /\ h = [f \in Fields |-> h[f]]
      /\ \A f \in Fields \ {"launch"} : h[f] = g[f]
      /\ h.launch = [g.launch EXCEPT ![l] = w]
  BY DEF Sound, WellTyped, Fields
<1> HIDE DEF h
<1>2. /\ g.home \in [Views -> OptionalOf(Live(g))]
      /\ g.launch \in [Launches -> OptionalOf(Live(g))]
  BY DEF Sound, WellTyped, PointsAtLive
<1>3. /\ h.home \in [Views -> OptionalOf(Live(g))]
      /\ h.launch \in [Launches -> OptionalOf(Live(g))]
  BY <1>1, <1>2 DEF Fields
<1>4. Sound(h)
  BY <1>1, <1>3, UsersSound
<1> QED BY <1>4 DEF h

\* Exchanging two positions keeps the inventory sound (moveActive).
LEMMA SwapSound ==
  ASSUME NEW g, Sound(g), g.hold = NoHold, NEW a \in Live(g), NEW b \in Live(g)
  PROVE  Sound(Swap(g, a, b))
<1> DEFINE h == Swap(g, a, b)
<1>1. /\ h = [f \in Fields |-> h[f]]
      /\ \A f \in Fields \ {"index"} : h[f] = g[f]
      /\ h.index = [[g.index EXCEPT ![a] = g.index[b]] EXCEPT ![b] = g.index[a]]
  BY DEF Sound, WellTyped, Fields, Swap
<1> HIDE DEF h
<1>2. h.index \in [Live(g) -> Nat] /\ Live(h) = Live(g)
  BY <1>1 DEF Sound, WellTyped, Live
<1>3. /\ h.serial \in Nat /\ Live(h) \subseteq 0 .. (h.serial - 1)
      /\ h.label \in [Live(h) -> Labels]
  BY <1>1, <1>2 DEF Sound, WellTyped, Fields, Labels
<1>4. Sound(h)
  BY <1>1, <1>2, <1>3, Grown
<1> QED BY <1>4 DEF h

\* A look-up by position answers with a live workspace or with none
\* (workspaceAt).
LEMMA WorkspaceAtIsLive ==
  ASSUME NEW g, NEW i
  PROVE  WorkspaceAt(g, i) \in OptionalOf(Live(g))
BY DEF WorkspaceAt, OptionalOf

\* A failing scene transition is the one event that breaks what follows: see
\* the run v_transition_failure.
IInv == config \in Configs /\ Sound(group)

\* The constructor builds a sound group whose first workspace exists.
LEMMA ConstructedSound ==
  ASSUME NEW c \in Configs
  PROVE  Sound(Constructed(c)) /\ 0 \in Live(Constructed(c))
<1> DEFINE h == Constructed(c)
           n == Len(InitialLabels(c))
<1>1. n \in Nat /\ n >= 1 /\ \A i \in 1 .. n : InitialLabels(c)[i] \in Labels
  <2> DEFINE lead == IF c.emptyAbove THEN <<Anonymous>> ELSE <<>>
             named == lead \o Desired(c)
             count == IF c.minimum > Len(named) + 1 THEN c.minimum ELSE Len(named) + 1
             pad == [i \in 1 .. (count - Len(named)) |-> Anonymous]
  <2>1. CASE ~c.dynamic
    BY <2>1, ConfigTyped DEF InitialLabels
  <2>2. CASE c.dynamic
    <3>1. lead \in Seq(Labels) /\ Desired(c) \in Seq(Labels)
      <4>1. Desired(c) \in Seq(Names) /\ Anonymous \in Labels /\ Names \subseteq Labels
        BY ConfigTyped DEF Labels
      <4>2. lead \in Seq(Labels)
        BY <4>1
      <4>3. Desired(c) \in Seq(Labels)
        BY <4>1
      <4> QED BY <4>2, <4>3
    <3>2. named \in Seq(Labels)
      BY <3>1
    <3>3. count \in Nat /\ count >= Len(named) + 1
      BY <3>2, ConfigTyped
    <3>4. pad \in Seq(Labels) /\ Len(pad) = count - Len(named)
      BY <3>2, <3>3 DEF Labels
    <3>5. InitialLabels(c) = named \o pad
      BY <2>2 DEF InitialLabels
    <3> HIDE DEF lead, named, count, pad
    <3> QED BY <3>2, <3>3, <3>4, <3>5
  <2> QED BY <2>1, <2>2
<1>2. /\ h.index = [w \in 0 .. (n - 1) |-> w]
      /\ h.label = [w \in 0 .. (n - 1) |-> InitialLabels(c)[w + 1]]
      /\ h.home = [v \in Views |-> None] /\ h.launch = [l \in Launches |-> None]
      /\ h.dynamic = c.dynamic /\ h.active = None /\ h.previous = None
      /\ h.slide = NoSlide /\ h.gesture = FALSE /\ h.hold = NoHold /\ h.pending = FALSE
      /\ h.serial = n /\ h.wild = FALSE
      /\ h = [f \in Fields |-> h[f]]
  BY DEF Constructed, Fields
<1> HIDE DEF h, n
<1>3. Live(h) = 0 .. (n - 1)
  BY <1>2 DEF Live
<1>4. c.dynamic \in BOOLEAN
  BY ConstantAssumption DEF ConfigType
<1>5. WellTyped(h)
  <2>1. h.label \in [Live(h) -> Labels]
    <3>1. \A w \in 0 .. (n - 1) : w + 1 \in 1 .. n
      BY <1>1
    <3>2. \A w \in 0 .. (n - 1) : InitialLabels(c)[w + 1] \in Labels
      BY <1>1, <3>1 DEF n
    <3> QED BY <1>2, <1>3, <3>2
  <2>2. h.index \in [Live(h) -> Nat] /\ h.serial \in Nat /\ Live(h) \subseteq 0 .. (h.serial - 1)
    <3>1. n \in Nat /\ \A w \in 0 .. (n - 1) : w \in Nat
      BY <1>1 DEF n
    <3>2. h.index \in [0 .. (n - 1) -> Nat]
      BY <1>2, <3>1
    <3> QED BY <1>2, <1>3, <3>1, <3>2
  <2>3. None \in OptionalOf(Nat)
    BY DEF OptionalOf
  <2>4. /\ h.home \in [Views -> OptionalOf(Nat)] /\ h.launch \in [Launches -> OptionalOf(Nat)]
        /\ h.active \in OptionalOf(Nat) /\ h.previous \in OptionalOf(Nat)
    BY <1>2, <2>3
  <2>5. h.slide \in [base : OptionalOf(Nat), previous : OptionalOf(Nat),
                     next : OptionalOf(Nat), settling : BOOLEAN]
    <3>1. FALSE \in BOOLEAN
      OBVIOUS
    <3> QED BY <1>2, <2>3, <3>1 DEF NoSlide
  <2>6. /\ h.hold = [f \in {"owner", "order", "target", "phase"} |-> h.hold[f]]
        /\ h.hold.owner = None /\ h.hold.target \in OptionalOf(Nat) /\ h.hold.phase = None
    BY <1>2, <2>3 DEF NoHold
  <2>7. h.dynamic \in BOOLEAN /\ h.pending \in BOOLEAN /\ h.gesture \in BOOLEAN /\ h.wild \in BOOLEAN
    BY <1>2, <1>4
  <2> QED BY <1>2, <2>1, <2>2, <2>4, <2>5, <2>6, <2>7 DEF WellTyped, Labels
<1>6. PointsAtLive(h)
  BY <1>2 DEF PointsAtLive, NoSlide, OptionalOf
<1>7. Current(h)
  BY <1>2 DEF Current
<1> QED BY <1>1, <1>3, <1>5, <1>6, <1>7 DEF Sound, h

\* Mapping, moving and unmapping windows, the overview drop and the launches
\* preserve the invariant.
LEMMA UsersChange ==
  ASSUME "transition_failure" \notin Disturbances, IInv,
         \/ \E v \in Views, w \in Live(group) : MapView(v, w) \/ MoveView(v, w)
         \/ \E v \in Views : UnmapView(v)
         \/ \E v \in Views, i \in 0 .. Size(group) : DropBetween(v, i)
         \/ \E l \in Launches, w \in Live(group) : RecordLaunch(l, w)
         \/ \E l \in Launches, v \in Views, w \in Live(group) : PlaceLaunch(l, v, w)
         \/ \E l \in Launches : ExpireLaunch(l)
         \/ ReconcileDynamicWorkspaces
  PROVE  IInv'
<1> USE DEF IInv
<1>0. None \in OptionalOf(Live(group)) /\ Live(group) \subseteq OptionalOf(Live(group))
  BY DEF OptionalOf
<1>1. ASSUME NEW v \in Views, NEW w \in Live(group), MapView(v, w) \/ MoveView(v, w)
      PROVE  IInv'
  <2>1. Sound([group EXCEPT !.home[v] = w])
    BY <1>0, HomeSound
  <2> QED BY <1>1, <2>1, ReconcileSound DEF MapView, MoveView
<1>2. ASSUME NEW v \in Views, UnmapView(v)
      PROVE  IInv'
  <2>1. Sound([group EXCEPT !.home[v] = None])
    BY <1>0, HomeSound
  <2> QED BY <1>2, <2>1, ReconcileSound DEF UnmapView
<1>3. ASSUME NEW v \in Views, NEW i \in 0 .. Size(group), DropBetween(v, i)
      PROVE  IInv'
  <2> DEFINE g0 == Invalidate(group)
             g1 == InsertAt(g0, i, 1)
             g2 == ForgetRevisit(g1)
             g3 == [g2 EXCEPT !.home[v] = group.serial]
  <2>1. Sound(g0) /\ g0.hold = NoHold /\ g0.serial = group.serial
    BY InvalidateSound DEF Fields
  <2>2. i \in Nat /\ 1 \in Nat
    BY SizeIsNat
  <2> HIDE DEF g0
  <2>3. Sound(g1) /\ Live(g1) = Live(g0) \cup Fresh(g0, 1)
    BY <2>1, <2>2, InsertAtSound
  <2>4. group.serial \in Live(g1)
    <3>1. group.serial \in Nat
      BY DEF Sound, WellTyped
    <3> QED BY <2>1, <2>3, <3>1 DEF Fresh
  <2> HIDE DEF g1
  <2>5. Sound(g2) /\ group.serial \in OptionalOf(Live(g2))
    BY <2>3, <2>4, ForgetRevisitSound DEF OptionalOf
  <2> HIDE DEF g2
  <2>6. Sound(g3)
    BY <2>5, HomeSound
  <2> HIDE DEF g3
  <2>7. group' = Reconcile(g3, config) /\ config' = config
    BY <1>3 DEF DropBetween, g3, g2, g1, g0
  <2> QED BY <2>6, <2>7, ReconcileSound
<1>4. ASSUME NEW l \in Launches, NEW w \in Live(group), RecordLaunch(l, w)
      PROVE  IInv'
  BY <1>0, <1>4, LaunchSound DEF RecordLaunch
<1>5. ASSUME NEW l \in Launches, NEW v \in Views, NEW w \in Live(group), PlaceLaunch(l, v, w)
      PROVE  IInv'
  <2> DEFINE g0 == [group EXCEPT !.home[v] = w]
             g1 == Reconcile(g0, config)
             g2 == [g1 EXCEPT !.launch[l] = None]
  <2>1. Sound(g0)
    BY <1>0, HomeSound
  <2> HIDE DEF g0
  <2>2. Sound(g1) /\ None \in OptionalOf(Live(g1))
    BY <2>1, ReconcileSound DEF OptionalOf
  <2> HIDE DEF g1
  <2>3. Sound(g2)
    BY <2>2, LaunchSound
  <2> HIDE DEF g2
  <2>4. group' \in {g2, Reconcile(g2, config)} /\ config' = config
    BY <1>5 DEF PlaceLaunch, g2, g1, g0
  <2> QED BY <2>3, <2>4, ReconcileSound
<1>6. ASSUME NEW l \in Launches, ExpireLaunch(l)
      PROVE  IInv'
  <2>1. Sound([group EXCEPT !.launch[l] = None])
    BY <1>0, LaunchSound
  <2> QED BY <1>6, <2>1, ReconcileSound DEF ExpireLaunch
<1>7. CASE ReconcileDynamicWorkspaces
  BY <1>7, ReconcileSound DEF ReconcileDynamicWorkspaces
<1> QED BY <1>1, <1>2, <1>3, <1>4, <1>5, <1>6, <1>7

\* Switching, ext-workspace requests and moving a workspace preserve the
\* invariant, unless a scene transition fails after it took its hold.
LEMMA SelectionChanges ==
  ASSUME "transition_failure" \notin Disturbances, IInv,
         \/ \E w \in Live(group), animate \in BOOLEAN : Activate(w, animate)
         \/ SelectPrevious
         \/ Deactivate
         \/ CreateWorkspace
         \/ \E direction \in {-1, 1} : MoveActiveWorkspace(direction)
  PROVE  IInv'
<1> USE DEF IInv
<1>1. ASSUME NEW w \in Live(group), NEW animate \in BOOLEAN, Activate(w, animate)
      PROVE  IInv'
  BY <1>1, ActivationsSound DEF Activate
<1>2. CASE SelectPrevious
  <2>1. group.previous \in Live(group)
    BY <1>2 DEF SelectPrevious, Sound, PointsAtLive, OptionalOf
  <2> QED BY <1>2, <2>1, ActivationsSound DEF SelectPrevious
<1>3. CASE Deactivate
  <2> DEFINE fallback == IF WorkspaceAt(group, 0) = group.active
                         THEN WorkspaceAt(group, 1) ELSE WorkspaceAt(group, 0)
             h == [Invalidate(group) EXCEPT !.active = None]
  <2>1. fallback \in OptionalOf(Live(group))
    BY WorkspaceAtIsLive
  <2>2. /\ config' = config
        /\ \/ fallback # None /\ group' \in Activations(group, config, fallback, FALSE)
           \/ group' = h
    BY <1>3 DEF Deactivate
  <2>3. Sound(h)
    <3> DEFINE g0 == Invalidate(group)
    <3>1. Sound(g0) /\ g0.hold = NoHold
      BY InvalidateSound
    <3> HIDE DEF g0
    <3>2. /\ h = [f \in Fields |-> h[f]]
          /\ \A f \in Fields \ {"active"} : h[f] = g0[f]
          /\ h.active = None
      BY <3>1 DEF Sound, WellTyped, Fields, g0
    <3> HIDE DEF h
    <3>3. /\ \A f \in Inventory : h[f] = g0[f]
          /\ \A f \in Flags : h[f] \in BOOLEAN
          /\ h.slide = g0.slide /\ h.hold = g0.hold
          /\ h.active \in OptionalOf(Live(g0)) /\ h.previous \in OptionalOf(Live(g0))
      BY SMTT(30), <3>1, <3>2 DEF Sound, WellTyped, PointsAtLive, Fields, Flags, Inventory, OptionalOf
    <3> QED BY <3>1, <3>2, <3>3, SameInventory
  <2> HIDE DEF h, fallback
  <2>4. fallback # None => fallback \in Live(group)
    BY <2>1 DEF OptionalOf
  <2> QED BY <2>2, <2>3, <2>4, ActivationsSound
<1>4. CASE CreateWorkspace
  <2> DEFINE g0 == Invalidate(group)
             g1 == InsertAt(g0, Size(group), 1)
  <2>1. Sound(g0) /\ g0.hold = NoHold
    BY InvalidateSound
  <2> HIDE DEF g0
  <2>2. Size(group) \in Nat /\ 1 \in Nat
    BY SizeIsNat
  <2>3. Sound(g1)
    BY <2>1, <2>2, InsertAtSound
  <2> HIDE DEF g1
  <2>4. group' = ForgetRevisit(g1) /\ config' = config
    BY <1>4 DEF CreateWorkspace, g1, g0
  <2> QED BY <2>3, <2>4, ForgetRevisitSound
<1>5. ASSUME NEW direction \in {-1, 1}, MoveActiveWorkspace(direction)
      PROVE  IInv'
  <2> DEFINE g0 == Invalidate(group)
             g1 == SlideFinish(g0)
             target == WorkspaceAt(group, group.index[group.active] + direction)
             g2 == Swap(g1, group.active, target)
  <2>1. Sound(g0) /\ g0.hold = NoHold /\ Live(g0) = Live(group)
    BY InvalidateSound
  <2> HIDE DEF g0
  <2>2. Sound(g1) /\ g1.hold = NoHold /\ Live(g1) = Live(group)
    BY <2>1, SlideFinishSound DEF Fields
  <2> HIDE DEF g1
  <2>3. target \in OptionalOf(Live(group))
    BY WorkspaceAtIsLive
  <2>4. group.active # None /\ target # None
    BY <1>5 DEF MoveActiveWorkspace
  <2> HIDE DEF target
  <2>5. group.active \in Live(g1) /\ target \in Live(g1)
    BY <2>2, <2>3, <2>4 DEF Sound, PointsAtLive, OptionalOf
  <2>6. Sound(g2)
    BY <2>2, <2>5, SwapSound
  <2> HIDE DEF g2
  <2>7. group' = Reconcile(g2, config) /\ config' = config
    BY <1>5 DEF MoveActiveWorkspace, g2, target, g1, g0
  <2> QED BY <2>6, <2>7, ReconcileSound
<1> QED BY <1>1, <1>2, <1>3, <1>4, <1>5

\* A reconciliation never switches: m_active is what it was
\* (reconcileDynamic).
LEMMA ReconcileKeepsActive ==
  ASSUME NEW g, Sound(g), NEW c
  PROVE  Reconcile(g, c).active = g.active
<1> DEFINE Like(h) == h = [f \in Fields |-> h[f]] /\ h.active = g.active
<1>1. Like(g)
  BY DEF Sound, WellTyped
<1>2. ASSUME NEW h, Like(h), NEW x
      PROVE  Like([h EXCEPT !.pending = x]) /\ Like([h EXCEPT !.label = x])
  BY <1>2 DEF Fields
<1>3. ASSUME NEW h, Like(h) PROVE Like(DropUnwantedNames(h, c))
  BY SMTT(30), <1>3 DEF DropUnwantedNames, Fields
<1>4. ASSUME NEW h, Like(h) PROVE Like(InsertNames(h, c))
  BY ZenonT(60), <1>4 DEF InsertNames, Fields
<1>5. ASSUME NEW h, Like(h) PROVE Like(ClaimForNames(h, c))
  BY <1>5 DEF ClaimForNames, Fields
<1>6. ASSUME NEW h, Like(h) PROVE Like(ReconcileNames(h, c))
  BY <1>3, <1>4, <1>5, <1>6 DEF ReconcileNames
<1>7. ASSUME NEW h, Like(h), NEW x PROVE Like(Erase(h, x))
  BY <1>7 DEF Erase, Fields
<1>8. ASSUME NEW h, Like(h), NEW i, NEW n PROVE Like(InsertAt(h, i, n))
  BY <1>8 DEF InsertAt, Fields
<1>9. ASSUME NEW h, Like(h) PROVE Like(ForgetRevisit(h))
  BY <1>9 DEF ForgetRevisit, Fields
<1> HIDE DEF Like
<1>10. Like(Rebuild(g, c))
  <2> DEFINE g1 == ReconcileNames([g EXCEPT !.pending = FALSE], c)
             front == FrontKeeper(g1, c)
             g2 == Erase(g1, Pruned(g1, c))
             g3 == FillToMinimum(g2, c)
             g4 == AppendSentinel(g3, front)
             g5 == PrependSentinel(g4, c, front)
  <2>1. Like(g1)
    BY <1>1, <1>2, <1>6
  <2>2. Like(g2)
    BY <1>7, <2>1
  <2> HIDE DEF g1, g2, front
  <2>3. Like(g3)
    BY <1>8, <2>2 DEF FillToMinimum
  <2> HIDE DEF g3
  <2>4. Like(g4)
    BY <1>8, <2>3 DEF AppendSentinel
  <2> HIDE DEF g4
  <2>5. Like(g5)
    BY <1>8, <2>4 DEF PrependSentinel
  <2> HIDE DEF g5
  <2>6. Rebuild(g, c) = ForgetRevisit(g5)
    BY DEF Rebuild, g5, g4, g3, g2, front, g1
  <2> QED BY <1>9, <2>5, <2>6
<1>11. Like(Reconcile(g, c))
  BY <1>1, <1>2, <1>10 DEF Reconcile, Defer
<1> QED BY <1>11 DEF Like

\* A cancelled transition leaves some workspace active.
LEMMA CancelPairKeepsSelecting ==
  ASSUME NEW g, Sound(g), g.active # None, NEW c
  PROVE  CancelPair(g, c).active # None
<1> DEFINE h == FinishRequested(g)
<1>1. Sound(h) /\ h.active # None
  <2>1. None \notin Live(g)
    BY ConstantAssumption DEF Sound, WellTyped
  <2>2. ASSUME NEW w \in Live(g) PROVE SwitchTo(SlideFinish(g), w).active # None
    BY <2>1, SlideFinishSound, SwitchToSound
  <2>3. ASSUME NEW k, Sound(k), k.active # None PROVE Defer(k).active # None
    BY <2>3, DeferSound DEF Fields
  <2>4. ASSUME NEW w \in Live(g) PROVE Sound(SwitchTo(SlideFinish(g), w))
    BY SlideFinishSound, SwitchToSound
  <2>5. ASSUME NEW w PROVE ActivateSelection(g, w).active # None
    BY <2>2, <2>3, <2>4 DEF ActivateSelection
  <2> QED BY <2>5, FinishRequestedSound DEF FinishRequested
<1> HIDE DEF h
<1>2. Sound(Invalidate(h)) /\ Invalidate(h).active # None
  BY <1>1, InvalidateSound DEF Fields
<1>3. CancelPair(g, c) \in {Invalidate(h), Reconcile(Invalidate(h), c)}
  BY DEF CancelPair, ReleaseHold, h
<1> QED BY <1>2, <1>3, ReconcileKeepsActive

\* A running transition may change its phase (WorkspaceTransition::m_phase).
LEMMA PhaseSound ==
  ASSUME NEW g, Sound(g), g.hold # NoHold,
         NEW phase \in {"interactive", "preparing", "ending", "shown"}
  PROVE  Sound([g EXCEPT !.hold.phase = phase])
<1> DEFINE h == [g EXCEPT !.hold.phase = phase]
<1>1. /\ h = [f \in Fields |-> h[f]]
      /\ \A f \in Fields \ {"hold"} : h[f] = g[f]
      /\ h.hold = [g.hold EXCEPT !.phase = phase]
  BY DEF Sound, WellTyped, Fields
<1> HIDE DEF h
<1>2. /\ h.index = g.index /\ h.label = g.label /\ h.home = g.home /\ h.launch = g.launch
      /\ h.serial = g.serial /\ h.active = g.active /\ h.previous = g.previous
      /\ h.slide = g.slide /\ h.dynamic = g.dynamic /\ h.pending = g.pending
      /\ h.gesture = g.gesture /\ h.wild = g.wild /\ Live(h) = Live(g)
  BY <1>1 DEF Fields, Live
<1>3. /\ h.hold = [f \in {"owner", "order", "target", "phase"} |-> h.hold[f]]
      /\ h.hold.owner = g.hold.owner /\ h.hold.order = g.hold.order
      /\ h.hold.target = g.hold.target /\ h.hold.phase = phase
  BY <1>1 DEF Sound, WellTyped
<1>4. WellTyped(h)
  BY <1>1, <1>2, <1>3 DEF Sound, WellTyped, SlideActive
<1>5. PointsAtLive(h) /\ Current(h)
  BY <1>2, <1>3 DEF Sound, PointsAtLive, Current, SlideActive
<1> QED BY <1>4, <1>5 DEF Sound, h

\* A swipe begins between live neighbours of the active workspace, with no
\* hold (slideBegin).
LEMMA SlideBegunSound ==
  ASSUME NEW g, Sound(g), g.active # None, NEW before \in OptionalOf(Live(g)),
         NEW after \in OptionalOf(Live(g))
  PROVE  Sound([Invalidate(g) EXCEPT
                  !.gesture = TRUE,
                  !.slide = [base |-> g.active, previous |-> before,
                             next |-> after, settling |-> FALSE]])
<1> DEFINE g0 == Invalidate(g)
           slide == [base |-> g.active, previous |-> before, next |-> after, settling |-> FALSE]
           h == [g0 EXCEPT !.gesture = TRUE, !.slide = slide]
<1>1. Sound(g0) /\ g0.hold = NoHold /\ Live(g0) = Live(g)
  BY InvalidateSound
<1> HIDE DEF g0
<1>2. /\ h = [f \in Fields |-> h[f]]
      /\ \A f \in Fields \ {"gesture", "slide"} : h[f] = g0[f]
      /\ h.gesture \in BOOLEAN /\ h.slide = slide
  BY <1>1 DEF Sound, WellTyped, Fields
<1>3. slide \in [base : Live(g0), previous : OptionalOf(Live(g0)),
                 next : OptionalOf(Live(g0)), settling : BOOLEAN]
  <2>1. g.active \in Live(g0) /\ FALSE \in BOOLEAN
    BY <1>1 DEF Sound, PointsAtLive, OptionalOf
  <2> QED BY <1>1, <2>1
<1> HIDE DEF h, slide
<1>4. /\ \A f \in Inventory : h[f] = g0[f]
      /\ \A f \in Flags : h[f] \in BOOLEAN
      /\ h.hold = NoHold
      /\ h.active \in OptionalOf(Live(g0)) /\ h.previous \in OptionalOf(Live(g0))
  <2>1. \A f \in Flags \ {"gesture"} : g0[f] \in BOOLEAN
    BY <1>1 DEF Sound, WellTyped, Flags
  <2>2. \A f \in Flags : h[f] \in BOOLEAN
    BY <1>2, <2>1 DEF Fields, Flags
  <2>3. h.active = g0.active /\ h.previous = g0.previous /\ h.hold = g0.hold
        /\ \A f \in Inventory : h[f] = g0[f]
    BY <1>2 DEF Fields, Inventory
  <2> QED BY <1>1, <2>2, <2>3 DEF Sound, PointsAtLive
<1>5. Sound(h)
  BY <1>1, <1>2, <1>3, <1>4, SameInventory
<1> QED BY <1>5 DEF h, slide, g0

\* Swipes, the end of a slide and reloads preserve the invariant.
LEMMA SlidesChange ==
  ASSUME IInv,
         \/ GestureSlide
         \/ \E delta \in {-1, 0, 1} : GestureRelease(delta)
         \/ SlideLanded
         \/ SlideAbort
         \/ \E c \in Configs : ReloadInventory(c)
  PROVE  IInv'
<1> USE DEF IInv
<1>1. CASE GestureSlide
  <2> DEFINE beside(g, step) ==
               IF WorkspaceAt(group, group.index[group.active] + step) = None THEN None
               ELSE WorkspaceAt(g, g.index[g.active] + step)
             begun(g) ==
               [Invalidate(g) EXCEPT
                  !.gesture = TRUE,
                  !.slide = [base |-> g.active, previous |-> beside(g, -1),
                             next |-> beside(g, 1), settling |-> FALSE]]
             lost == [group EXCEPT !.wild = TRUE]
  <2>1. ASSUME NEW g, Sound(g), g.active # None
        PROVE  Sound(begun(g))
    <3>1. beside(g, -1) \in OptionalOf(Live(g)) /\ beside(g, 1) \in OptionalOf(Live(g))
      <4>1. None \in OptionalOf(Live(g))
        BY DEF OptionalOf
      <4> QED BY <4>1, WorkspaceAtIsLive
    <3> HIDE DEF beside
    <3> QED BY <2>1, <3>1, SlideBegunSound
  <2>2. Sound(lost)
    <3>1. /\ lost = [f \in Fields |-> lost[f]]
          /\ \A f \in Fields \ {"wild"} : lost[f] = group[f]
          /\ lost.wild \in BOOLEAN
      BY DEF Sound, WellTyped, Fields
    <3> HIDE DEF lost
    <3>2. /\ \A f \in Inventory : lost[f] = group[f]
          /\ \A f \in Flags : lost[f] \in BOOLEAN
          /\ lost.slide = group.slide /\ lost.hold = group.hold
          /\ lost.active \in OptionalOf(Live(group)) /\ lost.previous \in OptionalOf(Live(group))
      BY SMTT(30), <3>1 DEF Sound, WellTyped, PointsAtLive, Fields, Flags, Inventory
    <3> QED BY <3>1, <3>2, SameInventory
  <2>3. /\ config' = config
        /\ \/ group' = lost
           \/ group.active # None /\ group' = begun(group)
           \/ group.active # None /\ group' = begun(CancelPair(group, config))
    BY <1>1 DEF GestureSlide
  <2>4. Sound(CancelPair(group, config))
        /\ (group.active # None => CancelPair(group, config).active # None)
    BY CancelPairSound, CancelPairKeepsSelecting
  <2> HIDE DEF begun, lost
  <2> QED BY <2>1, <2>2, <2>3, <2>4
<1>2. ASSUME NEW delta \in {-1, 0, 1}, GestureRelease(delta)
      PROVE  IInv'
  BY <1>2, GestureEndSound DEF GestureRelease
<1>3. CASE SlideLanded
  <2>1. Sound(SlideFinish(group))
    BY SlideFinishSound
  <2> QED BY <1>3, <2>1, ReconcileSound DEF SlideLanded
<1>4. CASE SlideAbort
  <2>1. PICK g \in GestureEnd(group, config, 0) : group' = SlideFinish(g) /\ config' = config
    BY <1>4 DEF SlideAbort
  <2>2. Sound(g)
    BY GestureEndSound
  <2> QED BY <2>1, <2>2, SlideFinishSound
<1>5. ASSUME NEW c \in Configs, ReloadInventory(c)
      PROVE  IInv'
  <2>1. PICK g \in GestureEnd(group, c, 0) : group' = ReconcileInventory(g, c) /\ config' = c
    BY <1>5 DEF ReloadInventory
  <2>2. Sound(g)
    BY GestureEndSound
  <2> QED BY <2>1, <2>2, ReconcileInventorySound
<1> QED BY <1>1, <1>2, <1>3, <1>4, <1>5

\* Scene presentations and transitions preserve the invariant from begin to
\* end.
LEMMA PresentationsChange ==
  ASSUME IInv,
         \/ PresentationBegin
         \/ \E w \in Live(group) : PresentationCommit(w)
         \/ PresentationCancel
         \/ \E w \in Live(group) : PairBegin(w)
         \/ \E commit \in BOOLEAN : PairSettle(commit)
         \/ PairLease
         \/ PairEnd
  PROVE  IInv'
<1> USE DEF IInv
<1>1. CASE PresentationBegin
  <2>1. None \in OptionalOf(Live(group))
    BY DEF OptionalOf
  <2> QED BY <1>1, <2>1, TakeHoldSound DEF PresentationBegin
<1>2. ASSUME NEW w \in Live(group), PresentationCommit(w)
      PROVE  IInv'
  <2>1. Sound(Defer(group))
    BY DeferSound
  <2>2. group' \in {ReleaseHold(Defer(group), config), SwitchNow(group, config, w)}
        /\ config' = config
    BY <1>2 DEF PresentationCommit
  <2> QED BY <2>1, <2>2, ReleaseHoldSound, SwitchNowSound
<1>3. CASE PresentationCancel
  BY <1>3, ReleaseHoldSound DEF PresentationCancel
<1>4. ASSUME NEW w \in Live(group), PairBegin(w)
      PROVE  IInv'
  <2> DEFINE g1 == IF PairActive(group) THEN CancelPair(group, config) ELSE group
  <2>1. Sound(g1)
    BY CancelPairSound
  <2>2. MayHold(g1) /\ w \in Live(g1) /\ config' = config
        /\ group' = TakeHold(g1, "pair", w, "interactive")
    BY <1>4 DEF PairBegin
  <2> HIDE DEF g1
  <2>3. w \in OptionalOf(Live(g1))
    BY <2>2 DEF OptionalOf
  <2> QED BY <2>1, <2>2, <2>3, TakeHoldSound
<1>5. ASSUME group.hold # NoHold
      PROVE  /\ Sound([group EXCEPT !.hold.phase = "preparing"])
             /\ Sound([group EXCEPT !.hold.phase = "ending"])
             /\ Sound([ActivateSelection(group, group.hold.target) EXCEPT !.hold.phase = "ending"])
  <2> DEFINE h == ActivateSelection(group, group.hold.target)
  <2>1. Sound(h) /\ h.hold # NoHold
    BY <1>5, ActivateSelectionSound
  <2> HIDE DEF h
  <2>2. Sound([h EXCEPT !.hold.phase = "ending"])
    BY <2>1, PhaseSound
  <2> QED BY <1>5, <2>2, PhaseSound DEF h
<1>6. ASSUME NEW commit \in BOOLEAN, PairSettle(commit)
      PROVE  IInv'
  <2>1. group.hold # NoHold
    BY <1>6, ConstantAssumption DEF PairSettle, NoHold
  <2> QED BY <1>5, <1>6, <2>1 DEF PairSettle
<1>7. CASE PairLease
  <2>1. group.hold # NoHold
    BY <1>7, ConstantAssumption DEF PairLease, NoHold
  <2> QED BY <1>5, <1>7, <2>1 DEF PairLease
<1>8. CASE PairEnd
  BY <1>8, CancelPairSound DEF PairEnd
<1> QED BY <1>1, <1>2, <1>3, <1>4, <1>6, <1>7, <1>8

\* The inductive invariant: whatever the outputs, windows, launches and
\* configurations, every handler of the group keeps it sound, unless a scene
\* transition fails after it took its hold.
THEOREM Invariance ==
  ASSUME "transition_failure" \notin Disturbances
  PROVE  Spec => []IInv
<1>1. Init => IInv
  BY ConstructedSound, SwitchNowSound DEF Init, IInv
<1>2. IInv /\ [Next]_vars => IInv'
  <2> SUFFICES ASSUME IInv, [Next]_vars PROVE IInv'
    OBVIOUS
  <2>1. CASE Next
    BY <2>1, UsersChange, SelectionChanges, SlidesChange, PresentationsChange DEF Next
  <2>2. CASE UNCHANGED vars
    BY <2>2 DEF IInv, vars
  <2> QED BY <2>1, <2>2
<1> QED BY <1>1, <1>2, PTL DEF Spec

\* The state keeps its shape for every instance: ids are serial numbers
\* already handed out, a slide without base has no neighbours.
THEOREM TypeCorrect ==
  ASSUME "transition_failure" \notin Disturbances
  PROVE  Spec => []TypeOK
<1>1. IInv => TypeOK
  BY DEF IInv, Sound, TypeOK
<1> QED BY <1>1, Invariance, PTL

\* For every instance no handler leaves m_active, m_previous, a slide, a view
\* or a launch anchor pointing at a workspace that is gone.
THEOREM NothingDangles ==
  ASSUME "transition_failure" \notin Disturbances
  PROVE  Spec => []NoDangling
<1>1. IInv => NoDangling
  BY DEF IInv, Sound, NoDangling
<1> QED BY <1>1, Invariance, PTL

\* For every instance a presentation that holds the inventory sees the live
\* identities in their live order, and no slide runs under it.
THEOREM HoldStaysCurrent ==
  ASSUME "transition_failure" \notin Disturbances
  PROVE  Spec => []HoldIsCurrent
<1>1. IInv => HoldIsCurrent
  BY DEF IInv, Sound, HoldIsCurrent
<1> QED BY <1>1, Invariance, PTL

-----------------------------------------------------------------------------
(* Counting: the position of an element by a key.                          *)

\* How many members of S come before w by the key f.
Rank(S, f, w) == Cardinality({x \in S : f[x] < f[w]})

OneToOne(S, f) == \A x, w \in S : f[x] = f[w] => x = w

\* Positions that are all different and below the size leave out none
\* (Workspace::m_index after a renumbering).
LEMMA Packed ==
  ASSUME NEW S, IsFiniteSet(S), NEW f \in [S -> 0 .. (Cardinality(S) - 1)], OneToOne(S, f)
  PROVE  {f[w] : w \in S} = 0 .. (Cardinality(S) - 1)
<1> DEFINE n == Cardinality(S)
           T == 0 .. (n - 1)
<1>1. n \in Nat
  BY FS_CardinalityType
<1>2. IsFiniteSet(T) /\ Cardinality(T) = n
  BY <1>1, FS_Interval
<1>3. f \in Injection(S, T)
  BY DEF Injection, IsInjective, OneToOne
<1>4. f \in Surjection(S, T)
  BY <1>2, <1>3, FS_Injection
<1> QED BY <1>4 DEF Surjection

\* Sets of which one is a part of the other.
LEMMA PartIsSmaller ==
  ASSUME NEW T, IsFiniteSet(T), NEW S \in SUBSET T
  PROVE  /\ IsFiniteSet(S) /\ Cardinality(S) \in Nat /\ Cardinality(S) <= Cardinality(T)
         /\ S # T => Cardinality(S) < Cardinality(T)
BY FS_Subset, FS_CardinalityType

\* Ranks by a key that tells the members apart are positions without gaps,
\* in the order of the key (the loop that assigns m_index).
LEMMA Ranking ==
  ASSUME NEW S, IsFiniteSet(S), NEW f \in [S -> Int], OneToOne(S, f)
  PROVE  /\ \A w \in S : Rank(S, f, w) \in 0 .. (Cardinality(S) - 1)
         /\ \A x, w \in S : Rank(S, f, x) = Rank(S, f, w) => x = w
         /\ \A x, w \in S : f[x] < f[w] <=> Rank(S, f, x) < Rank(S, f, w)
<1> DEFINE below(w) == {x \in S : f[x] < f[w]}
<1>1. ASSUME NEW w \in S
      PROVE  Cardinality(below(w)) \in Nat /\ Cardinality(below(w)) < Cardinality(S)
  <2>1. below(w) \in SUBSET S /\ w \notin below(w)
    OBVIOUS
  <2> HIDE DEF below
  <2> QED BY <2>1, PartIsSmaller
<1>2. ASSUME NEW x \in S, NEW w \in S, f[x] < f[w]
      PROVE  Cardinality(below(x)) < Cardinality(below(w))
  <2>1. below(x) \in SUBSET below(w)
    BY <1>2
  <2>2. x \in below(w) /\ x \notin below(x)
    BY <1>2
  <2>3. below(w) \in SUBSET S
    OBVIOUS
  <2> HIDE DEF below
  <2> QED BY <2>1, <2>2, <2>3, PartIsSmaller
<1>3. \A w \in S : Rank(S, f, w) = Cardinality(below(w))
  BY DEF Rank
<1>4. Cardinality(S) \in Nat
  BY FS_CardinalityType
<1> HIDE DEF below
<1>5. \A w \in S : Rank(S, f, w) \in 0 .. (Cardinality(S) - 1)
  BY <1>1, <1>3, <1>4
<1>6. \A x, w \in S : f[x] < f[w] => Rank(S, f, x) < Rank(S, f, w)
  BY <1>2, <1>3
<1>7. \A x, w \in S : f[x] < f[w] \/ f[x] = f[w] \/ f[w] < f[x]
  OBVIOUS
<1>8. \A x, w \in S : x # w => f[x] < f[w] \/ f[w] < f[x]
  BY <1>7 DEF OneToOne
<1>9. \A x, w \in S : Rank(S, f, x) = Rank(S, f, w) => x = w
  BY <1>5, <1>6, <1>8
<1>10. ASSUME NEW x \in S, NEW w \in S, Rank(S, f, x) < Rank(S, f, w)
       PROVE  f[x] < f[w]
  <2>1. x # w
    BY <1>5, <1>10
  <2>2. ~(f[w] < f[x])
    BY <1>5, <1>6, <1>10
  <2> QED BY <2>1, <2>2, <1>8
<1> QED BY <1>5, <1>6, <1>9, <1>10

\* Of the members with a rank below k there are k, or as many as there are
\* members (a loop that stops after k).
LEMMA FirstRanked ==
  ASSUME NEW S, IsFiniteSet(S), NEW f \in [S -> Int], OneToOne(S, f), NEW k \in Nat
  PROVE  LET some == {w \in S : Rank(S, f, w) < k}
         IN  /\ IsFiniteSet(some) /\ Cardinality(some) \in Nat
             /\ Cardinality(some) <= k /\ Cardinality(some) <= Cardinality(S)
             /\ some # S => Cardinality(some) = k
<1> DEFINE some == {w \in S : Rank(S, f, w) < k}
           n    == Cardinality(S)
<1>1. n \in Nat /\ IsFiniteSet(some) /\ Cardinality(some) \in Nat /\ Cardinality(some) <= n
  <2>1. some \in SUBSET S
    OBVIOUS
  <2> HIDE DEF some
  <2> QED BY <2>1, PartIsSmaller, FS_CardinalityType
<1> DEFINE r == [w \in S |-> Rank(S, f, w)]
<1>2. r \in [S -> 0 .. (n - 1)] /\ OneToOne(S, r)
  BY Ranking DEF OneToOne
<1>3. {r[w] : w \in S} = 0 .. (n - 1)
  <2> HIDE DEF r
  <2> QED BY <1>2, Packed
<1>4. Cardinality(some) <= k
  <2> DEFINE q == [w \in some |-> Rank(S, f, w)]
             T == 0 .. (k - 1)
  <2>1. q \in [some -> T]
    BY Ranking, <1>1
  <2>2. q \in Injection(some, T)
    BY <2>1, Ranking DEF Injection, IsInjective
  <2>3. IsFiniteSet(T) /\ Cardinality(T) = k
    BY FS_Interval
  <2> HIDE DEF q, T, some
  <2> QED BY <2>2, <2>3, FS_Injection
<1>5. ASSUME some # S PROVE Cardinality(some) = k
  <2>1. PICK w \in S : ~(Rank(S, f, w) < k)
    BY <1>5
  <2>2. k <= n - 1
    BY <2>1, <1>1, Ranking
  <2> DEFINE T == 0 .. (k - 1)
             q == [x \in some |-> Rank(S, f, x)]
  <2>3. q \in [some -> T]
    BY Ranking, <1>1
  <2>4. \A t \in T : \E x \in some : q[x] = t
    <3> SUFFICES ASSUME NEW t \in T PROVE \E x \in some : q[x] = t
      OBVIOUS
    <3>1. t \in 0 .. (n - 1)
      BY <2>2, <1>1
    <3>2. PICK x \in S : r[x] = t
      BY <3>1, <1>3
    <3>3. Rank(S, f, x) = t /\ t < k
      BY <3>2
    <3> QED BY <3>3
  <2>5. q \in Surjection(some, T)
    BY <2>3, <2>4 DEF Surjection
  <2>6. IsFiniteSet(T) /\ Cardinality(T) = k
    BY FS_Interval
  <2> HIDE DEF q, T, some
  <2>7. Cardinality(T) <= Cardinality(some)
    BY <2>5, <1>1, FS_Surjection
  <2> QED BY <2>6, <2>7, <1>4, <1>1
<1> QED BY <1>1, <1>4, <1>5

-----------------------------------------------------------------------------
(* An inventory in order.                                                  *)

\* Workspaces stand at different places, without gaps.
Ordered(g) ==
  /\ \A w \in Live(g) : g.index[w] \in 0 .. (Size(g) - 1)
  /\ OneToOne(Live(g), g.index)

\* No two workspaces carry the same name.
Distinct(g) ==
  \A w, x \in Live(g) : g.label[w] = g.label[x] /\ g.label[w] # Anonymous => w = x

Dense(g) == Ordered(g) /\ Size(g) \in 1 .. MaxWorkspaces /\ Distinct(g)

\* Only positions and names decide.
LEMMA SameOrder ==
  ASSUME NEW g, NEW h, h.index = g.index, h.label = g.label, Dense(g)
  PROVE  Dense(h)
BY DEF Dense, Ordered, Distinct, Size, Live

\* A disjoint union is as large as its parts.
LEMMA AddUp ==
  ASSUME NEW S, IsFiniteSet(S), NEW T, IsFiniteSet(T), S \cap T = {}
  PROVE  /\ IsFiniteSet(S \cup T) /\ Cardinality(S) \in Nat /\ Cardinality(T) \in Nat
         /\ Cardinality(S \cup T) = Cardinality(S) + Cardinality(T)
<1>1. Cardinality(S \cap T) = 0
  BY FS_EmptySet
<1>2. Cardinality(S) \in Nat /\ Cardinality(T) \in Nat
  BY FS_CardinalityType
<1>3. IsFiniteSet(S \cup T) /\ Cardinality(S \cup T) = Cardinality(S) + Cardinality(T) - Cardinality(S \cap T)
  BY FS_Union
<1> QED BY <1>1, <1>2, <1>3

\* A run of n numbers.
LEMMA Span ==
  ASSUME NEW a \in Nat, NEW n \in Nat
  PROVE  IsFiniteSet(a .. (a + n - 1)) /\ Cardinality(a .. (a + n - 1)) = n
<1> DEFINE b == a + n - 1
<1>1. a \in Int /\ b \in Int
  OBVIOUS
<1>2. IsFiniteSet(a .. b) /\ Cardinality(a .. b) = IF a > b THEN 0 ELSE b - a + 1
  <2> HIDE DEF b
  <2> QED BY <1>1, FS_Interval
<1>3. (IF a > b THEN 0 ELSE b - a + 1) = n
  OBVIOUS
<1> QED BY <1>2, <1>3

\* What an insertion does, field by field (insertDynamicWorkspace).
LEMMA InsertAtFields ==
  ASSUME NEW g, Sound(g), NEW i \in Nat, NEW n \in Nat
  PROVE  LET h == InsertAt(g, i, n)
         IN  /\ \A f \in Fields \ {"index", "label", "serial"} : h[f] = g[f]
             /\ Live(h) = Live(g) \cup Fresh(g, n) /\ Live(g) \cap Fresh(g, n) = {}
             /\ Size(h) = Size(g) + n
             /\ \A w \in Live(g) : /\ h.label[w] = g.label[w]
                                   /\ h.index[w] = IF g.index[w] >= i THEN g.index[w] + n ELSE g.index[w]
             /\ \A w \in Fresh(g, n) : h.label[w] = Anonymous /\ h.index[w] = i + (w - g.serial)
<1> DEFINE h == InsertAt(g, i, n)
<1>1. /\ \A f \in Fields \ {"index", "label", "serial"} : h[f] = g[f]
      /\ h.index = [w \in Live(g) \cup Fresh(g, n) |->
                      IF w \in Live(g)
                      THEN IF g.index[w] >= i THEN g.index[w] + n ELSE g.index[w]
                      ELSE i + (w - g.serial)]
      /\ h.label = [w \in Live(g) \cup Fresh(g, n) |->
                      IF w \in Live(g) THEN g.label[w] ELSE Anonymous]
  BY DEF Sound, WellTyped, Fields, InsertAt
<1> HIDE DEF h
<1>2. Live(h) = Live(g) \cup Fresh(g, n)
  BY <1>1 DEF Live
<1>3. Live(g) \cap Fresh(g, n) = {}
  BY DEF Fresh, Sound, WellTyped
<1>4. IsFiniteSet(Fresh(g, n)) /\ Cardinality(Fresh(g, n)) = n
  <2>1. g.serial \in Nat
    BY DEF Sound, WellTyped
  <2> QED BY <2>1, Span DEF Fresh
<1>5. Size(h) = Size(g) + n
  BY <1>2, <1>3, <1>4, SizeIsNat, AddUp DEF Size
<1>6. \A w \in Fresh(g, n) : w \notin Live(g)
  BY <1>3
<1> QED BY <1>1, <1>2, <1>3, <1>5, <1>6 DEF h

\* New anonymous workspaces find their place at any position, while there is room.
LEMMA InsertAtDense ==
  ASSUME NEW g, Sound(g), Dense(g), NEW i \in 0 .. Size(g), NEW n \in Nat,
         Size(g) + n <= MaxWorkspaces
  PROVE  Dense(InsertAt(g, i, n))
<1> DEFINE h == InsertAt(g, i, n)
<1>1. Size(g) \in Nat /\ i \in Nat /\ MaxWorkspaces \in Nat
  BY SizeIsNat, ConstantAssumption
<1>2. /\ Live(h) = Live(g) \cup Fresh(g, n) /\ Live(g) \cap Fresh(g, n) = {}
      /\ Size(h) = Size(g) + n
      /\ \A w \in Live(g) : /\ h.label[w] = g.label[w]
                            /\ h.index[w] = IF g.index[w] >= i THEN g.index[w] + n ELSE g.index[w]
      /\ \A w \in Fresh(g, n) : h.label[w] = Anonymous /\ h.index[w] = i + (w - g.serial)
  BY <1>1, InsertAtFields
<1> HIDE DEF h
<1>3. \A w \in Fresh(g, n) : w - g.serial \in 0 .. (n - 1) /\ w \in Int /\ g.serial \in Int
  BY DEF Fresh, Sound, WellTyped
<1>4. \A w \in Live(g) : g.index[w] \in 0 .. (Size(g) - 1)
  BY DEF Dense, Ordered
<1>5. \A w \in Live(h) : h.index[w] \in 0 .. (Size(h) - 1)
  BY <1>1, <1>2, <1>3, <1>4
<1>6. OneToOne(Live(h), h.index)
  <2> SUFFICES ASSUME NEW x \in Live(h), NEW w \in Live(h), h.index[x] = h.index[w] PROVE x = w
    BY DEF OneToOne
  <2>1. CASE x \in Live(g) /\ w \in Live(g)
    <3>1. g.index[x] = g.index[w]
      BY <1>1, <1>2, <1>4, <2>1
    <3> QED BY <2>1, <3>1 DEF Dense, Ordered, OneToOne
  <2>2. CASE x \in Fresh(g, n) /\ w \in Fresh(g, n)
    BY <1>1, <1>2, <1>3, <2>2
  <2>3. CASE x \in Live(g) /\ w \in Fresh(g, n)
    BY <1>1, <1>2, <1>3, <1>4, <2>3
  <2>4. CASE x \in Fresh(g, n) /\ w \in Live(g)
    BY <1>1, <1>2, <1>3, <1>4, <2>4
  <2> QED BY <1>2, <2>1, <2>2, <2>3, <2>4
<1>7. Distinct(h)
  BY <1>2 DEF Dense, Distinct
<1>8. Size(h) \in 1 .. MaxWorkspaces
  BY <1>1, <1>2 DEF Dense
<1> QED BY <1>5, <1>6, <1>7, <1>8 DEF Dense, Ordered, h

\* Erasing closes the ranks and keeps the order (the erase loop of
\* reconcileDynamic and the renumbering after it).
LEMMA EraseDense ==
  ASSUME NEW g, Sound(g), Dense(g), NEW dropped \in SUBSET Live(g), dropped # Live(g)
  PROVE  LET h == Erase(g, dropped)
         IN  /\ \A f \in Fields \ {"index", "label", "previous", "launch"} : h[f] = g[f]
             /\ h.previous \in {g.previous, None}
             /\ Live(h) = Live(g) \ dropped
             /\ Size(h) = Size(g) - Cardinality(dropped)
             /\ \A w \in Live(h) : h.label[w] = g.label[w]
             /\ \A l \in Launches : h.launch[l] = IF g.launch[l] \in dropped THEN None ELSE g.launch[l]
             /\ \A x, w \in Live(h) : g.index[x] < g.index[w] <=> h.index[x] < h.index[w]
             /\ Dense(h)
<1> DEFINE h == Erase(g, dropped)
           kept == Live(g) \ dropped
           f == [w \in kept |-> g.index[w]]
<1>1. /\ \A x \in Fields \ {"index", "label", "previous", "launch"} : h[x] = g[x]
      /\ h.previous \in {g.previous, None}
      /\ h.index = [w \in kept |-> Cardinality({x \in kept : g.index[x] < g.index[w]})]
      /\ h.label = [w \in kept |-> g.label[w]]
      /\ h.launch = [l \in Launches |-> IF g.launch[l] \in dropped THEN None ELSE g.launch[l]]
  BY DEF Sound, WellTyped, Fields, Erase
<1> HIDE DEF h
<1>2. Live(h) = kept
  BY <1>1 DEF Live
<1>3. IsFiniteSet(kept) /\ IsFiniteSet(dropped) /\ kept \cap dropped = {} /\ kept \cup dropped = Live(g)
  BY SizeIsNat, PartIsSmaller
<1>4. Size(g) = Size(h) + Cardinality(dropped) /\ Size(h) \in Nat /\ Cardinality(dropped) \in Nat
  BY <1>2, <1>3, AddUp DEF Size
<1>5. f \in [kept -> Int] /\ OneToOne(kept, f)
  <2>1. f \in [kept -> Int]
    BY DEF Sound, WellTyped
  <2> QED BY <2>1 DEF Dense, Ordered, OneToOne
<1>6. \A w \in kept : h.index[w] = Rank(kept, f, w)
  <2> SUFFICES ASSUME NEW w \in kept PROVE h.index[w] = Rank(kept, f, w)
    OBVIOUS
  <2>1. {x \in kept : g.index[x] < g.index[w]} = {x \in kept : f[x] < f[w]}
    OBVIOUS
  <2>2. h.index[w] = Cardinality({x \in kept : g.index[x] < g.index[w]})
    BY <1>1
  <2> QED BY <2>1, <2>2 DEF Rank
<1>7. /\ \A w \in kept : h.index[w] \in 0 .. (Size(h) - 1)
      /\ OneToOne(kept, h.index)
      /\ \A x, w \in kept : f[x] < f[w] <=> h.index[x] < h.index[w]
  <2> HIDE DEF f, kept
  <2> QED BY <1>2, <1>3, <1>5, <1>6, Ranking DEF OneToOne, Size
<1>8. Size(h) \in 1 .. MaxWorkspaces
  <2>1. kept # {} /\ MaxWorkspaces \in Nat
    BY ConstantAssumption
  <2>2. Size(h) # 0
    BY <1>2, <1>3, <2>1, FS_EmptySet DEF Size
  <2> QED BY <1>4, <2>1, <2>2 DEF Dense
<1>9. Distinct(h)
  BY <1>1, <1>2 DEF Dense, Distinct
<1>10. Dense(h)
  BY <1>2, <1>7, <1>8, <1>9 DEF Dense, Ordered
<1>11. \A x, w \in Live(h) : g.index[x] < g.index[w] <=> h.index[x] < h.index[w]
  BY <1>2, <1>7
<1>12. Size(h) = Size(g) - Cardinality(dropped)
  BY <1>4
<1> QED BY <1>1, <1>2, <1>10, <1>11, <1>12 DEF h

-----------------------------------------------------------------------------
(* What a reconciliation leaves alone.                                     *)

\* The names a configuration keeps for a dynamic inventory.
Wanted(c) == {Desired(c)[i] : i \in DOMAIN Desired(c)}

\* The fields no reconciliation touches.
Selection == {"home", "active", "dynamic", "slide", "gesture", "hold", "wild"}

\* From g to h the inventory was put in order and nothing was lost: views stay
\* at home, a launch keeps an anonymous workspace anonymous, and a workspace
\* whose name stays declared keeps its identity.
Repaired(g, h, c) ==
  /\ Sound(h) /\ Dense(h)
  /\ \A f \in Selection : h[f] = g[f]
  /\ h.previous \in {g.previous, None}
  /\ \A l \in Launches : h.launch[l] \in {g.launch[l], None}
  /\ \A l \in Launches : g.launch[l] # None /\ g.label[g.launch[l]] = Anonymous =>
       h.launch[l] = g.launch[l] /\ h.label[g.launch[l]] = Anonymous
  /\ \A w \in Live(g) :
       g.label[w] # Anonymous /\ (c.dynamic => g.label[w] \in Wanted(c)) =>
         w \in Live(h) /\ h.label[w] = g.label[w]

\* One repair after another is a repair.
LEMMA RepairedTwice ==
  ASSUME NEW g, NEW h, NEW k, NEW c, Repaired(g, h, c), Repaired(h, k, c)
  PROVE  Repaired(g, k, c)
<1>1. \A f \in Selection : k[f] = g[f]
  BY DEF Repaired
<1>2. k.previous \in {g.previous, None}
  BY DEF Repaired
<1>3. \A l \in Launches : k.launch[l] \in {g.launch[l], None}
  BY DEF Repaired
<1>4. \A l \in Launches : g.launch[l] # None /\ g.label[g.launch[l]] = Anonymous =>
       k.launch[l] = g.launch[l] /\ k.label[g.launch[l]] = Anonymous
  BY DEF Repaired
<1>5. \A w \in Live(g) :
       g.label[w] # Anonymous /\ (c.dynamic => g.label[w] \in Wanted(c)) =>
         w \in Live(k) /\ k.label[w] = g.label[w]
  BY DEF Repaired
<1> QED BY <1>1, <1>2, <1>3, <1>4, <1>5 DEF Repaired

\* Nothing to do repairs nothing.
LEMMA RepairedAlready ==
  ASSUME NEW g, Sound(g), Dense(g), NEW c
  PROVE  Repaired(g, g, c)
BY DEF Repaired

\* A change that keeps every workspace, its users and every name repairs, if
\* what results is sound and in order.
LEMMA KeepsAll ==
  ASSUME NEW g, Sound(g), NEW h, Sound(h), Dense(h), NEW c,
         \A f \in Selection \cup {"launch", "previous"} : h[f] = g[f],
         Live(g) \subseteq Live(h), \A w \in Live(g) : h.label[w] = g.label[w]
  PROVE  Repaired(g, h, c)
<1>1. \A f \in Selection : h[f] = g[f]
  OBVIOUS
<1>2. h.launch = g.launch /\ h.previous = g.previous
  OBVIOUS
<1>3. \A l \in Launches : g.launch[l] # None => g.launch[l] \in Live(g)
  BY DEF Sound, PointsAtLive, OptionalOf
<1> QED BY <1>1, <1>2, <1>3 DEF Repaired

\* Names come and go while the positions stay: the pending flag, the names
\* that are dropped and those that are claimed.
LEMMA RenamedDense ==
  ASSUME NEW g, Sound(g), Dense(g), NEW label \in [Live(g) -> Labels],
         \A w, x \in Live(g) : label[w] = label[x] /\ label[w] # Anonymous => w = x
  PROVE  Dense([g EXCEPT !.label = label])
<1> DEFINE h == [g EXCEPT !.label = label]
<1>1. h.index = g.index /\ h.label = label
  BY DEF Sound, WellTyped, Fields
<1> HIDE DEF h
<1>2. Live(h) = Live(g) /\ Size(h) = Size(g)
  BY <1>1 DEF Live, Size
<1> QED BY <1>1, <1>2 DEF Dense, Ordered, Distinct, h

\* A new labelling repairs, if it leaves the anonymous workspaces of launches
\* and the declared names as they are.
LEMMA RenamedRepaired ==
  ASSUME NEW g, Sound(g), Dense(g), g.hold = NoHold, NEW c,
         NEW label \in [Live(g) -> Labels],
         \A w, x \in Live(g) : label[w] = label[x] /\ label[w] # Anonymous => w = x,
         \A w \in Live(g) : Reserved(g, w) /\ g.label[w] = Anonymous => label[w] = Anonymous,
         \A w \in Live(g) : g.label[w] # Anonymous /\ (c.dynamic => g.label[w] \in Wanted(c)) =>
           label[w] = g.label[w]
  PROVE  Repaired(g, [g EXCEPT !.label = label], c)
<1> DEFINE h == [g EXCEPT !.label = label]
<1>1. Sound(h) /\ Dense(h)
  BY Relabelled, RenamedDense
<1>2. /\ \A f \in Fields \ {"label"} : h[f] = g[f]
      /\ h.label = label
  BY DEF Sound, WellTyped, Fields
<1> HIDE DEF h
<1>3. /\ \A f \in Selection : h[f] = g[f]
      /\ h.previous = g.previous /\ h.launch = g.launch
  BY <1>2 DEF Fields, Selection
<1>4. Live(h) = Live(g)
  BY <1>2 DEF Fields, Live
<1>5. \A l \in Launches : g.launch[l] # None => g.launch[l] \in Live(g) /\ Reserved(g, g.launch[l])
  BY DEF Sound, PointsAtLive, OptionalOf, Reserved
<1>6. \A l \in Launches : g.launch[l] # None /\ g.label[g.launch[l]] = Anonymous =>
         h.label[g.launch[l]] = Anonymous
  BY <1>2, <1>5
<1> HIDE DEF Repaired
<1>7. Repaired(g, h, c)
  BY <1>1, <1>2, <1>3, <1>4, <1>6 DEF Repaired
<1> QED BY <1>7 DEF h

-----------------------------------------------------------------------------
(* The names of a reload.                                                  *)

\* A name that is not declared any more is dropped; the others stay where they
\* are (reconcileDynamicNames, first loop).
LEMMA DropUnwantedNamesRepairs ==
  ASSUME NEW g, Sound(g), Dense(g), g.hold = NoHold, NEW c, c.dynamic
  PROVE  Repaired(g, DropUnwantedNames(g, c), c)
<1> DEFINE first(w) == \A x \in Live(g) : g.label[x] = g.label[w] => g.index[w] <= g.index[x]
           label == [w \in Live(g) |->
                       IF g.label[w] \in Wanted(c) /\ first(w) THEN g.label[w] ELSE Anonymous]
<1>1. label \in [Live(g) -> Labels]
  BY DEF Sound, WellTyped, Labels
<1>2. \A w, x \in Live(g) : label[w] = label[x] /\ label[w] # Anonymous => w = x
  BY DEF Dense, Distinct
<1>3. ASSUME NEW w \in Live(g), g.label[w] # Anonymous, g.label[w] \in Wanted(c)
      PROVE  label[w] = g.label[w]
  <2>1. g.index[w] \in Nat
    BY DEF Sound, WellTyped
  <2>2. first(w)
    BY <1>3, <2>1 DEF Dense, Distinct
  <2> QED BY <1>3, <2>2
<1>4. \A w \in Live(g) : g.label[w] = Anonymous => label[w] = Anonymous
  OBVIOUS
<1>5. DropUnwantedNames(g, c) = [g EXCEPT !.label = label]
  BY DEF DropUnwantedNames, Wanted
<1> HIDE DEF label
<1> QED BY <1>1, <1>2, <1>3, <1>4, <1>5, RenamedRepaired

\* A configuration declares a name once, and no name is the anonymous label.
LEMMA NamesOnce ==
  ASSUME NEW c \in Configs
  PROVE  /\ Len(Desired(c)) \in Nat /\ DOMAIN Desired(c) = 1 .. Len(Desired(c))
         /\ \A i \in DOMAIN Desired(c) : Desired(c)[i] \in Names /\ Desired(c)[i] # Anonymous
         /\ \A i, j \in DOMAIN Desired(c) : Desired(c)[i] = Desired(c)[j] => i = j
<1> DEFINE m == Least(Len(c.names), MaxWorkspaces - (IF c.emptyAbove THEN 2 ELSE 1))
<1>1. c.names \in Seq(Names) /\ c.emptyAbove \in BOOLEAN
  BY ConstantAssumption DEF ConfigType
<1>2. m \in 0 .. Len(c.names)
  BY <1>1, ConstantAssumption DEF Least
<1>3. Desired(c) = SubSeq(c.names, 1, m)
  BY DEF Desired
<1> HIDE DEF m
<1>4. /\ Len(Desired(c)) = m /\ \A i \in 1 .. m : Desired(c)[i] = c.names[i]
  BY <1>1, <1>2, <1>3
<1>5. Desired(c) \in Seq(Names)
  BY ConfigTyped
<1>6. \A i, j \in DOMAIN c.names : c.names[i] = c.names[j] => i = j
  BY ConstantAssumption
<1>7. 1 .. m \subseteq DOMAIN c.names
  BY <1>1, <1>2
<1>8. DOMAIN Desired(c) = 1 .. m
  BY <1>4, <1>5
<1>9. \A i \in DOMAIN Desired(c) : Desired(c)[i] \in Names
  BY <1>5
<1>10. Anonymous \notin Names
  BY ConstantAssumption
<1> QED BY <1>2, <1>4, <1>6, <1>7, <1>8, <1>9, <1>10

\* The names that are not there yet are served from the last one back; no two
\* have the same turn, and no more are served than there is room for
\* (reconcileDynamicNames, second loop).
LEMMA Turns ==
  ASSUME NEW g, Sound(g), Size(g) <= MaxWorkspaces, NEW c \in Configs
  PROVE  /\ IsFiniteSet(Missing(g, c)) /\ Missing(g, c) \subseteq 1 .. Len(Desired(c))
         /\ \A i, j \in Missing(g, c) : Turn(g, c, i) = Turn(g, c, j) => i = j
         /\ IsFiniteSet(Served(g, c)) /\ Cardinality(Served(g, c)) \in Nat
         /\ Size(g) + Cardinality(Served(g, c)) <= MaxWorkspaces
<1> DEFINE M == Missing(g, c)
           f == [i \in M |-> -i]
           k == MaxWorkspaces - Size(g)
<1>1. M \subseteq 1 .. Len(Desired(c))
  BY NamesOnce DEF Missing
<1>2. IsFiniteSet(M)
  <2>1. 1 \in Int /\ Len(Desired(c)) \in Int
    BY NamesOnce
  <2> QED BY <1>1, <2>1, FS_Interval, FS_Subset
<1>3. \A i \in M : i \in Int
  BY <1>1
<1> HIDE DEF M
<1>4. f \in [M -> Int] /\ OneToOne(M, f)
  BY <1>3 DEF OneToOne
<1>5. \A i \in M : Turn(g, c, i) = Rank(M, f, i)
  <2> SUFFICES ASSUME NEW i \in M PROVE Turn(g, c, i) = Rank(M, f, i)
    OBVIOUS
  <2>1. {j \in M : j > i} = {j \in M : f[j] < f[i]}
    BY <1>3
  <2>2. Turn(g, c, i) = Cardinality({j \in M : j > i})
    BY DEF Turn, M
  <2> QED BY <2>1, <2>2 DEF Rank
<1>6. Size(g) \in Nat /\ MaxWorkspaces \in Nat /\ k \in Nat
  BY SizeIsNat, ConstantAssumption
<1>7. Served(g, c) = {i \in M : Rank(M, f, i) < k}
  BY <1>5 DEF Served, M
<1> HIDE DEF f
<1>8. \A i, j \in M : Rank(M, f, i) = Rank(M, f, j) => i = j
  BY <1>2, <1>4, Ranking
<1>9. /\ IsFiniteSet(Served(g, c)) /\ Cardinality(Served(g, c)) \in Nat
      /\ Cardinality(Served(g, c)) <= k
  <2> HIDE DEF k
  <2> QED BY <1>2, <1>4, <1>6, <1>7, FirstRanked
<1>10. Size(g) + Cardinality(Served(g, c)) <= MaxWorkspaces
  BY <1>6, <1>9
<1>11. \A i, j \in M : Turn(g, c, i) = Turn(g, c, j) => i = j
  BY <1>5, <1>8
<1> QED BY <1>1, <1>2, <1>9, <1>10, <1>11 DEF M

\* Room for new ones in a row of positions: what stands from i on moves up.
LEMMA MakeRoom ==
  ASSUME NEW S, IsFiniteSet(S), NEW f \in [S -> 0 .. (Cardinality(S) - 1)], OneToOne(S, f),
         NEW T, IsFiniteSet(T), S \cap T = {},
         NEW p \in [T -> 0 .. (Cardinality(T) - 1)], OneToOne(T, p),
         NEW i \in 0 .. Cardinality(S),
         NEW q,
         \A w \in S : q[w] = IF f[w] >= i THEN f[w] + Cardinality(T) ELSE f[w],
         \A w \in T : q[w] = i + p[w]
  PROVE  /\ \A w \in S \cup T : q[w] \in 0 .. (Cardinality(S \cup T) - 1)
         /\ OneToOne(S \cup T, q)
<1> DEFINE m == Cardinality(S)
           n == Cardinality(T)
<1>1. m \in Nat /\ n \in Nat /\ Cardinality(S \cup T) = m + n
  BY AddUp
<1>2. /\ \A w \in S : f[w] \in 0 .. (m - 1)
      /\ \A w \in T : p[w] \in 0 .. (n - 1)
      /\ \A w \in S : q[w] = IF f[w] >= i THEN f[w] + n ELSE f[w]
      /\ i \in 0 .. m
  OBVIOUS
<1> HIDE DEF m, n
<1>3. \A w \in S : q[w] \in 0 .. (m + n - 1) /\ (q[w] < i \/ q[w] >= i + n)
  BY <1>1, <1>2
<1>4. \A w \in T : q[w] \in 0 .. (m + n - 1) /\ q[w] >= i /\ q[w] < i + n
  BY <1>1, <1>2
<1>5. \A x, w \in S : q[x] = q[w] => x = w
  BY <1>1, <1>2 DEF OneToOne
<1>6. \A x, w \in T : q[x] = q[w] => x = w
  BY <1>1, <1>2 DEF OneToOne
<1>7. \A x \in S, w \in T : q[x] # q[w]
  BY <1>1, <1>2, <1>3, <1>4
<1> QED BY <1>1, <1>3, <1>4, <1>5, <1>6, <1>7 DEF OneToOne

\* Every name served becomes a workspace of its own, in the order of the
\* declarations, and the rest keeps its order (reconcileDynamicNames, the
\* insertions).
LEMMA InsertNamesRepairs ==
  ASSUME NEW g, Sound(g), Dense(g), g.hold = NoHold, g.slide = NoSlide, NEW c \in Configs
  PROVE  Repaired(g, InsertNames(g, c), c)
<1> DEFINE h == InsertNames(g, c)
           leading == c.emptyAbove /\ \E w \in Live(g) : IsFirst(g, w) /\ Empty(g, w)
           top == IF leading THEN 1 ELSE 0
           D == Served(g, c)
           new == {g.serial + i : i \in D}
           above(i) == Cardinality({j \in D : j < i})
           id == [i \in D |-> i]
           p == [w \in new |-> above(w - g.serial)]
<1>1. /\ \A f \in Fields \ {"index", "label", "serial"} : h[f] = g[f]
      /\ h.index = [w \in Live(g) \cup new |->
                      IF w \in new THEN top + above(w - g.serial)
                      ELSE IF g.index[w] >= top THEN g.index[w] + Cardinality(D) ELSE g.index[w]]
      /\ h.label = [w \in Live(g) \cup new |->
                      IF w \in new THEN Desired(c)[w - g.serial] ELSE g.label[w]]
  BY DEF Sound, WellTyped, Fields, InsertNames
<1>2. Size(g) \in 1 .. MaxWorkspaces /\ MaxWorkspaces \in Nat /\ g.serial \in Nat
  BY ConstantAssumption DEF Dense, Sound, WellTyped
<1>3. /\ IsFiniteSet(D) /\ Cardinality(D) \in Nat
      /\ Size(g) + Cardinality(D) <= MaxWorkspaces
      /\ D \subseteq Missing(g, c) /\ D \subseteq 1 .. Len(Desired(c))
  <2>1. D \subseteq Missing(g, c)
    BY DEF Served
  <2> QED BY <1>2, <2>1, Turns
<1>4. \A i \in D : i \in Int /\ i >= 1
  BY <1>3
<1>5. id \in [D -> Int] /\ OneToOne(D, id)
  BY <1>4 DEF OneToOne
<1>6. \A i \in D : above(i) = Rank(D, id, i)
  <2> SUFFICES ASSUME NEW i \in D PROVE above(i) = Rank(D, id, i)
    OBVIOUS
  <2>1. {j \in D : j < i} = {j \in D : id[j] < id[i]}
    OBVIOUS
  <2> QED BY <2>1 DEF Rank
<1>7. /\ \A i \in D : above(i) \in 0 .. (Cardinality(D) - 1)
      /\ \A i, j \in D : above(i) = above(j) => i = j
  <2> HIDE DEF id, D
  <2>1. /\ \A i \in D : Rank(D, id, i) \in 0 .. (Cardinality(D) - 1)
        /\ \A i, j \in D : Rank(D, id, i) = Rank(D, id, j) => i = j
    BY <1>3, <1>5, Ranking
  <2> HIDE DEF above
  <2> QED BY <1>6, <2>1
<1>8. \A w \in new : w - g.serial \in D /\ w \in Int /\ w > g.serial
  BY <1>2, <1>4
<1>9. IsFiniteSet(new) /\ Cardinality(new) = Cardinality(D)
  <2> DEFINE b == [i \in D |-> g.serial + i]
  <2>1. b \in Bijection(D, new)
    BY <1>2, <1>4 DEF Bijection, Injection, Surjection, IsInjective
  <2> QED BY <1>3, <2>1, FS_Bijection DEF ExistsBijection
<1>10. Live(g) \cap new = {}
  <2>1. \A w \in Live(g) : w < g.serial
    BY DEF Sound, WellTyped
  <2>2. \A w \in new : ~(w < g.serial)
    BY <1>2, <1>8
  <2> HIDE DEF new
  <2> QED BY <2>1, <2>2
<1>11. p \in [new -> 0 .. (Cardinality(new) - 1)] /\ OneToOne(new, p)
  <2>1. \A w \in new : p[w] = above(w - g.serial)
    OBVIOUS
  <2>2. p \in [new -> 0 .. (Cardinality(new) - 1)]
    BY <1>7, <1>8, <1>9
  <2>3. ASSUME NEW x \in new, NEW w \in new, p[x] = p[w] PROVE x = w
    <3>1. x - g.serial = w - g.serial
      BY <1>7, <1>8, <2>1, <2>3
    <3> QED BY <1>2, <1>8, <3>1
  <2> QED BY <2>2, <2>3 DEF OneToOne
<1>12. top \in 0 .. Cardinality(Live(g))
  BY <1>2 DEF Size
<1> HIDE DEF h, top, D, new, above, leading
<1>13. Live(h) = Live(g) \cup new
  BY <1>1 DEF Live
<1>14. g.index \in [Live(g) -> 0 .. (Cardinality(Live(g)) - 1)] /\ OneToOne(Live(g), g.index)
  BY DEF Dense, Ordered, Size, Sound, WellTyped
<1>15. /\ \A w \in new : p[w] = above(w - g.serial)
       /\ \A w \in Live(g) : w \notin new
  BY <1>10
<1> HIDE DEF p
<1>16. /\ \A w \in Live(g) : h.index[w] = IF g.index[w] >= top THEN g.index[w] + Cardinality(new) ELSE g.index[w]
       /\ \A w \in new : h.index[w] = top + p[w]
  BY <1>1, <1>9, <1>15
<1>17. /\ \A w \in Live(h) : h.index[w] \in 0 .. (Size(h) - 1)
       /\ OneToOne(Live(h), h.index)
  <2> DEFINE S == Live(g)
             f == g.index
             q == h.index
  <2>1. IsFiniteSet(S) /\ IsFiniteSet(new) /\ S \cap new = {}
    BY <1>9, <1>10, SizeIsNat
  <2>2. f \in [S -> 0 .. (Cardinality(S) - 1)] /\ OneToOne(S, f)
    BY <1>14
  <2>3. /\ \A w \in S : q[w] = IF f[w] >= top THEN f[w] + Cardinality(new) ELSE f[w]
        /\ \A w \in new : q[w] = top + p[w]
    BY <1>16
  <2>4. Live(h) = S \cup new /\ Size(h) = Cardinality(S \cup new)
    BY <1>13 DEF Size
  <2>5. top \in 0 .. Cardinality(S)
    BY <1>12
  <2> HIDE DEF S, f, q
  <2>6. /\ \A w \in S \cup new : q[w] \in 0 .. (Cardinality(S \cup new) - 1)
        /\ OneToOne(S \cup new, q)
    BY SMTT(30), <1>11, <2>1, <2>2, <2>3, <2>5, MakeRoom
  <2>7. /\ \A w \in Live(h) : q[w] \in 0 .. (Size(h) - 1)
        /\ OneToOne(Live(h), q)
    BY <2>4, <2>6
  <2> QED BY <2>7 DEF q
<1>18. Size(h) \in 1 .. MaxWorkspaces
  <2>1. Size(h) = Size(g) + Cardinality(D)
    BY <1>9, <1>10, <1>13, SizeIsNat, AddUp DEF Size
  <2> QED BY <1>2, <1>3, <2>1
<1>19. /\ \A w \in Live(g) : h.label[w] = g.label[w]
       /\ \A w \in new : h.label[w] = Desired(c)[w - g.serial]
  BY <1>1, <1>15
<1>20. Distinct(h)
  <2>1. ASSUME NEW x \in new, NEW w \in new, h.label[x] = h.label[w] PROVE x = w
    <3>1. /\ x - g.serial \in DOMAIN Desired(c) /\ w - g.serial \in DOMAIN Desired(c)
          /\ Desired(c)[x - g.serial] = Desired(c)[w - g.serial]
      BY <1>3, <1>8, <1>19, <2>1, NamesOnce
    <3>2. x - g.serial = w - g.serial
      BY <3>1, NamesOnce
    <3> QED BY <1>2, <1>8, <3>2
  <2>2. \A x \in new, w \in Live(g) : h.label[x] # h.label[w]
    BY <1>3, <1>8, <1>19 DEF Missing
  <2> QED BY <1>13, <1>19, <2>1, <2>2 DEF Distinct, Dense
<1>21. Sound(h)
  BY InsertNamesSound DEF h
<1>22. Dense(h)
  BY <1>17, <1>18, <1>20 DEF Dense, Ordered
<1>23. \A f \in Selection \cup {"launch", "previous"} : h[f] = g[f]
  BY <1>1 DEF Fields, Selection
<1> QED BY <1>13, <1>19, <1>21, <1>22, <1>23, KeepsAll DEF h

\* At the limit a name claims an empty workspace that nothing keeps, and each
\* claims another one (reconcileDynamicNames, the claims).
LEMMA ClaimForNamesRepairs ==
  ASSUME NEW g, Sound(g), Dense(g), g.hold = NoHold, NEW c \in Configs
  PROVE  Repaired(g, ClaimForNames(g, c), c)
<1> DEFINE spare == {w \in Live(g) : /\ Empty(g, w) /\ ~Reserved(g, w)
                                     /\ ~(c.emptyAbove /\ IsFirst(g, w))
                                     /\ ~IsLast(g, w)}
           rank(w) == Cardinality({x \in spare : g.index[x] < g.index[w]})
           claims(w) == {i \in Missing(g, c) : w \in spare /\ Turn(g, c, i) = rank(w)}
           claim(w) == CHOOSE i \in claims(w) : TRUE
           label == [w \in Live(g) |->
                       IF claims(w) # {} THEN Desired(c)[claim(w)] ELSE g.label[w]]
           f == [w \in spare |-> g.index[w]]
<1>1. spare \subseteq Live(g) /\ \A w \in spare : g.label[w] = Anonymous /\ ~Reserved(g, w)
  BY DEF Empty
<1>2. IsFiniteSet(spare)
  BY <1>1, SizeIsNat, FS_Subset
<1> HIDE DEF spare
<1>3. f \in [spare -> Int] /\ OneToOne(spare, f)
  BY <1>1 DEF Sound, WellTyped, Dense, Ordered, OneToOne
<1>4. \A w \in spare : rank(w) = Rank(spare, f, w)
  <2> SUFFICES ASSUME NEW w \in spare PROVE rank(w) = Rank(spare, f, w)
    OBVIOUS
  <2>1. {x \in spare : g.index[x] < g.index[w]} = {x \in spare : f[x] < f[w]}
    OBVIOUS
  <2> QED BY <2>1 DEF Rank
<1>5. \A x, w \in spare : rank(x) = rank(w) => x = w
  <2> HIDE DEF f, rank
  <2> QED BY <1>2, <1>3, <1>4, Ranking
<1>6. \A w \in Live(g) : claims(w) # {} =>
        /\ claim(w) \in Missing(g, c) /\ w \in spare /\ Turn(g, c, claim(w)) = rank(w)
  <2> HIDE DEF rank
  <2> QED OBVIOUS
<1>7. \A i \in Missing(g, c) : /\ i \in DOMAIN Desired(c)
                              /\ \A w \in Live(g) : g.label[w] # Desired(c)[i]
  BY DEF Missing
<1> HIDE DEF claims, claim, rank
<1>8. \A w \in Live(g) : label[w] = IF claims(w) # {} THEN Desired(c)[claim(w)] ELSE g.label[w]
  OBVIOUS
<1>9. label \in [Live(g) -> Labels]
  BY <1>6, <1>7, NamesOnce DEF Labels, Sound, WellTyped
<1>10. ClaimForNames(g, c) = [g EXCEPT !.label = label]
  BY DEF ClaimForNames, label, claim, claims, rank, spare
<1> HIDE DEF label
<1>11. ASSUME NEW w \in Live(g), NEW x \in Live(g), label[w] = label[x], label[w] # Anonymous
       PROVE  w = x
  <2>1. CASE claims(w) # {} /\ claims(x) # {}
    <3>1. claim(w) = claim(x)
      BY <1>6, <1>7, <1>8, <1>11, <2>1, NamesOnce
    <3> QED BY <1>5, <1>6, <2>1, <3>1
  <2>2. CASE claims(w) = {} /\ claims(x) = {}
    BY <1>8, <1>11, <2>2 DEF Dense, Distinct
  <2>3. CASE claims(w) # {} /\ claims(x) = {}
    BY <1>6, <1>7, <1>8, <1>11, <2>3
  <2>4. CASE claims(w) = {} /\ claims(x) # {}
    BY <1>6, <1>7, <1>8, <1>11, <2>4
  <2> QED BY <2>1, <2>2, <2>3, <2>4
<1>12. \A w \in Live(g) : Reserved(g, w) /\ g.label[w] = Anonymous => label[w] = Anonymous
  BY <1>1, <1>6, <1>8
<1>13. \A w \in Live(g) : g.label[w] # Anonymous => label[w] = g.label[w]
  BY <1>1, <1>6, <1>8
<1> QED BY <1>9, <1>10, <1>11, <1>12, <1>13, RenamedRepaired

\* The whole of reconcileDynamicNames repairs.
LEMMA ReconcileNamesRepairs ==
  ASSUME NEW g, Sound(g), Dense(g), g.hold = NoHold, g.slide = NoSlide,
         NEW c \in Configs, c.dynamic
  PROVE  Repaired(g, ReconcileNames(g, c), c)
<1> DEFINE g1 == DropUnwantedNames(g, c)
           g2 == InsertNames(g1, c)
<1>1. Repaired(g, g1, c)
  BY DropUnwantedNamesRepairs
<1>2. Sound(g1) /\ Dense(g1) /\ g1.hold = NoHold /\ g1.slide = NoSlide
  BY <1>1 DEF Repaired, Selection
<1> HIDE DEF g1
<1>3. Repaired(g1, g2, c)
  BY <1>2, InsertNamesRepairs
<1>4. Sound(g2) /\ Dense(g2) /\ g2.hold = NoHold
  BY <1>2, <1>3 DEF Repaired, Selection
<1> HIDE DEF g2
<1>5. Repaired(g2, ClaimForNames(g2, c), c)
  BY <1>4, ClaimForNamesRepairs
<1>6. ReconcileNames(g, c) = ClaimForNames(g2, c)
  BY DEF ReconcileNames, g1, g2
<1> QED BY <1>1, <1>3, <1>5, <1>6, RepairedTwice

-----------------------------------------------------------------------------
(* Pruning, the floor and the sentinels.                                   *)

\* How much a prune takes: it stops at the floor, never empties the group, and
\* if it ends above the floor it took everything it may
\* (reconcileDynamic, the erase loop).
LEMMA PrunedCount ==
  ASSUME NEW g, Sound(g), Dense(g), NEW c \in Configs
  PROVE  LET some == Pruned(g, c)
         IN  /\ some \subseteq Live(g) /\ some # Live(g)
             /\ IsFiniteSet(some) /\ Cardinality(some) \in Nat
             /\ Cardinality(some) <= Size(g)
             /\ Size(g) - Cardinality(some) > c.minimum => some = Prunable(g, c)
<1> DEFINE some == Pruned(g, c)
           P == Prunable(g, c)
           k == Size(g) - c.minimum
           f == [w \in P |-> -g.index[w]]
<1>1. /\ Size(g) \in Nat /\ Size(g) >= 1 /\ IsFiniteSet(Live(g))
      /\ c.minimum \in Nat /\ c.minimum >= 1 /\ k \in Int
  BY SizeIsNat, ConstantAssumption DEF Dense
<1>2. P \subseteq Live(g)
  BY DEF Prunable
<1>3. IsFiniteSet(P) /\ Cardinality(P) \in Nat /\ Cardinality(P) <= Size(g)
  BY <1>1, <1>2, PartIsSmaller DEF Size
<1>4. some = {w \in P : Cardinality({x \in P : g.index[x] > g.index[w]}) < k}
  BY DEF Pruned
<1>5. \A w \in P : g.index[w] \in Int
  BY <1>2 DEF Sound, WellTyped
<1>6. f \in [P -> Int] /\ OneToOne(P, f)
  BY <1>2, <1>5 DEF OneToOne, Dense, Ordered
<1> HIDE DEF some, P
<1>7. \A w \in P : Cardinality({x \in P : g.index[x] > g.index[w]}) = Rank(P, f, w)
  <2> SUFFICES ASSUME NEW w \in P
               PROVE  Cardinality({x \in P : g.index[x] > g.index[w]}) = Rank(P, f, w)
    OBVIOUS
  <2>1. {x \in P : g.index[x] > g.index[w]} = {x \in P : f[x] < f[w]}
    BY <1>5
  <2> QED BY <2>1 DEF Rank
<1>8. some = {w \in P : Rank(P, f, w) < k}
  BY <1>4, <1>7
<1> HIDE DEF f
<1>9. CASE k \in Nat
  <2> HIDE DEF k
  <2>1. /\ IsFiniteSet(some) /\ Cardinality(some) \in Nat
        /\ Cardinality(some) <= k /\ Cardinality(some) <= Cardinality(P)
        /\ some # P => Cardinality(some) = k
    BY <1>3, <1>6, <1>8, <1>9, FirstRanked
  <2>2. some # Live(g)
    <3>1. Cardinality(some) < Size(g)
      BY <1>1, <2>1 DEF k
    <3> QED BY <1>1, <3>1 DEF Size
  <2>3. some \subseteq Live(g)
    BY <1>2, <1>8
  <2>4. Size(g) - Cardinality(some) > c.minimum => some = P
    BY <1>1, <2>1 DEF k
  <2> QED BY <1>1, <1>3, <2>1, <2>2, <2>3, <2>4 DEF some, P
<1>10. CASE k \notin Nat
  <2>1. k < 0
    BY <1>1, <1>10
  <2>2. \A w \in P : Rank(P, f, w) \in Nat
    <3>1. \A w \in P : Rank(P, f, w) \in 0 .. (Cardinality(P) - 1)
      BY <1>3, <1>6, Ranking
    <3> QED BY <1>3, <3>1
  <2>3. some = {}
    BY <1>1, <1>8, <2>1, <2>2
  <2>4. Cardinality(some) = 0 /\ IsFiniteSet(some)
    BY <2>3, FS_EmptySet
  <2>5. Live(g) # {}
    BY <1>1, FS_EmptySet DEF Size
  <2>6. ~(Size(g) - 0 > c.minimum)
    BY <1>1, <2>1
  <2> QED BY <1>1, <2>3, <2>4, <2>5, <2>6 DEF some
<1> QED BY <1>9, <1>10

\* Pruning repairs (reconcileDynamic, the erase loop).
LEMMA PruneRepairs ==
  ASSUME NEW g, Sound(g), Dense(g), g.hold = NoHold, g.slide = NoSlide, NEW c \in Configs
  PROVE  Repaired(g, Erase(g, Pruned(g, c)), c)
<1> DEFINE some == Pruned(g, c)
           h == Erase(g, some)
<1>1. /\ some \subseteq Live(g) /\ some # Live(g)
      /\ \A w \in some : ~Occupied(g, w) /\ ~Reserved(g, w) /\ w # g.active
  BY PrunedCount, PrunedIsUnused
<1>2. \A w \in some : g.label[w] = Anonymous
  BY DEF Pruned, Prunable, Empty
<1> HIDE DEF some
<1>3. Sound(h)
  BY <1>1, EraseSound
<1>4. /\ \A f \in Fields \ {"index", "label", "previous", "launch"} : h[f] = g[f]
      /\ h.previous \in {g.previous, None}
      /\ Live(h) = Live(g) \ some
      /\ \A w \in Live(h) : h.label[w] = g.label[w]
      /\ \A l \in Launches : h.launch[l] = IF g.launch[l] \in some THEN None ELSE g.launch[l]
      /\ Dense(h)
  BY <1>1, EraseDense
<1> HIDE DEF h
<1>5. \A f \in Selection : h[f] = g[f]
  BY <1>4 DEF Selection, Fields
<1>6. \A l \in Launches : g.launch[l] # None => g.launch[l] \in Live(g) \ some
  BY <1>1 DEF Sound, PointsAtLive, OptionalOf, Reserved
<1>7. \A l \in Launches : g.launch[l] # None =>
        h.launch[l] = g.launch[l] /\ h.label[g.launch[l]] = g.label[g.launch[l]]
  BY <1>4, <1>6
<1>8. \A l \in Launches : h.launch[l] \in {g.launch[l], None}
  BY <1>4
<1>9. \A w \in Live(g) : g.label[w] # Anonymous => w \in Live(h) /\ h.label[w] = g.label[w]
  BY <1>2, <1>4
<1> QED BY <1>3, <1>4, <1>5, <1>7, <1>8, <1>9 DEF Repaired, h, some

\* Inserting empty workspaces repairs (insertDynamicWorkspace).
LEMMA InsertAtRepairs ==
  ASSUME NEW g, Sound(g), Dense(g), g.hold = NoHold, NEW c, NEW i \in 0 .. Size(g), NEW n \in Nat,
         Size(g) + n <= MaxWorkspaces
  PROVE  Repaired(g, InsertAt(g, i, n), c)
<1> DEFINE h == InsertAt(g, i, n)
<1>1. i \in Nat
  BY SizeIsNat
<1>2. Sound(h) /\ Dense(h)
  BY <1>1, InsertAtSound, InsertAtDense
<1>3. /\ \A f \in Fields \ {"index", "label", "serial"} : h[f] = g[f]
      /\ Live(h) = Live(g) \cup Fresh(g, n)
      /\ \A w \in Live(g) : h.label[w] = g.label[w]
  BY <1>1, InsertAtFields
<1> HIDE DEF h
<1>4. \A f \in Selection \cup {"launch", "previous"} : h[f] = g[f]
  BY <1>3 DEF Selection, Fields
<1>5. Live(g) \subseteq Live(h)
  BY <1>3
<1> QED BY <1>2, <1>3, <1>4, <1>5, KeepsAll DEF h

\* A prune takes nobody's neighbour away: who stays last stays last, who is
\* empty or reserved stays so (reconcileDynamic, the erase loop).
LEMMA PruneKeepsEnds ==
  ASSUME NEW g, Sound(g), Dense(g), NEW c \in Configs
  PROVE  LET h == Erase(g, Pruned(g, c))
         IN  /\ Live(h) = Live(g) \ Pruned(g, c)
             /\ Size(h) = Size(g) - Cardinality(Pruned(g, c))
             /\ \A w \in Live(h) : /\ IsLast(g, w) => IsLast(h, w)
                                   /\ IsFirst(g, w) => IsFirst(h, w)
                                   /\ Empty(h, w) <=> Empty(g, w)
                                   /\ Reserved(g, w) => Reserved(h, w)
<1> DEFINE some == Pruned(g, c)
           h == Erase(g, some)
<1>1. some \subseteq Live(g) /\ some # Live(g)
  BY PrunedCount
<1> HIDE DEF some
<1>2. /\ \A f \in Fields \ {"index", "label", "previous", "launch"} : h[f] = g[f]
      /\ Live(h) = Live(g) \ some
      /\ Size(h) = Size(g) - Cardinality(some)
      /\ \A w \in Live(h) : h.label[w] = g.label[w]
      /\ \A l \in Launches : h.launch[l] = IF g.launch[l] \in some THEN None ELSE g.launch[l]
      /\ \A x, w \in Live(h) : g.index[x] < g.index[w] <=> h.index[x] < h.index[w]
      /\ Dense(h)
  BY <1>1, EraseDense
<1> HIDE DEF h
<1>3. h.home = g.home
  BY <1>2 DEF Fields
<1>4. /\ \A w \in Live(g) : g.index[w] \in Int
      /\ \A w \in Live(h) : h.index[w] \in Int
  BY <1>2 DEF Sound, WellTyped, Dense, Ordered
<1>5. ASSUME NEW w \in Live(h), IsLast(g, w) PROVE IsLast(h, w)
  BY <1>2, <1>4, <1>5 DEF IsLast
<1>6. ASSUME NEW w \in Live(h), IsFirst(g, w) PROVE IsFirst(h, w)
  BY <1>2, <1>4, <1>6 DEF IsFirst
<1>7. ASSUME NEW w \in Live(h) PROVE Empty(h, w) <=> Empty(g, w)
  BY <1>2, <1>3 DEF Empty, Occupied
<1>8. ASSUME NEW w \in Live(h), Reserved(g, w) PROVE Reserved(h, w)
  BY <1>2, <1>8 DEF Reserved
<1> QED BY <1>2, <1>5, <1>6, <1>7, <1>8 DEF h, some

\* Who is empty or reserved stays so over an insertion, and what is inserted
\* is empty; behind the last one stands the new one, before the first one too
\* (appendDynamicWorkspace, prependDynamicWorkspace).
LEMMA InsertAtEnds ==
  ASSUME NEW g, Sound(g), Dense(g), NEW i \in 0 .. Size(g), NEW n \in Nat
  PROVE  LET h == InsertAt(g, i, n)
         IN  /\ Live(h) = Live(g) \cup Fresh(g, n) /\ Live(g) \cap Fresh(g, n) = {}
             /\ Size(h) = Size(g) + n
             /\ \A w \in Live(g) : /\ Empty(h, w) <=> Empty(g, w)
                                   /\ Reserved(h, w) <=> Reserved(g, w)
             /\ \A w \in Fresh(g, n) : Empty(h, w)
             /\ i = Size(g) => \A w \in Live(g) : IsFirst(g, w) => IsFirst(h, w)
             /\ i = Size(g) /\ n = 1 => IsLast(h, g.serial)
             /\ i = 0 /\ n # 0 => \A w \in Live(g) : IsLast(g, w) => IsLast(h, w) /\ ~IsFirst(h, w)
             /\ i = 0 /\ n = 1 => IsFirst(h, g.serial) /\ ~IsLast(h, g.serial)
             /\ n = 1 => Fresh(g, n) = {g.serial}
<1> DEFINE h == InsertAt(g, i, n)
<1>1. Size(g) \in Nat /\ Size(g) >= 1 /\ i \in Nat /\ g.serial \in Nat
  BY SizeIsNat DEF Dense, Sound, WellTyped
<1>2. /\ \A f \in Fields \ {"index", "label", "serial"} : h[f] = g[f]
      /\ Live(h) = Live(g) \cup Fresh(g, n) /\ Live(g) \cap Fresh(g, n) = {}
      /\ Size(h) = Size(g) + n
      /\ \A w \in Live(g) : /\ h.label[w] = g.label[w]
                            /\ h.index[w] = IF g.index[w] >= i THEN g.index[w] + n ELSE g.index[w]
      /\ \A w \in Fresh(g, n) : h.label[w] = Anonymous /\ h.index[w] = i + (w - g.serial)
  BY <1>1, InsertAtFields
<1> HIDE DEF h
<1>3. h.home = g.home /\ h.launch = g.launch
  BY <1>2 DEF Fields
<1>4. \A w \in Live(g) : g.index[w] \in 0 .. (Size(g) - 1)
  BY DEF Dense, Ordered
<1>5. \A w \in Fresh(g, n) : w - g.serial \in 0 .. (n - 1)
  BY <1>1 DEF Fresh
<1>6. \A w \in Live(g) : (Empty(h, w) <=> Empty(g, w)) /\ (Reserved(h, w) <=> Reserved(g, w))
  BY <1>2, <1>3 DEF Empty, Occupied, Reserved
<1>7. ASSUME NEW w \in Fresh(g, n) PROVE Empty(h, w)
  <2>1. \A v \in Views : g.home[v] \in OptionalOf(Live(g))
    BY DEF Sound, PointsAtLive
  <2>2. w \notin Live(g) /\ w # None
    BY <1>1, <1>2, ConstantAssumption DEF Fresh
  <2> QED BY <1>2, <1>3, <2>1, <2>2 DEF Empty, Occupied, OptionalOf
<1>8. ASSUME i = Size(g), NEW w \in Live(g), IsFirst(g, w) PROVE IsFirst(h, w)
  BY <1>1, <1>2, <1>4, <1>5, <1>8 DEF IsFirst
<1>9. n = 1 => Fresh(g, n) = {g.serial}
  BY <1>1 DEF Fresh
<1>10. ASSUME i = Size(g), n = 1 PROVE IsLast(h, g.serial)
  BY <1>1, <1>2, <1>4, <1>9, <1>10 DEF IsLast
<1>11. ASSUME i = 0, n # 0, NEW w \in Live(g), IsLast(g, w) PROVE IsLast(h, w) /\ ~IsFirst(h, w)
  <2>1. IsLast(h, w)
    BY <1>1, <1>2, <1>4, <1>5, <1>11 DEF IsLast
  <2>2. g.serial \in Fresh(g, n)
    BY <1>1, <1>11 DEF Fresh
  <2>3. h.index[g.serial] = 0
    BY <1>1, <1>2, <1>11, <2>2
  <2>4. ~(h.index[w] <= 0)
    BY <1>1, <1>2, <1>4, <1>11
  <2> QED BY <1>2, <2>1, <2>2, <2>3, <2>4 DEF IsFirst
<1>12. ASSUME i = 0, n = 1 PROVE IsFirst(h, g.serial) /\ ~IsLast(h, g.serial)
  <2>1. h.index[g.serial] = 0 /\ \A w \in Live(g) : h.index[w] = g.index[w] + 1
    BY <1>1, <1>2, <1>4, <1>9, <1>12
  <2>2. IsFirst(h, g.serial)
    BY <1>2, <1>4, <1>9, <1>12, <2>1 DEF IsFirst
  <2>3. PICK w \in Live(g) : TRUE
    BY <1>1, FS_EmptySet DEF Size
  <2>4. ~(h.index[w] <= h.index[g.serial])
    BY <1>4, <2>1, <2>3
  <2> QED BY <1>2, <2>2, <2>4 DEF IsLast
<1> QED BY <1>2, <1>6, <1>7, <1>8, <1>9, <1>10, <1>11, <1>12 DEF h

-----------------------------------------------------------------------------
(* The whole of a reconciliation.                                          *)

\* The sentinels stand, or there is no room for them (SentinelsInPlace).
Sentinels(g, c) ==
  Size(g) < MaxWorkspaces =>
    /\ \E w \in Live(g) : IsLast(g, w) /\ Empty(g, w)
    /\ c.emptyAbove => \E w \in Live(g) : IsFirst(g, w) /\ ~IsLast(g, w) /\ Empty(g, w)

\* An empty anonymous workspace that no rule keeps (Stray).
StrayIn(g, c, w) ==
  /\ Empty(g, w) /\ ~Reserved(g, w) /\ w # g.active /\ ~IsLast(g, w)
  /\ ~(c.emptyAbove /\ IsFirst(g, w))

Tidy(g, c) ==
  /\ Sentinels(g, c)
  /\ Size(g) > c.minimum + 2 => \A w \in Live(g) : ~StrayIn(g, c, w)

\* Only one workspace is the last.
LEMMA OneLast ==
  ASSUME NEW g, Sound(g), Dense(g), NEW x \in Live(g), NEW w \in Live(g),
         IsLast(g, x), IsLast(g, w)
  PROVE  x = w
<1>1. g.index[x] \in Nat /\ g.index[w] \in Nat
  BY DEF Sound, WellTyped
<1>2. g.index[x] <= g.index[w] /\ g.index[w] <= g.index[x]
  BY DEF IsLast
<1>3. g.index[x] = g.index[w]
  BY <1>1, <1>2
<1> QED BY <1>3 DEF Dense, Ordered, OneToOne

\* The body of reconcileDynamic puts the inventory in order, loses nothing,
\* leaves the sentinels where there is room, and above its floor leaves no
\* empty workspace that nothing keeps.
LEMMA RebuildRepairs ==
  ASSUME NEW g, Sound(g), Dense(g), g.hold = NoHold, g.slide = NoSlide,
         NEW c \in Configs, c.dynamic
  PROVE  /\ Repaired(g, Rebuild(g, c), c)
         /\ Tidy(Rebuild(g, c), c)
         /\ Rebuild(g, c).previous = None \/ Rebuild(g, c).previous # Rebuild(g, c).active
<1> DEFINE g0 == [g EXCEPT !.pending = FALSE]
           g1 == ReconcileNames(g0, c)
           front == FrontKeeper(g1, c)
           g2 == Erase(g1, Pruned(g1, c))
           g3 == FillToMinimum(g2, c)
           g4 == AppendSentinel(g3, front)
           g5 == PrependSentinel(g4, c, front)
           h == ForgetRevisit(g5)
<1>0. /\ MaxWorkspaces \in Nat /\ c.minimum \in 1 .. MaxWorkspaces /\ c.emptyAbove \in BOOLEAN
      /\ 0 \in Nat /\ 1 \in Nat
  BY ConstantAssumption DEF ConfigType
<1>1. Sound(g0) /\ Dense(g0) /\ g0.hold = NoHold /\ g0.slide = NoSlide /\ Repaired(g, g0, c)
  <2>1. /\ g0 = [f \in Fields |-> g0[f]]
        /\ \A f \in Fields \ {"pending"} : g0[f] = g[f]
        /\ g0.pending = FALSE
    BY DEF Sound, WellTyped, Fields
  <2> HIDE DEF g0
  <2>2. /\ \A f \in Inventory : g0[f] = g[f]
        /\ g0.index = g.index /\ g0.label = g.label
        /\ g0.slide = g.slide /\ g0.hold = g.hold
        /\ g0.active = g.active /\ g0.previous = g.previous
    BY <2>1 DEF Inventory, Fields
  <2>3. \A f \in Flags : g0[f] \in BOOLEAN
    <3>1. \A f \in Flags : g[f] \in BOOLEAN
      BY DEF Sound, WellTyped, Flags
    <3> QED BY <2>1, <3>1 DEF Fields, Flags
  <2>4. g0.active \in OptionalOf(Live(g)) /\ g0.previous \in OptionalOf(Live(g))
    BY <2>2 DEF Sound, PointsAtLive
  <2>5. Sound(g0) /\ Live(g0) = Live(g)
    BY <2>1, <2>2, <2>3, <2>4, SameInventory
  <2>6. Dense(g0)
    BY <2>2, SameOrder
  <2>7. \A f \in Selection \cup {"launch", "previous"} : g0[f] = g[f]
    BY <2>1 DEF Selection, Fields
  <2>8. Repaired(g, g0, c)
    BY <2>2, <2>5, <2>6, <2>7, KeepsAll
  <2> QED BY <2>2, <2>5, <2>6, <2>8
<1> HIDE DEF g0
<1>2. Repaired(g0, g1, c) /\ Sound(g1) /\ Dense(g1) /\ g1.hold = NoHold /\ g1.slide = NoSlide
  BY <1>1, ReconcileNamesRepairs DEF Repaired, Selection
<1> HIDE DEF g1
<1>3. Repaired(g1, g2, c) /\ Sound(g2) /\ Dense(g2) /\ g2.hold = NoHold
  BY <1>2, PruneRepairs DEF Repaired, Selection
<1>4. /\ Live(g2) = Live(g1) \ Pruned(g1, c)
      /\ Size(g2) > c.minimum => Pruned(g1, c) = Prunable(g1, c)
      /\ \A w \in Live(g2) : /\ IsLast(g1, w) => IsLast(g2, w)
                             /\ IsFirst(g1, w) => IsFirst(g2, w)
                             /\ Empty(g2, w) <=> Empty(g1, w)
                             /\ Reserved(g1, w) => Reserved(g2, w)
  BY <1>2, PruneKeepsEnds, PrunedCount
<1> HIDE DEF g2
<1>5. \A w \in front : /\ c.emptyAbove /\ w \in Live(g2) /\ IsFirst(g2, w) /\ Empty(g2, w)
  BY <1>4 DEF FrontKeeper, Pruned, Prunable
<1>6. /\ front # {} => c.emptyAbove
      /\ \A w \in Live(g1) : c.emptyAbove /\ IsFirst(g1, w) /\ Empty(g1, w) => w \in front
  BY DEF FrontKeeper
<1>7. /\ Size(g2) \in Nat /\ Size(g2) >= 1 /\ Size(g2) <= MaxWorkspaces
  BY <1>0, <1>3 DEF Dense
<1>8. /\ Repaired(g2, g3, c) /\ Sound(g3) /\ Dense(g3) /\ g3.hold = NoHold
      /\ Live(g2) \subseteq Live(g3)
      /\ Size(g3) > c.minimum => g3 = g2
      /\ \A w \in Live(g2) : /\ IsFirst(g2, w) => IsFirst(g3, w)
                             /\ Empty(g3, w) <=> Empty(g2, w)
  <2>1. CASE Size(g2) < c.minimum
    <3> DEFINE n == c.minimum - Size(g2)
    <3>1. n \in Nat /\ Size(g2) + n = c.minimum /\ Size(g2) + n <= MaxWorkspaces
          /\ Size(g2) \in 0 .. Size(g2) /\ ~(c.minimum > c.minimum)
      BY <1>0, <1>7, <2>1
    <3>2. g3 = InsertAt(g2, Size(g2), n)
      BY <2>1 DEF FillToMinimum
    <3> HIDE DEF n, g3
    <3>3. Repaired(g2, g3, c)
      BY <1>3, <3>1, <3>2, InsertAtRepairs
    <3>4. /\ Live(g3) = Live(g2) \cup Fresh(g2, n) /\ Size(g3) = c.minimum
          /\ \A w \in Live(g2) : /\ IsFirst(g2, w) => IsFirst(g3, w)
                                 /\ Empty(g3, w) <=> Empty(g2, w)
      BY <1>3, <3>1, <3>2, InsertAtEnds
    <3> QED BY <1>3, <3>1, <3>3, <3>4 DEF Repaired, Selection
  <2>2. CASE ~(Size(g2) < c.minimum)
    <3>1. g3 = g2
      BY <2>2 DEF FillToMinimum
    <3> QED BY <1>3, <3>1, RepairedAlready
  <2> QED BY <2>1, <2>2
<1> HIDE DEF g3, front
<1>9. \A w \in front : c.emptyAbove /\ w \in Live(g3) /\ IsFirst(g3, w) /\ Empty(g3, w)
  BY <1>5, <1>8
<1>10. Size(g3) \in Nat /\ Size(g3) >= 1 /\ Size(g3) <= MaxWorkspaces
  BY <1>0, <1>8 DEF Dense
<1>11. /\ Repaired(g3, g4, c) /\ Sound(g4) /\ Dense(g4) /\ g4.hold = NoHold
       /\ Size(g4) <= Size(g3) + 1
       /\ \A w \in front : w \in Live(g4) /\ IsFirst(g4, w) /\ Empty(g4, w)
       /\ Size(g4) < MaxWorkspaces =>
            \E w \in Live(g4) : IsLast(g4, w) /\ Empty(g4, w) /\ w \notin front
       /\ \A w \in Live(g4) : /\ w \in Live(g3) \/ IsLast(g4, w)
                              /\ w \in Live(g3) => (Empty(g4, w) <=> Empty(g3, w))
                              /\ w \in Live(g3) => (Reserved(g4, w) <=> Reserved(g3, w))
                              /\ w \in Live(g3) /\ IsLast(g3, w) /\ Empty(g3, w) /\ w \notin front =>
                                   IsLast(g4, w)
  <2>1. CASE /\ Size(g3) < MaxWorkspaces
             /\ \A w \in Live(g3) : IsLast(g3, w) => ~Empty(g3, w) \/ w \in front
    <3>1. g4 = InsertAt(g3, Size(g3), 1)
      BY <2>1 DEF AppendSentinel
    <3>2. Size(g3) \in 0 .. Size(g3) /\ Size(g3) + 1 <= MaxWorkspaces
      BY <1>0, <1>10, <2>1
    <3> HIDE DEF g4
    <3>3. Repaired(g3, g4, c)
      BY <1>0, <1>8, <3>1, <3>2, InsertAtRepairs
    <3>4. /\ Live(g4) = Live(g3) \cup {g3.serial} /\ g3.serial \notin Live(g3)
          /\ Size(g4) = Size(g3) + 1
          /\ \A w \in Live(g3) : /\ Empty(g4, w) <=> Empty(g3, w)
                                 /\ Reserved(g4, w) <=> Reserved(g3, w)
                                 /\ IsFirst(g3, w) => IsFirst(g4, w)
          /\ IsLast(g4, g3.serial) /\ Empty(g4, g3.serial)
      <4> DEFINE new == Fresh(g3, 1)
      <4>1. /\ Live(g4) = Live(g3) \cup new /\ Live(g3) \cap new = {} /\ new = {g3.serial}
            /\ Size(g4) = Size(g3) + 1
            /\ \A w \in Live(g3) : /\ Empty(g4, w) <=> Empty(g3, w)
                                   /\ Reserved(g4, w) <=> Reserved(g3, w)
            /\ \A w \in new : Empty(g4, w)
            /\ \A w \in Live(g3) : IsFirst(g3, w) => IsFirst(g4, w)
            /\ IsLast(g4, g3.serial)
        BY <1>0, <1>8, <3>1, <3>2, InsertAtEnds
      <4> HIDE DEF new
      <4> QED BY <4>1
    <3>5. g3.serial \notin front
      BY <1>9, <3>4
    <3>6. g3.serial \in Live(g4) /\ Size(g4) <= Size(g3) + 1
      BY <1>10, <3>4
    <3>7. Sound(g4) /\ Dense(g4) /\ g4.hold = NoHold
      BY <1>8, <3>3 DEF Repaired, Selection
    <3>8. \A w \in front : w \in Live(g4) /\ IsFirst(g4, w) /\ Empty(g4, w)
      BY <1>9, <3>4
    <3>9. \A w \in Live(g4) : /\ w \in Live(g3) \/ IsLast(g4, w)
                              /\ w \in Live(g3) => (Empty(g4, w) <=> Empty(g3, w))
                              /\ w \in Live(g3) => (Reserved(g4, w) <=> Reserved(g3, w))
      BY <3>4
    <3> QED BY <2>1, <3>3, <3>4, <3>5, <3>6, <3>7, <3>8, <3>9
  <2>2. CASE ~(/\ Size(g3) < MaxWorkspaces
               /\ \A w \in Live(g3) : IsLast(g3, w) => ~Empty(g3, w) \/ w \in front)
    <3>1. g4 = g3
      BY <2>2 DEF AppendSentinel
    <3> HIDE DEF g4
    <3> QED BY <1>8, <1>9, <1>10, <2>2, <3>1, RepairedAlready
  <2> QED BY <2>1, <2>2
<1> HIDE DEF g4
<1>12. Size(g4) \in Nat /\ Size(g4) >= 1 /\ Size(g4) <= MaxWorkspaces
  BY <1>0, <1>11 DEF Dense
<1>13. /\ Repaired(g4, g5, c) /\ Sound(g5) /\ Dense(g5) /\ g5.hold = NoHold
       /\ Size(g5) <= Size(g4) + 1
       /\ Sentinels(g5, c)
       /\ \A w \in Live(g5) : /\ w \in Live(g4) \/ (c.emptyAbove /\ IsFirst(g5, w))
                              /\ w \in Live(g4) => (Empty(g5, w) <=> Empty(g4, w))
                              /\ w \in Live(g4) => (Reserved(g5, w) <=> Reserved(g4, w))
                              /\ w \in Live(g4) /\ IsLast(g4, w) => IsLast(g5, w)
                              /\ w \in front => c.emptyAbove /\ IsFirst(g5, w)
  <2>1. CASE c.emptyAbove /\ front = {} /\ Size(g4) < MaxWorkspaces
    <3>1. g5 = InsertAt(g4, 0, 1)
      BY <2>1 DEF PrependSentinel
    <3>2. 0 \in 0 .. Size(g4) /\ Size(g4) + 1 <= MaxWorkspaces /\ 1 # 0
      BY <1>0, <1>12, <2>1
    <3> HIDE DEF g5
    <3>3. Repaired(g4, g5, c)
      BY <1>0, <1>11, <3>1, <3>2, InsertAtRepairs
    <3>4. /\ Live(g5) = Live(g4) \cup {g4.serial}
          /\ Size(g5) = Size(g4) + 1
          /\ \A w \in Live(g4) : /\ Empty(g5, w) <=> Empty(g4, w)
                                 /\ Reserved(g5, w) <=> Reserved(g4, w)
                                 /\ IsLast(g4, w) => IsLast(g5, w)
          /\ IsFirst(g5, g4.serial) /\ ~IsLast(g5, g4.serial) /\ Empty(g5, g4.serial)
      <4> DEFINE new == Fresh(g4, 1)
      <4>1. /\ Live(g5) = Live(g4) \cup new /\ new = {g4.serial}
            /\ Size(g5) = Size(g4) + 1
            /\ \A w \in Live(g4) : /\ Empty(g5, w) <=> Empty(g4, w)
                                   /\ Reserved(g5, w) <=> Reserved(g4, w)
            /\ \A w \in new : Empty(g5, w)
            /\ \A w \in Live(g4) : IsLast(g4, w) => IsLast(g5, w)
            /\ IsFirst(g5, g4.serial) /\ ~IsLast(g5, g4.serial)
        BY <1>0, <1>11, <3>1, <3>2, InsertAtEnds
      <4> HIDE DEF new
      <4> QED BY <4>1
    <3>5. Sentinels(g5, c)
      <4>1. g4.serial \in Live(g5)
        BY <3>4
      <4>2. PICK w \in Live(g4) : IsLast(g4, w) /\ Empty(g4, w)
        BY <1>11, <2>1
      <4>3. w \in Live(g5) /\ IsLast(g5, w) /\ Empty(g5, w)
        BY <3>4, <4>2
      <4> QED BY <3>4, <4>1, <4>3 DEF Sentinels
    <3>6. Size(g5) <= Size(g4) + 1
      BY <1>12, <3>4
    <3>7. Sound(g5) /\ Dense(g5) /\ g5.hold = NoHold
      BY <1>11, <3>3 DEF Repaired, Selection
    <3> QED BY <2>1, <3>3, <3>4, <3>5, <3>6, <3>7
  <2>2. CASE ~(c.emptyAbove /\ front = {} /\ Size(g4) < MaxWorkspaces)
    <3>1. g5 = g4
      BY <2>2 DEF PrependSentinel
    <3> HIDE DEF g5
    <3>2. ASSUME Size(g4) < MaxWorkspaces, c.emptyAbove
          PROVE  \E w \in Live(g4) : IsFirst(g4, w) /\ ~IsLast(g4, w) /\ Empty(g4, w)
      <4>1. PICK x \in Live(g4) : IsLast(g4, x) /\ x \notin front
        BY <1>11, <3>2
      <4>2. PICK w \in front : TRUE
        BY <2>2, <3>2
      <4>3. w \in Live(g4) /\ IsFirst(g4, w) /\ Empty(g4, w)
        BY <1>11
      <4>4. ~IsLast(g4, w)
        BY <1>11, <4>1, <4>2, <4>3, OneLast
      <4> QED BY <4>3, <4>4
    <3>3. Sentinels(g5, c)
      BY <1>11, <3>1, <3>2 DEF Sentinels
    <3>4. Size(g5) <= Size(g4) + 1
      BY <1>12, <3>1
    <3> QED BY <1>6, <1>11, <3>1, <3>3, <3>4, RepairedAlready
  <2> QED BY <2>1, <2>2
<1> HIDE DEF g5
<1>14. /\ h = [f \in Fields |-> h[f]] /\ \A f \in Fields \ {"previous"} : h[f] = g5[f]
       /\ h.previous = IF g5.previous = g5.active THEN None ELSE g5.previous
  BY <1>13 DEF Sound, WellTyped, Fields, ForgetRevisit
<1>15. Sound(h)
  BY <1>13, ForgetRevisitSound
<1> HIDE DEF h
<1>16. /\ h.index = g5.index /\ h.label = g5.label /\ h.home = g5.home /\ h.launch = g5.launch
       /\ h.active = g5.active /\ Live(h) = Live(g5) /\ Size(h) = Size(g5)
  BY <1>14 DEF Fields, Live, Size
<1>17. Repaired(g5, h, c)
  <2>1. Dense(h)
    BY <1>13, <1>16, SameOrder
  <2>2. \A f \in Selection : h[f] = g5[f]
    BY <1>14 DEF Selection, Fields
  <2>3. h.previous \in {g5.previous, None}
    BY <1>14
  <2>4. \A l \in Launches : g5.launch[l] # None => g5.launch[l] \in Live(g5)
    BY <1>13 DEF Sound, PointsAtLive, OptionalOf
  <2> QED BY <1>15, <1>16, <2>1, <2>2, <2>3, <2>4 DEF Repaired
<1>18. Repaired(g, h, c)
  BY <1>1, <1>2, <1>3, <1>8, <1>11, <1>13, <1>17, RepairedTwice
<1>19. h.previous = None \/ h.previous # h.active
  BY <1>14, <1>16
<1>20. Sentinels(h, c)
  BY <1>13, <1>16 DEF Sentinels, IsFirst, IsLast, Empty, Occupied
<1>21. ASSUME Size(h) > c.minimum + 2, NEW w \in Live(h), StrayIn(h, c, w)
       PROVE  FALSE
  <2>1. /\ w \in Live(g5) /\ Empty(g5, w) /\ ~Reserved(g5, w) /\ w # g5.active
        /\ ~IsLast(g5, w) /\ ~(c.emptyAbove /\ IsFirst(g5, w))
    BY <1>16, <1>21 DEF StrayIn, Empty, Occupied, Reserved, IsLast, IsFirst
  <2>2. w \in Live(g4) /\ Empty(g4, w) /\ ~Reserved(g4, w) /\ ~IsLast(g4, w) /\ w \notin front
    BY <1>13, <2>1
  <2>3. w \in Live(g3) /\ Empty(g3, w) /\ ~Reserved(g3, w) /\ ~IsLast(g3, w)
    BY <1>11, <2>2
  <2>4. Size(g3) > c.minimum
    <3>1. Size(g5) \in Nat /\ c.minimum \in Nat
      BY <1>0, <1>13, SizeIsNat
    <3>2. Size(g5) <= Size(g4) + 1 /\ Size(g4) <= Size(g3) + 1 /\ Size(g5) > c.minimum + 2
      BY <1>11, <1>13, <1>16, <1>21
    <3> QED BY <1>10, <1>12, <3>1, <3>2
  <2>5. g3 = g2 /\ Size(g2) > c.minimum
    BY <1>8, <2>4
  <2>6. w \in Live(g1) /\ w \notin Prunable(g1, c) /\ Empty(g1, w) /\ ~Reserved(g1, w) /\ ~IsLast(g1, w)
    BY <1>4, <2>3, <2>5
  <2>7. w # g1.active
    <3>1. g5.active = g1.active
      BY <1>3, <1>8, <1>11, <1>13 DEF Repaired, Selection
    <3> QED BY <2>1, <3>1
  <2>8. w \notin FrontKeeper(g1, c)
    BY <2>2 DEF front
  <2>9. w \notin ActiveKeeper(g1) /\ w \notin BackKeeper(g1, c)
    BY <2>6, <2>7 DEF ActiveKeeper, BackKeeper
  <2> QED BY <2>6, <2>8, <2>9 DEF Prunable
<1>22. Tidy(h, c)
  BY <1>20, <1>21 DEF Tidy
<1>23. Rebuild(g, c) = h
  BY DEF Rebuild, h, g5, g4, g3, g2, g1, g0, front
<1> QED BY <1>18, <1>19, <1>22, <1>23

-----------------------------------------------------------------------------
(* What one group record says of itself.                                   *)

\* m_previous is another workspace than m_active, and nothing without it.
Elsewhere(g) == g.previous = None \/ (g.active # None /\ g.previous # g.active)

\* A slide has a landing or a swipe that ends it.
Ends(g) == SlideActive(g) => g.slide.settling \/ g.gesture

\* Once no slide is on and nothing is put off, the inventory is tidy.
Quiet(g, c) ==
  (g.dynamic /\ c.dynamic /\ ~SlideActive(g) /\ ~g.pending) => Tidy(g, c)

\* From g to h only the selection, the slide, the hold and what is put off
\* changed, and the selection not for the worse.
Shifts(g, h) ==
  /\ Sound(h)
  /\ \A f \in Inventory \cup {"dynamic"} : h[f] = g[f]
  /\ Elsewhere(g) => Elsewhere(h)
  /\ g.active # None => h.active # None
  /\ g.active # None /\ ~g.wild => ~h.wild

\* The slide is not left without an end either.
Moves(g, h) == Shifts(g, h) /\ (Ends(g) => Ends(h))

\* If nothing is left to be done in h, nothing was in g and nobody switched.
Rests(g, h) ==
  (h.dynamic /\ ~SlideActive(h) /\ ~h.pending) =>
    ~SlideActive(g) /\ ~g.pending /\ h.active = g.active

\* Views stay at home, a launch keeps an anonymous workspace anonymous, and a
\* workspace whose name stays declared keeps its identity.
Preserves(g, h, c) ==
  /\ h.home = g.home /\ h.dynamic = g.dynamic
  /\ \A l \in Launches : h.launch[l] \in {g.launch[l], None}
  /\ \A l \in Launches : g.launch[l] # None /\ g.label[g.launch[l]] = Anonymous =>
       h.launch[l] = g.launch[l] /\ h.label[g.launch[l]] = Anonymous
  /\ \A w \in Live(g) :
       g.label[w] # Anonymous /\ (c.dynamic => g.label[w] \in Wanted(c)) =>
         w \in Live(h) /\ h.label[w] = g.label[w]

\* What a handler keeps under the configuration c once the users are edited.
Follows(g, h, c) ==
  /\ Sound(h) /\ Dense(h)
  /\ Preserves(g, h, c)
  /\ Elsewhere(g) => Elsewhere(h)
  /\ g.active # None => h.active # None
  /\ g.active # None /\ ~g.wild => ~h.wild
  /\ Ends(g) => Ends(h)
  /\ Quiet(g, c) => Quiet(h, c)
  /\ Abandoned(h) => Abandoned(g)

\* One after the other keeps what both keep.
LEMMA FollowsTwice ==
  ASSUME NEW g, NEW h, NEW k, NEW c, Follows(g, h, c), Follows(h, k, c)
  PROVE  Follows(g, k, c)
<1>1. k.home = g.home /\ k.dynamic = g.dynamic
  BY DEF Follows, Preserves
<1>2. \A l \in Launches : k.launch[l] \in {g.launch[l], None}
  BY DEF Follows, Preserves
<1>3. \A l \in Launches : g.launch[l] # None /\ g.label[g.launch[l]] = Anonymous =>
       k.launch[l] = g.launch[l] /\ k.label[g.launch[l]] = Anonymous
  BY DEF Follows, Preserves
<1>4. \A w \in Live(g) :
       g.label[w] # Anonymous /\ (c.dynamic => g.label[w] \in Wanted(c)) =>
         w \in Live(k) /\ k.label[w] = g.label[w]
  BY DEF Follows, Preserves
<1>5. Preserves(g, k, c)
  BY <1>1, <1>2, <1>3, <1>4 DEF Preserves
<1> QED BY <1>5 DEF Follows

\* Some moves after others.
LEMMA MovesTwice ==
  ASSUME NEW g, NEW h, NEW k, Moves(g, h), Moves(h, k)
  PROVE  Moves(g, k)
BY DEF Moves, Shifts

\* A move that leaves nothing undone keeps everything.
LEMMA MoveFollows ==
  ASSUME NEW g, Sound(g), Dense(g), NEW h, NEW c, Moves(g, h), Rests(g, h),
         Abandoned(h) => Abandoned(g)
  PROVE  Follows(g, h, c)
<1>1. /\ h.index = g.index /\ h.label = g.label /\ h.home = g.home
      /\ h.launch = g.launch /\ h.dynamic = g.dynamic
  BY DEF Moves, Shifts, Inventory
<1>2. Live(h) = Live(g) /\ Size(h) = Size(g)
  BY <1>1 DEF Live, Size
<1>3. Dense(h)
  BY <1>1, SameOrder
<1>4. Preserves(g, h, c)
  BY <1>1, <1>2 DEF Preserves
<1>5. ASSUME Quiet(g, c) PROVE Quiet(h, c)
  <2> SUFFICES ASSUME h.dynamic, c.dynamic, ~SlideActive(h), ~h.pending PROVE Tidy(h, c)
    BY DEF Quiet
  <2>1. Tidy(g, c) /\ h.active = g.active
    BY <1>1, <1>5 DEF Quiet, Rests
  <2> QED BY <1>1, <1>2, <2>1 DEF Tidy, Sentinels, StrayIn, Empty, Occupied, Reserved, IsFirst, IsLast
<1> QED BY <1>3, <1>4, <1>5 DEF Follows, Moves, Shifts

-----------------------------------------------------------------------------
(* Reconciling.                                                            *)

\* The body of reconcileDynamic takes the pending flag down.
LEMMA RebuildSettles ==
  ASSUME NEW g, Sound(g), NEW c
  PROVE  Rebuild(g, c).pending = FALSE
<1> DEFINE Like(h) == h = [f \in Fields |-> h[f]] /\ h.pending = FALSE
           g0 == [g EXCEPT !.pending = FALSE]
           g1 == ReconcileNames(g0, c)
           front == FrontKeeper(g1, c)
           g2 == Erase(g1, Pruned(g1, c))
           g3 == FillToMinimum(g2, c)
           g4 == AppendSentinel(g3, front)
           g5 == PrependSentinel(g4, c, front)
<1>1. Like(g0)
  BY DEF Sound, WellTyped, Fields
<1>2. ASSUME NEW h, Like(h)
      PROVE  /\ Like(DropUnwantedNames(h, c)) /\ Like(InsertNames(h, c))
             /\ Like(ClaimForNames(h, c)) /\ Like(ForgetRevisit(h))
  <2>1. Like(DropUnwantedNames(h, c))
    BY SMTT(40), <1>2 DEF DropUnwantedNames, Fields
  <2>2. Like(InsertNames(h, c))
    BY ZenonT(60), <1>2 DEF InsertNames, Fields
  <2>3. Like(ClaimForNames(h, c))
    BY ZenonT(60), <1>2 DEF ClaimForNames, Fields
  <2>4. Like(ForgetRevisit(h))
    BY <1>2 DEF ForgetRevisit, Fields
  <2> QED BY <2>1, <2>2, <2>3, <2>4
<1>3. ASSUME NEW h, Like(h), NEW x PROVE Like(Erase(h, x))
  BY <1>3 DEF Erase, Fields
<1>4. ASSUME NEW h, Like(h), NEW i, NEW n PROVE Like(InsertAt(h, i, n))
  BY <1>4 DEF InsertAt, Fields
<1> HIDE DEF Like, g0
<1>5. Like(g1)
  BY <1>1, <1>2 DEF ReconcileNames
<1> HIDE DEF g1, front
<1>6. Like(g2)
  BY <1>3, <1>5
<1> HIDE DEF g2
<1>7. Like(g3)
  BY <1>4, <1>6 DEF FillToMinimum
<1> HIDE DEF g3
<1>8. Like(g4)
  BY <1>4, <1>7 DEF AppendSentinel
<1> HIDE DEF g4
<1>9. Like(g5)
  BY <1>4, <1>8 DEF PrependSentinel
<1> HIDE DEF g5
<1>10. Rebuild(g, c) = ForgetRevisit(g5)
  BY DEF Rebuild, g5, g4, g3, g2, front, g1, g0
<1> QED BY <1>2, <1>9, <1>10 DEF Like

\* Whichever of its early returns reconcileDynamic takes, it loses nothing,
\* leaves nothing undone that nobody will do, and if no slide is on and nothing
\* is put off afterwards, the inventory is tidy.
LEMMA ReconcileRepairs ==
  ASSUME NEW g, Sound(g), Dense(g), NEW c \in Configs
  PROVE  LET h == Reconcile(g, c)
         IN  /\ Repaired(g, h, c)
             /\ Elsewhere(g) => Elsewhere(h)
             /\ Quiet(h, c) /\ ~Abandoned(h)
<1> DEFINE h == Reconcile(g, c)
<1>0. g.dynamic \in BOOLEAN /\ g.pending \in BOOLEAN /\ c.dynamic \in BOOLEAN
  BY ConstantAssumption DEF Sound, WellTyped, ConfigType
<1>1. CASE ~g.dynamic
  <2>1. h = g
    BY <1>1 DEF Reconcile
  <2> HIDE DEF h
  <2>2. Repaired(g, h, c) /\ Quiet(h, c) /\ ~Abandoned(h)
    BY <1>1, <2>1, RepairedAlready DEF Quiet, Abandoned
  <2> QED BY <2>1, <2>2 DEF h
<1>2. CASE g.dynamic /\ g.hold # NoHold
  <2>1. h = [g EXCEPT !.pending = TRUE] /\ h = Defer(g)
    BY <1>2 DEF Reconcile, Defer
  <2>2. h.pending = TRUE
    BY <2>1 DEF Sound, WellTyped, Fields
  <2> HIDE DEF h
  <2>3. Sound(h) /\ Live(h) = Live(g) /\ \A f \in Fields \ {"pending"} : h[f] = g[f]
    BY <2>1, DeferSound
  <2>4. /\ \A f \in Selection \cup {"launch", "previous"} : h[f] = g[f]
        /\ h.index = g.index /\ h.label = g.label /\ h.hold = g.hold
    BY <2>3 DEF Fields, Selection
  <2>5. Dense(h)
    BY <2>4, SameOrder
  <2>6. Repaired(g, h, c)
    BY <2>3, <2>4, <2>5, KeepsAll
  <2>7. Elsewhere(g) => Elsewhere(h)
    BY <2>4 DEF Elsewhere, Selection
  <2>8. Quiet(h, c)
    BY <2>2 DEF Quiet
  <2>9. ~Abandoned(h)
    BY <1>2, <2>4 DEF Abandoned
  <2> QED BY <2>6, <2>7, <2>8, <2>9 DEF h
<1>3. CASE g.dynamic /\ g.hold = NoHold /\ SlideActive(g)
  <2>1. h = g
    BY <1>3 DEF Reconcile
  <2> HIDE DEF h
  <2>2. Repaired(g, h, c) /\ Quiet(h, c) /\ ~Abandoned(h)
    BY <1>3, <2>1, RepairedAlready DEF Quiet, Abandoned
  <2> QED BY <2>1, <2>2 DEF h
<1>4. CASE g.dynamic /\ g.hold = NoHold /\ ~SlideActive(g) /\ ~c.dynamic
  <2>1. h = [g EXCEPT !.pending = FALSE]
    BY <1>4 DEF Reconcile
  <2>2. h.pending = FALSE /\ \A f \in Fields \ {"pending"} : h[f] = g[f]
    BY <2>1 DEF Sound, WellTyped, Fields
  <2>3. Sound(h)
    BY ReconcileSound
  <2> HIDE DEF h
  <2>4. /\ \A f \in Selection \cup {"launch", "previous"} : h[f] = g[f]
        /\ h.index = g.index /\ h.label = g.label /\ Live(h) = Live(g)
    BY <2>2 DEF Fields, Selection, Live
  <2>5. Dense(h)
    BY <2>4, SameOrder
  <2>6. Repaired(g, h, c)
    BY <2>3, <2>4, <2>5, KeepsAll
  <2>7. Elsewhere(g) => Elsewhere(h)
    BY <2>4 DEF Elsewhere, Selection
  <2>8. Quiet(h, c)
    BY <1>4 DEF Quiet
  <2>9. ~Abandoned(h)
    BY <2>2 DEF Abandoned
  <2> QED BY <2>6, <2>7, <2>8, <2>9 DEF h
<1>5. CASE g.dynamic /\ g.hold = NoHold /\ ~SlideActive(g) /\ c.dynamic
  <2>1. h = Rebuild(g, c)
    BY <1>5 DEF Reconcile
  <2>2. g.slide = NoSlide
    BY <1>5 DEF Sound, WellTyped
  <2> HIDE DEF h
  <2>3. Repaired(g, h, c) /\ Tidy(h, c) /\ (h.previous = None \/ h.previous # h.active)
    BY <1>5, <2>1, <2>2, RebuildRepairs
  <2>4. h.pending = FALSE
    BY <2>1, RebuildSettles
  <2>5. Elsewhere(g) => Elsewhere(h)
    BY <2>3 DEF Elsewhere, Repaired, Selection
  <2> QED BY <2>3, <2>4, <2>5 DEF Quiet, Abandoned, h
<1> QED BY <1>0, <1>1, <1>2, <1>3, <1>4, <1>5

\* Moving and then reconciling keeps everything, whatever the move left
\* undone.
LEMMA ReconcileFollows ==
  ASSUME NEW g, Sound(g), Dense(g), NEW k, Moves(g, k), NEW c \in Configs
  PROVE  /\ Follows(g, Reconcile(k, c), c)
         /\ Quiet(Reconcile(k, c), c) /\ ~Abandoned(Reconcile(k, c))
<1> DEFINE h == Reconcile(k, c)
<1>1. /\ k.index = g.index /\ k.label = g.label /\ k.home = g.home
      /\ k.launch = g.launch /\ k.dynamic = g.dynamic /\ Live(k) = Live(g)
  BY DEF Moves, Shifts, Inventory, Live
<1>2. Sound(k) /\ Dense(k)
  BY <1>1, SameOrder DEF Moves, Shifts
<1>3. Repaired(k, h, c) /\ (Elsewhere(k) => Elsewhere(h)) /\ Quiet(h, c) /\ ~Abandoned(h)
  BY <1>2, ReconcileRepairs
<1> HIDE DEF h
<1>4. Preserves(k, h, c)
  BY <1>3 DEF Repaired, Preserves, Selection
<1>5. Preserves(g, h, c)
  BY <1>1, <1>4 DEF Preserves
<1>6. h.active = k.active /\ h.wild = k.wild /\ h.slide = k.slide /\ h.gesture = k.gesture
  BY <1>3 DEF Repaired, Selection
<1>7. Ends(k) => Ends(h)
  BY <1>6 DEF Ends, SlideActive
<1>8. Follows(g, h, c)
  BY <1>3, <1>5, <1>6, <1>7 DEF Follows, Moves, Shifts, Repaired
<1> QED BY <1>3, <1>8 DEF h

-----------------------------------------------------------------------------
(* Selections, slides and holds.                                           *)

\* Moving nothing.
LEMMA MovesNot ==
  ASSUME NEW g, Sound(g)
  PROVE  Moves(g, g) /\ Rests(g, g)
BY DEF Moves, Shifts, Rests

\* Taking a hold away moves nothing else (invalidatePresentationInventory).
LEMMA InvalidateMoves ==
  ASSUME NEW g, Sound(g)
  PROVE  /\ Moves(g, Invalidate(g)) /\ Rests(g, Invalidate(g))
         /\ Live(Invalidate(g)) = Live(g) /\ Invalidate(g).active = g.active
         /\ Invalidate(g).hold = NoHold /\ Invalidate(g).pending = g.pending
<1> DEFINE h == Invalidate(g)
<1>1. /\ Sound(h) /\ Live(h) = Live(g) /\ h.hold = NoHold
      /\ \A f \in Fields \ {"hold"} : h[f] = g[f]
  BY InvalidateSound
<1> HIDE DEF h
<1>2. /\ \A f \in Inventory \cup {"dynamic"} : h[f] = g[f]
      /\ h.active = g.active /\ h.previous = g.previous /\ h.wild = g.wild
      /\ h.slide = g.slide /\ h.gesture = g.gesture /\ h.pending = g.pending
  BY <1>1 DEF Fields, Inventory
<1>3. Moves(g, h)
  BY <1>1, <1>2 DEF Moves, Shifts, Elsewhere, Ends, SlideActive
<1>4. Rests(g, h)
  BY <1>2 DEF Rests, SlideActive
<1> QED BY <1>1, <1>2, <1>3, <1>4 DEF h

\* Ending a slide moves nothing else (slideFinish).
LEMMA SlideFinishMoves ==
  ASSUME NEW g, Sound(g)
  PROVE  /\ Moves(g, SlideFinish(g)) /\ Live(SlideFinish(g)) = Live(g)
         /\ SlideFinish(g).active = g.active
<1> DEFINE h == SlideFinish(g)
<1>1. /\ Sound(h) /\ Live(h) = Live(g) /\ h.slide = NoSlide
      /\ \A f \in Fields \ {"slide"} : h[f] = g[f]
  BY SlideFinishSound
<1> HIDE DEF h
<1>2. /\ \A f \in Inventory \cup {"dynamic"} : h[f] = g[f]
      /\ h.active = g.active /\ h.previous = g.previous /\ h.wild = g.wild
  BY <1>1 DEF Fields, Inventory
<1>3. ~SlideActive(h)
  BY <1>1 DEF SlideActive, NoSlide
<1> QED BY <1>1, <1>2, <1>3 DEF h, Moves, Shifts, Elsewhere, Ends

\* Switching to another live workspace remembers the one that was active
\* (commitSelection).
LEMMA SwitchToMoves ==
  ASSUME NEW g, Sound(g), NEW w \in Live(g), w # g.active
  PROVE  Moves(g, SwitchTo(g, w)) /\ SwitchTo(g, w).active = w
<1> DEFINE h == SwitchTo(g, w)
<1>1. /\ Sound(h) /\ h.active = w /\ h.wild = g.wild
      /\ \A f \in Fields \ {"active", "previous", "wild"} : h[f] = g[f]
  BY SwitchToSound
<1>2. h.previous = IF g.active = None THEN g.previous ELSE g.active
  BY DEF Sound, WellTyped, Fields, SwitchTo
<1>3. w # None
  BY ConstantAssumption DEF Sound, WellTyped
<1> HIDE DEF h
<1>4. /\ \A f \in Inventory \cup {"dynamic"} : h[f] = g[f]
      /\ h.slide = g.slide /\ h.gesture = g.gesture
  BY <1>1 DEF Fields, Inventory
<1>5. Elsewhere(g) => Elsewhere(h)
  BY <1>1, <1>2, <1>3 DEF Elsewhere
<1>6. Ends(g) => Ends(h)
  BY <1>4 DEF Ends, SlideActive
<1>7. Moves(g, h)
  BY <1>1, <1>3, <1>4, <1>5, <1>6 DEF Moves, Shifts
<1> QED BY <1>1, <1>7 DEF h

\* A switch without animation is a move and a reconciliation (activate).
LEMMA SwitchNowFollows ==
  ASSUME NEW g, Sound(g), Dense(g), NEW k, Moves(g, k), NEW c \in Configs,
         NEW w \in Live(k), w # k.active
  PROVE  /\ Follows(g, SwitchNow(k, c, w), c)
         /\ Quiet(SwitchNow(k, c, w), c) /\ ~Abandoned(SwitchNow(k, c, w))
<1> DEFINE g1 == Invalidate(k)
           g2 == SlideFinish(g1)
           g3 == SwitchTo(g2, w)
<1>0. Sound(k)
  BY DEF Moves, Shifts
<1>1. Moves(k, g1) /\ Sound(g1) /\ Live(g1) = Live(k) /\ g1.active = k.active
  BY <1>0, InvalidateMoves, InvalidateSound
<1> HIDE DEF g1
<1>2. Moves(g1, g2) /\ Sound(g2) /\ Live(g2) = Live(k) /\ g2.active = k.active
  BY <1>1, SlideFinishMoves, SlideFinishSound
<1> HIDE DEF g2
<1>3. Moves(g2, g3)
  BY <1>2, SwitchToMoves
<1> HIDE DEF g3
<1>4. Moves(g, g3)
  BY <1>1, <1>2, <1>3, MovesTwice
<1>5. SwitchNow(k, c, w) = Reconcile(g3, c)
  BY DEF SwitchNow, g1, g2, g3
<1> QED BY <1>4, <1>5, ReconcileFollows

\* A switch that slides has a landing (activate, slideBegin, slideSettle).
LEMMA StartSlideMoves ==
  ASSUME NEW g, Sound(g), NEW w \in Live(g), g.active # None, w # g.active
  PROVE  Moves(g, StartSlide(g, w)) /\ SlideActive(StartSlide(g, w))
<1> DEFINE g1 == Invalidate(g)
           g2 == SwitchTo(g1, w)
           h == StartSlide(g, w)
           slide == [base |-> g.active,
                     previous |-> IF g.index[w] < g.index[g.active] THEN w ELSE None,
                     next |-> IF g.index[w] < g.index[g.active] THEN None ELSE w,
                     settling |-> TRUE]
<1>1. Moves(g, g1) /\ Sound(g1) /\ Live(g1) = Live(g) /\ g1.active = g.active
  BY InvalidateMoves, InvalidateSound
<1> HIDE DEF g1
<1>2. Moves(g1, g2) /\ Sound(g2)
  BY <1>1, SwitchToMoves, SwitchToSound
<1> HIDE DEF g2
<1>3. Moves(g, g2)
  BY <1>1, <1>2, MovesTwice
<1>4. h = [g2 EXCEPT !.slide = slide]
  BY DEF StartSlide, g1, g2
<1>5. Sound(h)
  BY StartSlideSound
<1> HIDE DEF h
<1>6. /\ \A f \in Fields \ {"slide"} : h[f] = g2[f]
      /\ h.slide = slide
  BY <1>2, <1>4 DEF Sound, WellTyped, Fields
<1>7. h.slide.base = g.active /\ h.slide.settling = TRUE
  BY <1>6
<1>8. /\ \A f \in Inventory \cup {"dynamic"} : h[f] = g2[f]
      /\ h.active = g2.active /\ h.previous = g2.previous /\ h.wild = g2.wild
  BY <1>6 DEF Fields, Inventory
<1>9. Ends(h) /\ SlideActive(h)
  BY <1>7 DEF Ends, SlideActive
<1>10. Moves(g2, h)
  BY <1>5, <1>8, <1>9 DEF Moves, Shifts, Elsewhere
<1> QED BY <1>3, <1>9, <1>10, MovesTwice DEF h

\* Deferring raises the flag of a dynamic group and moves nothing
\* (m_inventoryReconciliationPending).
LEMMA DeferMoves ==
  ASSUME NEW g, Sound(g)
  PROVE  /\ Moves(g, Defer(g)) /\ Defer(g).hold = g.hold
         /\ Defer(g).dynamic => Defer(g).pending
         /\ Defer(g).active = g.active
<1> DEFINE h == Defer(g)
<1>1. Sound(h) /\ \A f \in Fields \ {"pending"} : h[f] = g[f]
  BY DeferSound
<1>2. h.dynamic => h.pending
  BY DEF Defer, Sound, WellTyped, Fields
<1> HIDE DEF h
<1>3. /\ \A f \in Inventory \cup {"dynamic"} : h[f] = g[f]
      /\ h.active = g.active /\ h.previous = g.previous /\ h.wild = g.wild
      /\ h.slide = g.slide /\ h.gesture = g.gesture /\ h.hold = g.hold
  BY <1>1 DEF Fields, Inventory
<1> QED BY <1>1, <1>2, <1>3 DEF h, Moves, Shifts, Elsewhere, Ends, SlideActive

\* A transition that makes its switch under its own hold puts the
\* reconciliation off (activateSelection).
LEMMA ActivateSelectionMoves ==
  ASSUME NEW g, Sound(g), NEW w
  PROVE  /\ Moves(g, ActivateSelection(g, w)) /\ Rests(g, ActivateSelection(g, w))
         /\ ActivateSelection(g, w).hold = g.hold
<1>1. CASE w \notin Live(g) \cap DOMAIN g.hold.order
  <2>1. ActivateSelection(g, w) = g
    BY <1>1 DEF ActivateSelection
  <2> QED BY <2>1, MovesNot
<1>2. CASE w \in Live(g) \cap DOMAIN g.hold.order
  <2> DEFINE g1 == SlideFinish(g)
             g2 == SwitchTo(g1, w)
             g3 == IF g.active = w THEN g ELSE g2
  <2>1. Moves(g, g1) /\ Sound(g1) /\ Live(g1) = Live(g) /\ g1.active = g.active
    BY SlideFinishMoves, SlideFinishSound
  <2> HIDE DEF g1
  <2>2. w # g.active => Moves(g1, g2)
    BY <1>2, <2>1, SwitchToMoves
  <2> HIDE DEF g2
  <2>3. Moves(g, g3) /\ Sound(g3)
    BY <2>1, <2>2, MovesTwice, MovesNot DEF Moves, Shifts
  <2>4. ActivateSelection(g, w) = Defer(g3)
    BY <1>2 DEF ActivateSelection, g1, g2
  <2> HIDE DEF g3
  <2>5. /\ Moves(g3, Defer(g3)) /\ (Defer(g3).dynamic => Defer(g3).pending)
    BY <2>3, DeferMoves
  <2>6. Moves(g, Defer(g3)) /\ Rests(g, Defer(g3))
    BY <2>3, <2>5, MovesTwice DEF Rests
  <2> QED BY <2>4, <2>6, ActivateSelectionSound
<1> QED BY <1>1, <1>2

\* A cancelled transition that still makes its switch (WorkspaceTransition::cancel).
LEMMA FinishRequestedMoves ==
  ASSUME NEW g, Sound(g)
  PROVE  /\ Moves(g, FinishRequested(g)) /\ Rests(g, FinishRequested(g))
         /\ Sound(FinishRequested(g))
BY ActivateSelectionMoves, MovesNot, FinishRequestedSound DEF FinishRequested

\* Releasing the hold makes up for what was put off
\* (releasePresentationInventory).
LEMMA ReleaseHoldFollows ==
  ASSUME NEW g, Sound(g), Dense(g), NEW k, Moves(g, k), Rests(g, k), NEW c \in Configs
  PROVE  Follows(g, ReleaseHold(k, c), c) /\ ~Abandoned(ReleaseHold(k, c))
<1> DEFINE free == Invalidate(k)
<1>1. /\ Moves(k, free) /\ Rests(k, free) /\ free.pending = k.pending
  BY InvalidateMoves DEF Moves, Shifts
<1> HIDE DEF free
<1>2. Moves(g, free) /\ Rests(g, free)
  <2>1. Moves(g, free)
    BY <1>1, MovesTwice
  <2>2. free.dynamic = k.dynamic /\ k.active = k.active
    BY <1>1 DEF Moves, Shifts
  <2>3. Rests(g, free)
    BY <1>1, <2>2 DEF Rests
  <2> QED BY <2>1, <2>3
<1>3. CASE k.pending
  <2>1. ReleaseHold(k, c) = Reconcile(free, c)
    BY <1>3 DEF ReleaseHold, free
  <2> QED BY <1>2, <2>1, ReconcileFollows
<1>4. CASE ~k.pending
  <2>1. ReleaseHold(k, c) = free
    BY <1>4 DEF ReleaseHold, free
  <2>2. ~Abandoned(free)
    BY <1>1, <1>4 DEF Abandoned
  <2> QED BY <1>2, <2>1, <2>2, MoveFollows
<1> QED BY <1>3, <1>4

\* Cancelling a scene transition (WorkspaceTransition::cancel).
LEMMA CancelPairFollows ==
  ASSUME NEW g, Sound(g), Dense(g), NEW c \in Configs
  PROVE  Follows(g, CancelPair(g, c), c) /\ ~Abandoned(CancelPair(g, c))
BY FinishRequestedMoves, ReleaseHoldFollows DEF CancelPair

\* The cancel inside activate reconciles nothing yet.
LEMMA InterruptMoves ==
  ASSUME NEW g, Sound(g), NEW c
  PROVE  /\ Moves(g, Interrupt(g, c)) /\ Rests(g, Interrupt(g, c))
         /\ Live(Interrupt(g, c)) = Live(g)
<1> DEFINE g1 == FinishRequested(g)
           g2 == Invalidate(g1)
<1>1. Moves(g, g1) /\ Rests(g, g1) /\ Sound(g1)
  BY FinishRequestedMoves
<1> HIDE DEF g1
<1>2. Moves(g1, g2) /\ Rests(g1, g2)
  BY <1>1, InvalidateMoves
<1>3. Interrupt(g, c) \in {g, g2}
  BY DEF Interrupt, g1
<1> HIDE DEF g2
<1>4. Moves(g, g2) /\ Rests(g, g2)
  <2>1. g2.dynamic = g1.dynamic
    BY <1>2 DEF Moves, Shifts
  <2> QED BY <1>1, <1>2, <2>1, MovesTwice DEF Rests
<1> QED BY <1>3, <1>4, MovesNot, InterruptSound

\* A hold taken moves nothing (holdPresentationInventory).
LEMMA TakeHoldMoves ==
  ASSUME NEW g, Sound(g), MayHold(g),
         NEW owner \in {"pair", "set"}, NEW target \in OptionalOf(Live(g)),
         NEW phase \in {"interactive", "preparing", "ending", "shown"}
  PROVE  /\ Moves(g, TakeHold(g, owner, target, phase))
         /\ Rests(g, TakeHold(g, owner, target, phase))
         /\ ~Abandoned(TakeHold(g, owner, target, phase))
<1> DEFINE h == TakeHold(g, owner, target, phase)
<1>1. /\ \A f \in Fields \ {"hold"} : h[f] = g[f]
      /\ h.hold.owner = owner
  BY DEF Sound, WellTyped, Fields, TakeHold
<1>2. Sound(h)
  BY TakeHoldSound
<1> HIDE DEF h
<1>3. /\ \A f \in Inventory \cup {"dynamic"} : h[f] = g[f]
      /\ h.active = g.active /\ h.previous = g.previous /\ h.wild = g.wild
      /\ h.slide = g.slide /\ h.gesture = g.gesture /\ h.pending = g.pending
  BY <1>1 DEF Fields, Inventory
<1>4. h.hold # NoHold
  BY <1>1, ConstantAssumption DEF NoHold
<1>5. Moves(g, h)
  BY <1>2, <1>3 DEF Moves, Shifts, Elsewhere, Ends, SlideActive
<1>6. Rests(g, h) /\ ~Abandoned(h)
  BY <1>3, <1>4 DEF Rests, SlideActive, Abandoned
<1> QED BY <1>5, <1>6 DEF h

\* A running transition that changes its phase moves nothing
\* (WorkspaceTransition::m_phase).
LEMMA PhaseMoves ==
  ASSUME NEW g, Sound(g), g.hold # NoHold,
         NEW phase \in {"interactive", "preparing", "ending", "shown"}
  PROVE  /\ Moves(g, [g EXCEPT !.hold.phase = phase])
         /\ Rests(g, [g EXCEPT !.hold.phase = phase])
         /\ ~Abandoned([g EXCEPT !.hold.phase = phase])
<1> DEFINE h == [g EXCEPT !.hold.phase = phase]
<1>1. /\ \A f \in Fields \ {"hold"} : h[f] = g[f]
      /\ h.hold = [g.hold EXCEPT !.phase = phase]
  BY DEF Sound, WellTyped, Fields
<1>2. Sound(h)
  BY PhaseSound
<1> HIDE DEF h
<1>3. h.hold.phase = phase
  BY <1>1 DEF Sound, WellTyped
<1>4. h.hold # NoHold
  BY <1>3, ConstantAssumption DEF NoHold
<1>5. /\ \A f \in Inventory \cup {"dynamic"} : h[f] = g[f]
      /\ h.active = g.active /\ h.previous = g.previous /\ h.wild = g.wild
      /\ h.slide = g.slide /\ h.gesture = g.gesture /\ h.pending = g.pending
  BY <1>1 DEF Fields, Inventory
<1>6. Moves(g, h)
  BY <1>2, <1>5 DEF Moves, Shifts, Elsewhere, Ends, SlideActive
<1>7. Rests(g, h) /\ ~Abandoned(h)
  BY <1>4, <1>5 DEF Rests, SlideActive, Abandoned
<1> QED BY <1>6, <1>7 DEF h

\* Every outcome of activate keeps everything, unless a scene transition fails
\* after it took its hold.
LEMMA ActivationsFollow ==
  ASSUME "transition_failure" \notin Disturbances,
         NEW g, Sound(g), Dense(g), NEW c \in Configs, NEW w \in Live(g), NEW animate,
         NEW h \in Activations(g, c, w, animate)
  PROVE  Follows(g, h, c)
<1> DEFINE g1 == Interrupt(g, c)
<1>1. Moves(g, g1) /\ Rests(g, g1) /\ Sound(g1) /\ w \in Live(g1)
  BY InterruptMoves DEF Moves, Shifts
<1>2. \/ h = Reconcile(g1, c)
      \/ g1.active # w /\ h = SwitchNow(g1, c, w)
      \/ g1.active # w /\ g1.active # None /\ h = StartSlide(g1, w)
      \/ MayHold(g1) /\ h = TakeHold(g1, "pair", w, "preparing")
  BY DEF Activations, Native
<1> HIDE DEF g1
<1>3. CASE h = Reconcile(g1, c)
  BY <1>1, <1>3, ReconcileFollows
<1>4. CASE g1.active # w /\ h = SwitchNow(g1, c, w)
  BY <1>1, <1>4, SwitchNowFollows
<1>5. CASE g1.active # w /\ g1.active # None /\ h = StartSlide(g1, w)
  <2>1. Moves(g1, h) /\ SlideActive(h)
    BY <1>1, <1>5, StartSlideMoves
  <2>2. Moves(g, h) /\ Rests(g, h) /\ ~Abandoned(h)
    BY <1>1, <2>1, MovesTwice DEF Rests, Abandoned
  <2> QED BY <2>2, MoveFollows
<1>6. CASE MayHold(g1) /\ h = TakeHold(g1, "pair", w, "preparing")
  <2>1. w \in OptionalOf(Live(g1))
    BY <1>1 DEF OptionalOf
  <2>2. Moves(g1, h) /\ Rests(g1, h) /\ ~Abandoned(h)
    BY <1>1, <1>6, <2>1, TakeHoldMoves
  <2>3. h.dynamic = g1.dynamic
    BY <2>2 DEF Moves, Shifts
  <2>4. Moves(g, h) /\ Rests(g, h)
    BY <1>1, <2>2, <2>3, MovesTwice DEF Rests
  <2> QED BY <2>2, <2>4, MoveFollows
<1> QED BY <1>2, <1>3, <1>4, <1>5, <1>6

\* The end of a swipe gives its slide a landing or takes it away
\* (finishSwitch, slideSettle).
LEMMA SettleShifts ==
  ASSUME NEW g, Sound(g), SlideActive(g), NEW delta
  PROVE  LET target == Landing(g, delta)
             h == IF target = g.active THEN g
                  ELSE [SwitchTo(g, target) EXCEPT
                          !.previous = g.active, !.wild = @ \/ g.active = None]
         IN  Shifts(g, h) /\ h.slide = g.slide /\ h.hold = NoHold
<1> DEFINE target == Landing(g, delta)
           h == IF target = g.active THEN g
                ELSE [SwitchTo(g, target) EXCEPT
                        !.previous = g.active, !.wild = @ \/ g.active = None]
           s == SwitchTo(g, target)
<1>1. target \in Live(g)
  BY DEF Landing, SlideActive, Sound, PointsAtLive, OptionalOf
<1>2. g.hold = NoHold
  BY DEF Sound, Current
<1>3. CASE target = g.active
  <2>1. h = g
    BY <1>3
  <2> HIDE DEF h, target
  <2>2. Shifts(g, h)
    BY <2>1, MovesNot DEF Moves
  <2> QED BY <1>2, <2>1, <2>2 DEF h, target
<1>4. CASE target # g.active
  <2> HIDE DEF target
  <2>1. /\ Moves(g, s) /\ Sound(s) /\ s.active = target /\ s.wild = g.wild
        /\ \A f \in Fields \ {"active", "previous", "wild"} : s[f] = g[f]
    BY <1>1, <1>4, SwitchToMoves, SwitchToSound
  <2> HIDE DEF s
  <2>2. h = [s EXCEPT !.previous = g.active, !.wild = @ \/ g.active = None]
    BY <1>4 DEF s
  <2>3. s = [f \in Fields |-> s[f]]
    BY <2>1 DEF Sound, WellTyped
  <2> HIDE DEF h
  <2>4. /\ h = [f \in Fields |-> h[f]]
        /\ \A f \in Fields \ {"previous", "wild"} : h[f] = s[f]
        /\ h.previous = g.active
    BY <2>2, <2>3 DEF Fields
  <2>5. h.wild = (g.wild \/ g.active = None)
    BY <2>1, <2>2, <2>3 DEF Fields
  <2>6. /\ \A f \in Inventory \cup {"dynamic"} : h[f] = g[f]
        /\ h.slide = g.slide /\ h.hold = NoHold /\ h.active = target
    BY <1>2, <2>1, <2>4 DEF Fields, Inventory
  <2>7. Sound(h)
    <3>1. \A f \in Flags : h[f] \in BOOLEAN
      <4>1. \A f \in Flags \ {"wild"} : h[f] = g[f]
        BY <2>1, <2>4 DEF Fields, Flags
      <4>2. \A f \in Flags : g[f] \in BOOLEAN
        BY DEF Sound, WellTyped, Flags
      <4>3. h.wild \in BOOLEAN
        BY <2>5
      <4> QED BY <4>1, <4>2, <4>3
    <3>2. h.active \in OptionalOf(Live(g)) /\ h.previous \in OptionalOf(Live(g))
      BY <1>1, <2>4, <2>6 DEF Sound, PointsAtLive, OptionalOf
    <3>3. \A f \in Inventory : h[f] = g[f]
      BY <2>6
    <3> QED BY <2>4, <2>6, <3>1, <3>2, <3>3, SameInventory
  <2>8. target # None
    BY <1>1, ConstantAssumption DEF Sound, WellTyped
  <2>9. Elsewhere(h)
    BY <1>4, <2>4, <2>6, <2>8 DEF Elsewhere
  <2>10. Shifts(g, h)
    BY <2>5, <2>6, <2>7, <2>8, <2>9 DEF Shifts
  <2> QED BY <2>6, <2>10 DEF h, target
<1> QED BY <1>3, <1>4

\* Ending a swipe keeps everything (finishSwitch).
LEMMA GestureEndFollows ==
  ASSUME NEW g, Sound(g), Dense(g), NEW c \in Configs, NEW delta,
         NEW h \in GestureEnd(g, c, delta)
  PROVE  Follows(g, h, c)
<1> DEFINE g1 == [g EXCEPT !.gesture = FALSE]
           target == Landing(g1, delta)
           g2 == IF target = g1.active THEN g1
                 ELSE [SwitchTo(g1, target) EXCEPT
                         !.previous = g1.active, !.wild = @ \/ g1.active = None]
           set == [g2 EXCEPT !.slide.settling = TRUE]
           landed == SlideFinish(g2)
<1>0. Sound(h)
  BY GestureEndSound
<1>1. \/ ~(g.gesture /\ SlideActive(g)) /\ h = g1
      \/ g.gesture /\ SlideActive(g) /\ (h = set \/ h = Reconcile(landed, c))
  BY DEF GestureEnd, SlideSettle
<1>2. Sound(g1) /\ \A f \in Fields \ {"gesture"} : g1[f] = g[f]
  <2>1. Sound(g1)
    BY GestureFlagSound
  <2> QED BY <2>1 DEF Sound, WellTyped, Fields
<1> HIDE DEF g1
<1>3. /\ \A f \in Inventory \cup {"dynamic"} : g1[f] = g[f]
      /\ g1.active = g.active /\ g1.previous = g.previous /\ g1.wild = g.wild
      /\ g1.slide = g.slide /\ g1.hold = g.hold /\ g1.pending = g.pending
  BY <1>2 DEF Fields, Inventory
<1>4. Shifts(g, g1)
  BY <1>2, <1>3 DEF Shifts, Elsewhere
<1>5. CASE ~(g.gesture /\ SlideActive(g)) /\ h = g1
  <2>1. SlideActive(g) => ~g.gesture
    BY <1>5
  <2>2. g1.slide = g.slide /\ (SlideActive(g1) <=> SlideActive(g))
    BY <1>3 DEF SlideActive
  <2>3. Ends(g) => Ends(g1)
    BY <2>1, <2>2 DEF Ends
  <2>4. Moves(g, g1)
    BY <1>4, <2>3 DEF Moves
  <2>5. Rests(g, g1) /\ (Abandoned(g1) => Abandoned(g))
    <3>1. g1.dynamic = g.dynamic
      BY <1>3
    <3> QED BY <1>3, <2>2, <3>1 DEF Rests, Abandoned
  <2> QED BY <1>5, <2>4, <2>5, MoveFollows
<1>6. CASE g.gesture /\ SlideActive(g) /\ (h = set \/ h = Reconcile(landed, c))
  <2>1. SlideActive(g1)
    BY <1>3, <1>6 DEF SlideActive
  <2>2. Shifts(g1, g2) /\ g2.slide = g.slide
    BY <1>2, <1>3, <2>1, SettleShifts
  <2> HIDE DEF g2
  <2>3. Shifts(g, g2) /\ Sound(g2)
    BY <1>4, <2>2 DEF Shifts
  <2>4. CASE h = Reconcile(landed, c)
    <3>1. Moves(g2, landed) /\ landed.slide = NoSlide
      BY <2>3, SlideFinishMoves, SlideFinishSound
    <3> HIDE DEF landed
    <3>2. Ends(landed)
      BY <3>1 DEF Ends, SlideActive, NoSlide
    <3>3. Moves(g, landed)
      BY <2>3, <3>1, <3>2 DEF Moves, Shifts
    <3> QED BY <2>4, <3>3, ReconcileFollows
  <2>5. CASE h = set
    <3>1. /\ \A f \in Fields \ {"slide"} : set[f] = g2[f]
          /\ set.slide = [g2.slide EXCEPT !.settling = TRUE]
      BY <2>3 DEF Sound, WellTyped, Fields
    <3> HIDE DEF set
    <3>2. g.slide \in [base : OptionalOf(Nat), previous : OptionalOf(Nat),
                       next : OptionalOf(Nat), settling : BOOLEAN]
      BY DEF Sound, WellTyped
    <3>3. set.slide.settling = TRUE /\ set.slide.base = g.slide.base
      BY <2>2, <3>1, <3>2
    <3>4. /\ \A f \in Inventory \cup {"dynamic"} : set[f] = g2[f]
          /\ set.active = g2.active /\ set.previous = g2.previous /\ set.wild = g2.wild
      BY <3>1 DEF Fields, Inventory
    <3>5. Ends(set) /\ SlideActive(set)
      BY <1>6, <3>3 DEF Ends, SlideActive
    <3>6. Sound(set)
      BY <1>0, <2>5
    <3>7. Shifts(g2, set)
      BY <3>4, <3>6 DEF Shifts, Elsewhere
    <3>8. Moves(g, set)
      BY <2>3, <3>5, <3>7 DEF Moves, Shifts
    <3>9. Rests(g, set) /\ ~Abandoned(set)
      BY <3>5 DEF Rests, Abandoned
    <3> QED BY <2>5, <3>8, <3>9, MoveFollows
  <2> QED BY <1>6, <2>4, <2>5
<1> QED BY <1>1, <1>5, <1>6

-----------------------------------------------------------------------------
(* A reload that changes the inventory.                                    *)

\* Who stands in a fixed slot: the workspace that carries its name, or one
\* that carries no declared name and stood at its place, or a new one
\* (reconcileInventory).
LEMMA WhoHolds ==
  ASSUME NEW g, Sound(g), NEW c \in Configs, NEW i \in Slots(c)
  PROVE  LET w == Holder(g, c, i)
             taken(x) == g.label[x] # Anonymous /\ \E j \in DOMAIN c.fixed : c.fixed[j] = g.label[x]
         IN  \/ w \in Live(g) /\ c.fixed[i + 1] # Anonymous /\ g.label[w] = c.fixed[i + 1]
             \/ w \in Live(g) /\ ~taken(w) /\ g.index[w] = i
             \/ w \notin Live(g) /\ w = g.serial + i
<1> DEFINE called == {w \in Live(g) : c.fixed[i + 1] # Anonymous /\ g.label[w] = c.fixed[i + 1]}
           taken == {w \in Live(g) : g.label[w] # Anonymous
                                     /\ \E j \in DOMAIN c.fixed : c.fixed[j] = g.label[w]}
           w == Holder(g, c, i)
           K == Keeps(g, c, i)
<1>1. K = IF called # {} THEN called ELSE {x \in Live(g) \ taken : g.index[x] = i}
  BY DEF Keeps
<1>2. g.serial \in Nat /\ Live(g) \subseteq 0 .. (g.serial - 1) /\ i \in Nat
  BY DEF Sound, WellTyped, Slots
<1>3. w = IF K = {} THEN g.serial + i ELSE CHOOSE x \in K : TRUE
  BY DEF Holder
<1> HIDE DEF w, K
<1>4. CASE K = {}
  BY <1>2, <1>3, <1>4 DEF w
<1>5. CASE K # {}
  <2>1. w \in K
    BY <1>3, <1>5
  <2> QED BY <1>1, <2>1 DEF w
<1> QED BY <1>4, <1>5

\* A workspace whose name is declared stands in the slot of that name, for it
\* is the only one of its name.
LEMMA NamedHolds ==
  ASSUME NEW g, Sound(g), Dense(g), NEW c \in Configs, NEW i \in Slots(c),
         NEW w \in Live(g), g.label[w] # Anonymous, g.label[w] = c.fixed[i + 1]
  PROVE  Holder(g, c, i) = w
<1> DEFINE called == {x \in Live(g) : c.fixed[i + 1] # Anonymous /\ g.label[x] = c.fixed[i + 1]}
<1>1. called = {w}
  BY DEF Dense, Distinct
<1>2. Keeps(g, c, i) = called
  BY <1>1 DEF Keeps
<1> HIDE DEF called
<1> QED BY <1>1, <1>2 DEF Holder

\* Different slots are held by different workspaces.
LEMMA HolderInjective ==
  ASSUME NEW g, Sound(g), NEW c \in Configs, NEW i \in Slots(c), NEW j \in Slots(c),
         Holder(g, c, i) = Holder(g, c, j)
  PROVE  i = j
<1> DEFINE w == Holder(g, c, i)
           Called(k) == w \in Live(g) /\ c.fixed[k + 1] # Anonymous /\ g.label[w] = c.fixed[k + 1]
           Placed(k) == /\ w \in Live(g) /\ g.index[w] = k
                        /\ ~(/\ g.label[w] # Anonymous
                             /\ \E m \in DOMAIN c.fixed : c.fixed[m] = g.label[w])
           New(k) == w \notin Live(g) /\ w = g.serial + k
<1>1. Called(i) \/ Placed(i) \/ New(i)
  BY WhoHolds
<1>2. Called(j) \/ Placed(j) \/ New(j)
  BY WhoHolds
<1>3. /\ i \in Nat /\ j \in Nat /\ g.serial \in Nat
      /\ i + 1 \in DOMAIN c.fixed /\ j + 1 \in DOMAIN c.fixed
  BY ConfigTyped DEF Slots, Sound, WellTyped
<1>4. c.fixed[i + 1] = c.fixed[j + 1] /\ c.fixed[i + 1] # Anonymous => i + 1 = j + 1
  BY <1>3, ConstantAssumption
<1> HIDE DEF w
<1>5. CASE New(i) \/ New(j)
  <2>1. New(i) /\ New(j)
    BY <1>1, <1>2, <1>5
  <2> QED BY <1>3, <2>1
<1>6. CASE Called(i) /\ Called(j)
  BY <1>3, <1>4, <1>6
<1>7. CASE (Called(i) /\ Placed(j)) \/ (Called(j) /\ Placed(i))
  BY <1>3, <1>7
<1>8. CASE Placed(i) /\ Placed(j)
  BY <1>8
<1> QED BY <1>1, <1>2, <1>5, <1>6, <1>7, <1>8

\* What a reload keeps: a workspace whose name is still declared, a home for
\* every view, a dynamic inventory's launches, and the active workspace or the
\* one its views went to.
Reloads(g, h, c) ==
  /\ Sound(h) /\ Dense(h)
  /\ h.dynamic = c.dynamic /\ h.slide = NoSlide
  /\ Elsewhere(g) => Elsewhere(h)
  /\ g.active # None => h.active # None
  /\ g.active # None /\ ~g.wild => ~h.wild
  /\ Quiet(h, c) /\ ~Abandoned(h)
  /\ \A v \in Views : g.home[v] # None => h.home[v] # None
  /\ c.dynamic => \A l \in Launches : g.launch[l] # None /\ g.label[g.launch[l]] = Anonymous =>
       h.launch[l] = g.launch[l] /\ h.label[g.launch[l]] = Anonymous
  /\ \A w \in Live(g) :
       /\ g.label[w] # Anonymous
       /\ c.dynamic => g.label[w] \in Wanted(c)
       /\ ~c.dynamic => \E i \in DOMAIN c.fixed : c.fixed[i] = g.label[w]
       => w \in Live(h) /\ h.label[w] = g.label[w]
  /\ g.active # None =>
       \/ h.active = g.active /\ g.active \in Live(h)
       \/ /\ g.active \notin Live(h)
          /\ \A v \in Views : g.home[v] = g.active => h.home[v] = h.active

\* A reload to a fixed inventory (reconcileInventory).
LEMMA FixedInventoryReloads ==
  ASSUME NEW g, Sound(g), Dense(g), g.hold = NoHold, g.slide = NoSlide,
         NEW c \in Configs, ~c.dynamic
  PROVE  Reloads(g, FixedInventory(g, c), c)
<1> DEFINE order == {Holder(g, c, i) : i \in Slots(c)}
           slot(w) == CHOOSE i \in Slots(c) : Holder(g, c, i) = w
           n == Len(c.fixed)
           k == [g EXCEPT
                  !.dynamic = FALSE,
                  !.index = [w \in order |-> slot(w)],
                  !.label = [w \in order |-> c.fixed[slot(w) + 1]],
                  !.serial = @ + Len(c.fixed),
                  !.home = [v \in Views |-> Relocated(g, c, g.home[v])],
                  !.launch = [l \in Launches |->
                                IF g.launch[l] \in Removed(g, c) THEN None ELSE g.launch[l]],
                  !.active = Relocated(g, c, g.active),
                  !.previous = IF @ \in Removed(g, c) THEN None ELSE @,
                  !.wild = @ \/ g.active = None]
           h == FixedInventory(g, c)
<1>1. /\ k = [f \in Fields |-> k[f]]
      /\ k.slide = NoSlide /\ k.dynamic = FALSE
      /\ k.wild = (g.wild \/ g.active = None)
  BY DEF Sound, WellTyped, Fields
<1>2. /\ k.index = [w \in order |-> slot(w)]
      /\ k.label = [w \in order |-> c.fixed[slot(w) + 1]]
      /\ k.home = [v \in Views |-> Relocated(g, c, g.home[v])]
      /\ k.active = Relocated(g, c, g.active)
      /\ k.previous = IF g.previous \in Removed(g, c) THEN None ELSE g.previous
  BY DEF Sound, WellTyped, Fields
<1>3. h = ForgetRevisit(k)
  BY DEF FixedInventory
<1>4. \A w \in order : slot(w) \in Slots(c) /\ Holder(g, c, slot(w)) = w
  OBVIOUS
<1>5. \A i \in Slots(c) : slot(Holder(g, c, i)) = i
  BY <1>4, HolderInjective
<1> HIDE DEF k, slot
<1>6. /\ \A f \in Fields \ {"previous"} : h[f] = k[f]
      /\ h.previous = IF k.previous = k.active THEN None ELSE k.previous
  BY <1>1, <1>3 DEF ForgetRevisit, Fields
<1>7. Sound(h)
  BY FixedInventorySound
<1> HIDE DEF h
<1>8. /\ h.index = [w \in order |-> slot(w)] /\ h.label = [w \in order |-> c.fixed[slot(w) + 1]]
      /\ h.home = k.home /\ h.active = k.active /\ h.slide = NoSlide /\ h.dynamic = FALSE
      /\ h.wild = k.wild /\ Live(h) = order
  BY <1>1, <1>2, <1>6 DEF Fields, Live
<1>9. n \in 1 .. MaxWorkspaces /\ Slots(c) = 0 .. (n - 1) /\ MaxWorkspaces \in Nat
  BY ConstantAssumption DEF Slots
<1>10. IsFiniteSet(order) /\ Cardinality(order) = n
  <2> DEFINE at == [i \in Slots(c) |-> Holder(g, c, i)]
  <2>1. at \in Bijection(Slots(c), order)
    BY HolderInjective DEF Bijection, Injection, IsInjective, Surjection
  <2>2. IsFiniteSet(Slots(c)) /\ Cardinality(Slots(c)) = n
    <3>1. n \in Nat /\ n >= 1
      BY <1>9
    <3> HIDE DEF n
    <3>2. IsFiniteSet(0 .. (n - 1)) /\ Cardinality(0 .. (n - 1)) = n
      BY <3>1, FS_Interval
    <3> QED BY <1>9, <3>2
  <2> HIDE DEF at, order
  <2> QED BY <2>1, <2>2, FS_Bijection DEF ExistsBijection
<1> HIDE DEF order
<1>11. Size(h) = n
  BY <1>8, <1>10 DEF Size
<1>12. Dense(h)
  <2>1. Ordered(h)
    BY <1>4, <1>8, <1>9, <1>11 DEF Ordered, OneToOne
  <2>2. Distinct(h)
    <3> SUFFICES ASSUME NEW w \in order, NEW x \in order,
                        h.label[w] = h.label[x], h.label[w] # Anonymous
                 PROVE  w = x
      BY <1>8 DEF Distinct
    <3>1. slot(w) + 1 \in DOMAIN c.fixed /\ slot(x) + 1 \in DOMAIN c.fixed
      BY <1>4, ConfigTyped DEF Slots
    <3>2. c.fixed[slot(w) + 1] = c.fixed[slot(x) + 1] /\ c.fixed[slot(w) + 1] # Anonymous
      BY <1>8
    <3>3. slot(w) + 1 = slot(x) + 1
      BY <3>1, <3>2, ConstantAssumption
    <3>4. slot(w) \in Int /\ slot(x) \in Int
      BY <1>4, <1>9
    <3>5. slot(w) = slot(x)
      BY <3>3, <3>4
    <3> QED BY <1>4, <3>5
  <2> QED BY <1>9, <1>11, <2>1, <2>2 DEF Dense
<1>13. Live(g) \subseteq Nat /\ None \notin Nat /\ None \notin order
  <2>1. Live(g) \subseteq Nat /\ None \notin Nat /\ order \subseteq Nat
    BY <1>7, <1>8, ConstantAssumption DEF Sound, WellTyped
  <2> QED BY <2>1
<1>14. \A w \in Live(g) : Relocated(g, c, w) # None /\ (w \in order => Relocated(g, c, w) = w)
                          /\ (w \notin order => w \in Removed(g, c))
  <2> SUFFICES ASSUME NEW w \in Live(g)
               PROVE  Relocated(g, c, w) # None /\ (w \in order => Relocated(g, c, w) = w)
                      /\ (w \notin order => w \in Removed(g, c))
    OBVIOUS
  <2>1. w \in Removed(g, c) <=> w \notin order
    BY DEF Removed, order
  <2>2. CASE w \in order
    BY <1>13, <2>1, <2>2 DEF Relocated
  <2>3. CASE w \notin order
    <3>1. g.index[w] \in Nat
      BY DEF Sound, WellTyped
    <3>2. Least(g.index[w], n - 1) \in Slots(c)
      BY <1>9, <3>1 DEF Least
    <3>3. Relocated(g, c, w) = Holder(g, c, Least(g.index[w], n - 1))
      BY <2>1, <2>3 DEF Relocated
    <3>4. Relocated(g, c, w) \in order
      BY <3>2, <3>3 DEF order
    <3> QED BY <1>13, <2>1, <2>3, <3>4
  <2> QED BY <2>2, <2>3
<1>15. /\ g.active \in OptionalOf(Live(g))
       /\ \A v \in Views : g.home[v] \in OptionalOf(Live(g))
  BY DEF Sound, PointsAtLive
<1>16. g.active # None => h.active # None
  BY <1>2, <1>8, <1>14, <1>15 DEF OptionalOf
<1>17. Elsewhere(g) => Elsewhere(h)
  BY <1>2, <1>6, <1>8, <1>16 DEF Elsewhere
<1>18. \A v \in Views : g.home[v] # None => h.home[v] # None
  BY <1>2, <1>8, <1>14, <1>15 DEF OptionalOf
<1>19. ASSUME NEW w \in Live(g), g.label[w] # Anonymous,
              NEW i \in DOMAIN c.fixed, c.fixed[i] = g.label[w]
       PROVE  w \in Live(h) /\ h.label[w] = g.label[w]
  <2>1. i - 1 \in Slots(c) /\ (i - 1) + 1 = i
    BY ConfigTyped DEF Slots
  <2>2. Holder(g, c, i - 1) = w
    BY <1>19, <2>1, NamedHolds
  <2>3. w \in order /\ slot(w) = i - 1
    BY <1>5, <2>1, <2>2 DEF order
  <2> QED BY <1>8, <1>19, <2>1, <2>3
<1>20. g.active # None =>
         \/ h.active = g.active /\ g.active \in Live(h)
         \/ /\ g.active \notin Live(h)
            /\ \A v \in Views : g.home[v] = g.active => h.home[v] = h.active
  BY <1>2, <1>8, <1>14, <1>15 DEF OptionalOf
<1>21. Quiet(h, c) /\ ~Abandoned(h)
  BY <1>8 DEF Quiet, Abandoned
<1>22. c.dynamic = FALSE
  BY ConstantAssumption DEF ConfigType
<1>23. g.active # None /\ ~g.wild => ~h.wild
  BY <1>1, <1>8
<1> QED BY <1>7, <1>8, <1>12, <1>16, <1>17, <1>18, <1>19, <1>20, <1>21, <1>22, <1>23 DEF Reloads, h

\* A reload, dynamic or fixed, from whatever the end of a swipe left
\* (reconcileInventory).
LEMMA ReconcileInventoryReloads ==
  ASSUME NEW g, Sound(g), Dense(g), NEW c \in Configs
  PROVE  Reloads(g, ReconcileInventory(g, c), c)
<1> DEFINE g0 == Invalidate(g)
           g1 == SlideFinish(g0)
           g2 == [g1 EXCEPT !.dynamic = TRUE]
           h == ReconcileInventory(g, c)
<1>1. Moves(g, g0) /\ Sound(g0) /\ g0.hold = NoHold /\ g0.active = g.active
  BY InvalidateMoves, InvalidateSound
<1> HIDE DEF g0
<1>2. Moves(g0, g1) /\ Sound(g1) /\ g1.hold = NoHold /\ g1.slide = NoSlide /\ g1.active = g.active
  BY <1>1, SlideFinishMoves, SlideFinishSound DEF Fields
<1> HIDE DEF g1
<1>3. Moves(g, g1)
  BY <1>1, <1>2, MovesTwice
<1>4. /\ g1.index = g.index /\ g1.label = g.label /\ g1.home = g.home
      /\ g1.launch = g.launch /\ Live(g1) = Live(g) /\ Dense(g1)
  BY <1>3, SameOrder DEF Moves, Shifts, Inventory, Live
<1>5. h = IF c.dynamic THEN Reconcile(g2, c) ELSE FixedInventory(g1, c)
  BY DEF ReconcileInventory, g2, g1, g0
<1>6. ASSUME Reloads(g1, h, c) PROVE Reloads(g, h, c)
  <2> HIDE DEF h
  <2>1. \A w \in Live(g) :
       /\ g.label[w] # Anonymous
       /\ c.dynamic => g.label[w] \in Wanted(c)
       /\ ~c.dynamic => \E i \in DOMAIN c.fixed : c.fixed[i] = g.label[w]
       => w \in Live(h) /\ h.label[w] = g.label[w]
    BY <1>4, <1>6 DEF Reloads
  <2>2. c.dynamic => \A l \in Launches : g.launch[l] # None /\ g.label[g.launch[l]] = Anonymous =>
       h.launch[l] = g.launch[l] /\ h.label[g.launch[l]] = Anonymous
    BY <1>4, <1>6 DEF Reloads
  <2>3. g.active # None =>
       \/ h.active = g.active /\ g.active \in Live(h)
       \/ /\ g.active \notin Live(h)
          /\ \A v \in Views : g.home[v] = g.active => h.home[v] = h.active
    BY <1>2, <1>4, <1>6 DEF Reloads
  <2>4. Elsewhere(g) => Elsewhere(h)
    BY <1>3, <1>6 DEF Reloads, Moves, Shifts
  <2>5. (g.active # None => h.active # None) /\ (g.active # None /\ ~g.wild => ~h.wild)
    BY <1>2, <1>3, <1>6 DEF Reloads, Moves, Shifts
  <2>6. \A v \in Views : g.home[v] # None => h.home[v] # None
    BY <1>4, <1>6 DEF Reloads
  <2>7. /\ Sound(h) /\ Dense(h) /\ h.dynamic = c.dynamic /\ h.slide = NoSlide
        /\ Quiet(h, c) /\ ~Abandoned(h)
    BY <1>6 DEF Reloads
  <2> QED BY <2>1, <2>2, <2>3, <2>4, <2>5, <2>6, <2>7 DEF Reloads
<1>7. CASE ~c.dynamic
  <2>1. h = FixedInventory(g1, c)
    BY <1>5, <1>7
  <2> HIDE DEF h
  <2> QED BY <1>2, <1>4, <1>6, <1>7, <2>1, FixedInventoryReloads DEF h
<1>8. CASE c.dynamic
  <2>1. /\ g2 = [f \in Fields |-> g2[f]]
        /\ \A f \in Fields \ {"dynamic"} : g2[f] = g1[f]
        /\ g2.dynamic = TRUE
    BY <1>2 DEF Sound, WellTyped, Fields
  <2> HIDE DEF g2
  <2>2. /\ \A f \in Inventory : g2[f] = g1[f]
        /\ g2.slide = NoSlide /\ g2.hold = NoHold /\ g2.wild = g1.wild
        /\ g2.active = g1.active /\ g2.previous = g1.previous
    BY <1>2, <2>1 DEF Fields, Inventory
  <2>3. Sound(g2) /\ Live(g2) = Live(g1)
    <3>1. g2.active \in OptionalOf(Live(g1)) /\ g2.previous \in OptionalOf(Live(g1))
      BY <1>2, <2>2 DEF Sound, PointsAtLive
    <3>2. \A f \in Flags : g2[f] \in BOOLEAN
      <4>1. \A f \in Flags : g1[f] \in BOOLEAN
        BY <1>2 DEF Sound, WellTyped, Flags
      <4> QED BY <2>1, <4>1 DEF Fields, Flags
    <3> QED BY <1>2, <2>1, <2>2, <3>1, <3>2, SameInventory
  <2>4. /\ g2.index = g1.index /\ g2.label = g1.label /\ g2.home = g1.home /\ g2.launch = g1.launch
    BY <2>2 DEF Inventory
  <2>5. Dense(g2)
    BY <1>4, <2>4, SameOrder
  <2>6. h = Reconcile(g2, c)
    BY <1>5, <1>8
  <2> HIDE DEF h
  <2>7. Repaired(g2, h, c) /\ (Elsewhere(g2) => Elsewhere(h)) /\ Quiet(h, c) /\ ~Abandoned(h)
    BY <2>3, <2>5, <2>6, ReconcileRepairs
  <2>8. /\ h.home = g1.home /\ h.active = g1.active /\ h.dynamic = TRUE
        /\ h.slide = NoSlide /\ h.wild = g1.wild /\ Sound(h) /\ Dense(h)
    BY <2>1, <2>2, <2>4, <2>7 DEF Repaired, Selection
  <2>9. \A l \in Launches : g1.launch[l] # None /\ g1.label[g1.launch[l]] = Anonymous =>
       h.launch[l] = g1.launch[l] /\ h.label[g1.launch[l]] = Anonymous
    BY <2>4, <2>7 DEF Repaired
  <2>10. \A w \in Live(g1) :
       /\ g1.label[w] # Anonymous
       /\ c.dynamic => g1.label[w] \in Wanted(c)
       => w \in Live(h) /\ h.label[w] = g1.label[w]
    BY <2>3, <2>4, <2>7 DEF Repaired
  <2>11. Elsewhere(g1) => Elsewhere(h)
    BY <2>2, <2>7 DEF Elsewhere
  <2>12. g1.active # None => g1.active \in Live(h)
    BY <2>8 DEF Sound, PointsAtLive, OptionalOf
  <2>13. c.dynamic = TRUE
    BY <1>8, ConstantAssumption DEF ConfigType
  <2>14. Reloads(g1, h, c)
    BY <2>7, <2>8, <2>9, <2>10, <2>11, <2>12, <2>13 DEF Reloads
  <2> QED BY <1>6, <2>14 DEF h
<1>9. c.dynamic \in BOOLEAN
  BY ConstantAssumption DEF ConfigType
<1> QED BY <1>7, <1>8, <1>9 DEF h

-----------------------------------------------------------------------------
(* What every step of the group keeps.                                     *)

\* The inductive invariant.
GInv ==
  /\ IInv /\ group.dynamic = config.dynamic
  /\ Dense(group) /\ Elsewhere(group) /\ Ends(group)

\* A workspace is active and no stale pointer was followed.
Chosen == group.active # None /\ ~group.wild

Swept == Quiet(group, config)

\* The action properties of WorkspaceGroup, without the box.
ViewsStay ==
  \A v \in Views : group.home[v] # None /\ group'.home[v] = None => UnmapView(v)

LaunchesStay ==
  \A l \in Launches :
    (/\ group.launch[l] # None /\ config'.dynamic
     /\ group.label[group.launch[l]] = Anonymous) =>
      \/ /\ group'.launch[l] = group.launch[l]
         /\ group'.label[group.launch[l]] = Anonymous
      \/ ExpireLaunch(l)
      \/ \E v \in Views, w \in Live(group) : PlaceLaunch(l, v, w)

NamesStay ==
  \A w \in Live(group) :
    (/\ group.label[w] # Anonymous
     /\ config'.dynamic => \E i \in DOMAIN Desired(config') : Desired(config')[i] = group.label[w]
     /\ ~config'.dynamic => \E i \in DOMAIN config'.fixed : config'.fixed[i] = group.label[w]) =>
    /\ w \in Live(group')
    /\ group'.label[w] = group.label[w]

ReloadFollows ==
  config' # config /\ ~group.gesture /\ group.active # None =>
    \/ group'.active = group.active /\ group.active \in Live(group')
    \/ /\ group.active \notin Live(group')
       /\ \A v \in Views : group.home[v] = group.active => group'.home[v] = group'.active

NothingForgotten ==
  Abandoned(group') => \/ Abandoned(group) \/ CreateWorkspace \/ SlideAbort \/ group'.active = None

Steps ==
  /\ GInv'
  /\ "deactivate_last" \notin Disturbances /\ Chosen => Chosen'
  /\ "slide_abort" \notin Disturbances /\ Swept => Swept'
  /\ ViewsStay /\ LaunchesStay /\ NamesStay /\ ReloadFollows /\ NothingForgotten

\* What a change of the group keeps that may edit who lives where.
Carries(g, h, c) ==
  /\ Sound(h) /\ Dense(h) /\ h.dynamic = g.dynamic
  /\ Elsewhere(g) => Elsewhere(h)
  /\ Ends(g) => Ends(h)
  /\ \A w \in Live(g) :
       g.label[w] # Anonymous /\ (c.dynamic => g.label[w] \in Wanted(c)) =>
         w \in Live(h) /\ h.label[w] = g.label[w]

\* What follows a group carries it.
LEMMA FollowsCarries ==
  ASSUME NEW g, NEW h, NEW c, Follows(g, h, c)
  PROVE  Carries(g, h, c)
BY DEF Follows, Preserves, Carries

\* One after the other carries what both carry.
LEMMA CarriesTwice ==
  ASSUME NEW g, NEW h, NEW k, NEW c, Carries(g, h, c), Carries(h, k, c)
  PROVE  Carries(g, k, c)
<1>1. \A w \in Live(g) :
       g.label[w] # Anonymous /\ (c.dynamic => g.label[w] \in Wanted(c)) =>
         w \in Live(k) /\ k.label[w] = g.label[w]
  BY DEF Carries
<1> QED BY <1>1 DEF Carries

\* A handler that carries, as far as names and positions go, takes a step.
LEMMA CarriedSteps ==
  ASSUME GInv, config' = config, Carries(group, group', config)
  PROVE  GInv' /\ NamesStay /\ ReloadFollows
<1>1. Sound(group') /\ Dense(group') /\ Elsewhere(group') /\ Ends(group')
      /\ group'.dynamic = config'.dynamic /\ config' \in Configs
  BY DEF GInv, IInv, Carries
<1>2. GInv'
  BY <1>1 DEF GInv, IInv
<1>3. NamesStay
  BY DEF NamesStay, Carries, Wanted
<1> QED BY <1>2, <1>3 DEF ReloadFollows

\* A handler that edits nobody's place takes a step.
LEMMA FollowedSteps ==
  ASSUME GInv, config' = config, Follows(group, group', config)
  PROVE  Steps
<1>1. GInv' /\ NamesStay /\ ReloadFollows
  BY FollowsCarries, CarriedSteps
<1>2. Chosen => Chosen'
  BY DEF Follows, Chosen
<1>3. Swept => Swept'
  BY DEF Follows, Swept
<1>4. ViewsStay
  BY DEF Follows, Preserves, ViewsStay
<1>5. LaunchesStay
  BY DEF Follows, Preserves, LaunchesStay
<1>6. NothingForgotten
  BY DEF Follows, NothingForgotten
<1> QED BY <1>1, <1>2, <1>3, <1>4, <1>5, <1>6 DEF Steps

\* Editing who lives where carries everything else.
LEMMA EditCarries ==
  ASSUME NEW g, Sound(g), Dense(g), NEW e, Sound(e), NEW c,
         \A f \in Fields \ {"home", "launch"} : e[f] = g[f]
  PROVE  /\ Carries(g, e, c) /\ Dense(e)
         /\ e.active = g.active /\ e.wild = g.wild /\ Live(e) = Live(g)
         /\ e.label = g.label /\ e.index = g.index
<1>1. /\ e.index = g.index /\ e.label = g.label /\ e.dynamic = g.dynamic
      /\ e.active = g.active /\ e.previous = g.previous /\ e.wild = g.wild
      /\ e.slide = g.slide /\ e.gesture = g.gesture /\ Live(e) = Live(g)
  BY DEF Fields, Live
<1>2. Dense(e)
  BY <1>1, SameOrder
<1> QED BY <1>1, <1>2 DEF Carries, Elsewhere, Ends, SlideActive

\* A handler that edits who lives where and reconciles takes a step, if it
\* moved a view out only by unmapping it and ended a launch only by placing
\* its window or by expiring it.
LEMMA EditedSteps ==
  ASSUME GInv, config' = config, NEW e, Sound(e), Dense(e), Carries(group, e, config),
         group' = Reconcile(e, config),
         e.active = group.active, e.wild = group.wild,
         \A v \in Views : group.home[v] # None /\ e.home[v] = None => UnmapView(v),
         \A l \in Launches : group.launch[l] # None /\ group.label[group.launch[l]] = Anonymous =>
           \/ e.launch[l] = group.launch[l] /\ e.label[group.launch[l]] = Anonymous
           \/ ExpireLaunch(l)
           \/ \E v \in Views, w \in Live(group) : PlaceLaunch(l, v, w)
  PROVE  Steps
<1>0. config \in Configs
  BY DEF GInv, IInv
<1>1. Moves(e, e)
  BY MovesNot
<1>2. Follows(e, group', config) /\ Quiet(group', config) /\ ~Abandoned(group')
  BY <1>0, <1>1, ReconcileFollows
<1>3. GInv' /\ NamesStay /\ ReloadFollows
  BY <1>2, FollowsCarries, CarriesTwice, CarriedSteps
<1>4. Chosen => Chosen'
  BY <1>2 DEF Follows, Chosen
<1>5. Swept'
  BY <1>2 DEF Swept
<1>6. ViewsStay
  BY <1>2 DEF Follows, Preserves, ViewsStay
<1>7. LaunchesStay
  BY <1>2 DEF Follows, Preserves, LaunchesStay
<1>8. NothingForgotten
  BY <1>2 DEF NothingForgotten
<1> QED BY <1>3, <1>4, <1>5, <1>6, <1>7, <1>8 DEF Steps

-----------------------------------------------------------------------------
(* One lemma per group of actions.                                         *)

\* A view that maps, moves or unmaps takes a step (View::setWorkspace).
LEMMA ViewSteps ==
  ASSUME GInv, NEW v \in Views, NEW w \in OptionalOf(Live(group)),
         w = None => UnmapView(v),
         group' = Reconcile([group EXCEPT !.home[v] = w], config), config' = config
  PROVE  Steps
<1> DEFINE e == [group EXCEPT !.home[v] = w]
<1>0. Sound(group) /\ Dense(group)
  BY DEF GInv, IInv
<1>1. Sound(e) /\ \A f \in Fields \ {"home"} : e[f] = group[f]
  BY <1>0, HomeSound
<1>2. e.home = [group.home EXCEPT ![v] = w] /\ e.launch = group.launch
  BY <1>0 DEF Sound, WellTyped, Fields
<1> HIDE DEF e
<1>3. /\ Carries(group, e, config) /\ Dense(e) /\ e.active = group.active /\ e.wild = group.wild
      /\ Live(e) = Live(group) /\ e.label = group.label
  BY <1>0, <1>1, EditCarries
<1>4. \A u \in Views : group.home[u] # None /\ e.home[u] = None => UnmapView(u)
  BY <1>0, <1>2 DEF Sound, WellTyped
<1>5. group' = Reconcile(e, config)
  BY DEF e
<1> QED BY <1>1, <1>2, <1>3, <1>4, <1>5, EditedSteps

\* Recording, dropping or forgetting a launch edits nothing else
\* (WorkspaceLaunchAnchor).
LEMMA LaunchEdit ==
  ASSUME NEW g, Sound(g), Dense(g), NEW l \in Launches, NEW w \in OptionalOf(Live(g)), NEW c
  PROVE  LET e == [g EXCEPT !.launch[l] = w]
         IN  /\ Sound(e) /\ Dense(e) /\ Carries(g, e, c)
             /\ \A f \in Fields \ {"launch"} : e[f] = g[f]
             /\ e.active = g.active /\ e.wild = g.wild /\ e.home = g.home
             /\ Live(e) = Live(g) /\ e.label = g.label
             /\ e.launch[l] = w /\ \A m \in Launches \ {l} : e.launch[m] = g.launch[m]
<1> DEFINE e == [g EXCEPT !.launch[l] = w]
<1>1. Sound(e)
  BY LaunchSound
<1>2. /\ \A f \in Fields \ {"launch"} : e[f] = g[f]
      /\ e.launch = [g.launch EXCEPT ![l] = w] /\ g.launch \in [Launches -> OptionalOf(Nat)]
  BY DEF Sound, WellTyped, Fields
<1> HIDE DEF e
<1>3. e.home = g.home
  BY <1>2 DEF Fields
<1>4. e.launch[l] = w /\ \A m \in Launches \ {l} : e.launch[m] = g.launch[m]
  BY <1>2
<1>5. /\ Carries(g, e, c) /\ Dense(e) /\ e.active = g.active /\ e.wild = g.wild
      /\ Live(e) = Live(g) /\ e.label = g.label
  BY <1>1, <1>2, EditCarries
<1> QED BY <1>1, <1>2, <1>3, <1>4, <1>5 DEF e

\* Only the launches differ: what is tidy stays so if every workspace that
\* was reserved is still reserved or occupied.
LEMMA LaunchQuiet ==
  ASSUME NEW g, NEW e, NEW c, Quiet(g, c),
         \A f \in Fields \ {"launch"} : e[f] = g[f],
         \A w \in Live(g) : Reserved(g, w) => Reserved(e, w) \/ Occupied(g, w)
  PROVE  Quiet(e, c)
<1>1. /\ e.index = g.index /\ e.label = g.label /\ e.home = g.home /\ e.active = g.active
      /\ e.slide = g.slide /\ e.pending = g.pending /\ e.dynamic = g.dynamic
      /\ Live(e) = Live(g) /\ Size(e) = Size(g)
  BY DEF Fields, Live, Size
<1>2. \A w \in Live(g) : /\ Empty(e, w) <=> Empty(g, w)
                         /\ IsFirst(e, w) <=> IsFirst(g, w)
                         /\ IsLast(e, w) <=> IsLast(g, w)
                         /\ Empty(g, w) => ~Occupied(g, w)
  BY <1>1 DEF Empty, Occupied, IsFirst, IsLast
<1>3. Sentinels(g, c) => Sentinels(e, c)
  BY <1>1, <1>2 DEF Sentinels
<1>4. \A w \in Live(g) : StrayIn(e, c, w) => StrayIn(g, c, w)
  BY <1>1, <1>2 DEF StrayIn
<1>5. Tidy(g, c) => Tidy(e, c)
  BY <1>1, <1>3, <1>4 DEF Tidy
<1> QED BY <1>1, <1>5 DEF Quiet, SlideActive

\* A launch is recorded (trackActivationToken).
LEMMA RecordLaunchSteps ==
  ASSUME GInv, NEW l \in Launches, NEW w \in Live(group), RecordLaunch(l, w)
  PROVE  Steps
<1>0. Sound(group) /\ Dense(group) /\ w \in OptionalOf(Live(group))
  BY DEF GInv, IInv, OptionalOf
<1>1. group' = [group EXCEPT !.launch[l] = w] /\ config' = config /\ group.launch[l] = None
  BY DEF RecordLaunch
<1>2. /\ Carries(group, group', config)
      /\ \A f \in Fields \ {"launch"} : group'[f] = group[f]
      /\ group'.active = group.active /\ group'.wild = group.wild /\ group'.home = group.home
      /\ group'.label = group.label
      /\ \A m \in Launches \ {l} : group'.launch[m] = group.launch[m]
  BY <1>0, <1>1, LaunchEdit
<1>3. GInv' /\ NamesStay /\ ReloadFollows
  BY <1>1, <1>2, CarriedSteps
<1>4. Chosen => Chosen'
  BY <1>2 DEF Chosen
<1>5. Swept => Swept'
  <2>1. None \notin Live(group)
    BY <1>0, ConstantAssumption DEF Sound, WellTyped
  <2>2. \A x \in Live(group) : Reserved(group, x) => Reserved(group', x)
    BY <1>1, <1>2, <2>1 DEF Reserved
  <2>3. Quiet(group, config) => Quiet(group', config)
    BY <1>2, <2>2, LaunchQuiet
  <2> QED BY <1>1, <2>3 DEF Swept
<1>6. ViewsStay
  BY <1>2 DEF ViewsStay
<1>7. LaunchesStay
  BY <1>1, <1>2 DEF LaunchesStay
<1>8. NothingForgotten
  <2>1. /\ group'.dynamic = group.dynamic /\ group'.pending = group.pending
        /\ group'.hold = group.hold /\ group'.slide = group.slide
    BY <1>2 DEF Fields
  <2> QED BY <2>1 DEF NothingForgotten, Abandoned, SlideActive
<1> QED BY <1>3, <1>4, <1>5, <1>6, <1>7, <1>8 DEF Steps

\* A launched window maps: where its launch was recorded, or elsewhere.
LEMMA PlaceLaunchSteps ==
  ASSUME GInv, NEW l \in Launches, NEW v \in Views, NEW w \in Live(group), PlaceLaunch(l, v, w)
  PROVE  Steps
<1> DEFINE g0 == [group EXCEPT !.home[v] = w]
           g1 == Reconcile(g0, config)
           g2 == [g1 EXCEPT !.launch[l] = None]
<1>0. /\ Sound(group) /\ Dense(group) /\ w \in OptionalOf(Live(group)) /\ config \in Configs
      /\ w # None
  BY ConstantAssumption DEF GInv, IInv, OptionalOf, Sound, WellTyped
<1>1. /\ group' = IF w = group.launch[l] THEN g2 ELSE Reconcile(g2, config)
      /\ config' = config /\ group.launch[l] # None /\ group.home[v] = None
  BY DEF PlaceLaunch
<1>2. Sound(g0) /\ \A f \in Fields \ {"home"} : g0[f] = group[f]
  BY <1>0, HomeSound
<1>3. g0.home = [group.home EXCEPT ![v] = w] /\ g0.launch = group.launch
  BY <1>0 DEF Sound, WellTyped, Fields
<1> HIDE DEF g0
<1>4. /\ Carries(group, g0, config) /\ Dense(g0) /\ g0.active = group.active
      /\ g0.wild = group.wild /\ Live(g0) = Live(group) /\ g0.label = group.label
  BY <1>0, <1>2, EditCarries
<1>5. /\ Repaired(g0, g1, config) /\ Quiet(g1, config) /\ ~Abandoned(g1)
      /\ Carries(g0, g1, config)
  <2>1. Moves(g0, g0)
    BY <1>2, MovesNot
  <2>2. Follows(g0, g1, config)
    BY <1>0, <1>2, <1>4, <2>1, ReconcileFollows
  <2> QED BY <1>0, <1>2, <1>4, <2>2, ReconcileRepairs, FollowsCarries
<1> HIDE DEF g1
<1>6. Sound(g1) /\ Dense(g1) /\ None \in OptionalOf(Live(g1))
  BY <1>5 DEF Repaired, OptionalOf
<1>7. /\ Sound(g2) /\ Dense(g2) /\ Carries(g1, g2, config)
      /\ \A f \in Fields \ {"launch"} : g2[f] = g1[f]
      /\ g2.active = g1.active /\ g2.wild = g1.wild /\ g2.home = g1.home
      /\ Live(g2) = Live(g1) /\ g2.label = g1.label
      /\ g2.launch[l] = None /\ \A m \in Launches \ {l} : g2.launch[m] = g1.launch[m]
  BY <1>6, LaunchEdit
<1> HIDE DEF g2
<1>8. Carries(group, g2, config) /\ g2.active = group.active /\ g2.wild = group.wild
  <2>1. g1.active = g0.active /\ g1.wild = g0.wild
    BY <1>5 DEF Repaired, Selection
  <2> QED BY <1>4, <1>5, <1>7, <2>1, CarriesTwice
<1>9. \A u \in Views : group.home[u] # None => g2.home[u] # None
  <2>1. g1.home = g0.home
    BY <1>5 DEF Repaired, Selection
  <2>2. g2.home = [group.home EXCEPT ![v] = w] /\ DOMAIN group.home = Views
    BY <1>0, <1>3, <1>7, <2>1 DEF Sound, WellTyped
  <2> QED BY <1>0, <2>2
<1>10. \A m \in Launches : group.launch[m] # None /\ group.label[group.launch[m]] = Anonymous =>
           \/ g2.launch[m] = group.launch[m] /\ g2.label[group.launch[m]] = Anonymous
           \/ m = l
  BY <1>3, <1>4, <1>5, <1>7 DEF Repaired
<1>11. CASE w # group.launch[l]
  <2>1. group' = Reconcile(g2, config)
    BY <1>1, <1>11
  <2> QED BY <1>1, <1>7, <1>8, <1>9, <1>10, <2>1, EditedSteps
<1>12. CASE w = group.launch[l]
  <2>1. group' = g2
    BY <1>1, <1>12
  <2>2. GInv' /\ NamesStay /\ ReloadFollows
    BY <1>1, <1>8, <2>1, CarriedSteps
  <2>3. Chosen => Chosen'
    BY <1>8, <2>1 DEF Chosen
  <2>4. Swept'
    <3>1. g1.home[v] = w
      BY <1>0, <1>3, <1>5 DEF Repaired, Selection, Sound, WellTyped
    <3>2. Occupied(g1, w)
      BY <3>1 DEF Occupied
    <3>3. g1.launch[l] \in {w, None}
      BY <1>3, <1>5, <1>12 DEF Repaired
    <3>4. None \notin Live(g1)
      BY <1>6, ConstantAssumption DEF Sound, WellTyped
    <3>5. \A x \in Live(g1) : Reserved(g1, x) => Reserved(g2, x) \/ Occupied(g1, x)
      BY <1>7, <3>2, <3>3, <3>4 DEF Reserved
    <3>6. Quiet(g2, config)
      BY <1>5, <1>7, <3>5, LaunchQuiet
    <3> QED BY <1>1, <2>1, <3>6 DEF Swept
  <2>5. ViewsStay
    BY <1>9, <2>1 DEF ViewsStay
  <2>6. LaunchesStay
    BY <1>10, <2>1 DEF LaunchesStay
  <2>7. NothingForgotten
    <3>1. /\ g2.dynamic = g1.dynamic /\ g2.pending = g1.pending
          /\ g2.hold = g1.hold /\ g2.slide = g1.slide
      BY <1>7 DEF Fields
    <3>2. ~Abandoned(g2)
      BY <1>5, <3>1 DEF Abandoned, SlideActive
    <3> QED BY <2>1, <3>2 DEF NothingForgotten
  <2> QED BY <2>2, <2>3, <2>4, <2>5, <2>6, <2>7 DEF Steps
<1> QED BY <1>11, <1>12

\* A new workspace after the hold is taken away, as the overview and an
\* ext-workspace client ask for one (insertDynamicWorkspace).
LEMMA InsertCarries ==
  ASSUME NEW g, Sound(g), Dense(g), NEW i \in 0 .. Size(g), Size(g) < MaxWorkspaces, NEW c
  PROVE  LET h == ForgetRevisit(InsertAt(Invalidate(g), i, 1))
         IN  /\ Sound(h) /\ Dense(h) /\ Carries(g, h, c) /\ Preserves(g, h, c)
             /\ h.active = g.active /\ h.wild = g.wild
             /\ h.slide = g.slide /\ h.pending = g.pending
             /\ g.serial \in Live(h)
<1> DEFINE g0 == Invalidate(g)
           g1 == InsertAt(g0, i, 1)
           h == ForgetRevisit(g1)
<1>1. /\ Sound(g0) /\ g0.hold = NoHold /\ Live(g0) = Live(g)
      /\ \A f \in Fields \ {"hold"} : g0[f] = g[f]
  BY InvalidateSound
<1> HIDE DEF g0
<1>2. /\ g0.index = g.index /\ g0.label = g.label /\ g0.home = g.home /\ g0.launch = g.launch
      /\ g0.active = g.active /\ g0.previous = g.previous /\ g0.wild = g.wild
      /\ g0.slide = g.slide /\ g0.gesture = g.gesture /\ g0.pending = g.pending
      /\ g0.serial = g.serial /\ g0.dynamic = g.dynamic
  BY <1>1 DEF Fields
<1>3. Dense(g0) /\ Size(g0) = Size(g)
  BY <1>1, <1>2, SameOrder DEF Size
<1>4. Size(g) \in Nat /\ 1 \in Nat /\ MaxWorkspaces \in Nat /\ Size(g) + 1 <= MaxWorkspaces
  BY SizeIsNat, ConstantAssumption
<1>5. Repaired(g0, g1, c)
  BY <1>1, <1>3, <1>4, InsertAtRepairs
<1>6. /\ Live(g1) = Live(g0) \cup Fresh(g0, 1)
      /\ \A f \in Fields \ {"index", "label", "serial"} : g1[f] = g0[f]
  <2>1. i \in Nat
    BY <1>4
  <2> QED BY <1>1, <1>4, <2>1, InsertAtFields
<1> HIDE DEF g1
<1>7. /\ g1.previous = g.previous /\ g1.pending = g.pending /\ g1.slide = g.slide
      /\ g1.active = g.active /\ g1.wild = g.wild /\ g1.home = g.home /\ g1.launch = g.launch
      /\ g1.gesture = g.gesture /\ g1.dynamic = g.dynamic
  BY <1>2, <1>6 DEF Fields
<1>8. Sound(g1) /\ Dense(g1)
  BY <1>5 DEF Repaired
<1>9. /\ \A f \in Fields \ {"previous"} : h[f] = g1[f]
      /\ h.previous = IF g1.previous = g1.active THEN None ELSE g1.previous
  BY <1>8 DEF ForgetRevisit, Sound, WellTyped, Fields
<1>10. Sound(h)
  BY <1>8, ForgetRevisitSound
<1> HIDE DEF h
<1>11. /\ h.index = g1.index /\ h.label = g1.label /\ Live(h) = Live(g1)
       /\ h.pending = g.pending /\ h.slide = g.slide /\ h.active = g.active /\ h.wild = g.wild
       /\ h.home = g.home /\ h.launch = g.launch /\ h.gesture = g.gesture /\ h.dynamic = g.dynamic
  BY <1>7, <1>9 DEF Fields, Live
<1>12. Dense(h)
  BY <1>8, <1>11, SameOrder
<1>13. Preserves(g, h, c)
  BY <1>1, <1>2, <1>5, <1>11 DEF Repaired, Preserves
<1>14. Elsewhere(g) => Elsewhere(h)
  BY <1>7, <1>9, <1>11 DEF Elsewhere
<1>15. Ends(g) => Ends(h)
  BY <1>11 DEF Ends, SlideActive
<1>16. Carries(g, h, c)
  BY <1>10, <1>12, <1>13, <1>14, <1>15 DEF Carries, Preserves
<1>17. g.serial \in Live(h)
  <2>1. g0.serial \in Nat
    BY <1>1 DEF Sound, WellTyped
  <2>2. g0.serial \in Fresh(g0, 1)
    BY <2>1 DEF Fresh
  <2> QED BY <1>2, <1>6, <1>11, <2>2
<1> QED BY <1>10, <1>11, <1>12, <1>13, <1>16, <1>17 DEF h, g1, g0

\* The overview drops a window between two workspaces.
LEMMA DropBetweenSteps ==
  ASSUME GInv, NEW v \in Views, NEW i \in 0 .. Size(group), DropBetween(v, i)
  PROVE  Steps
<1> DEFINE g1 == ForgetRevisit(InsertAt(Invalidate(group), i, 1))
           e == [g1 EXCEPT !.home[v] = group.serial]
<1>0. Sound(group) /\ Dense(group) /\ Size(group) < MaxWorkspaces
  BY DEF GInv, IInv, DropBetween
<1>1. group' = Reconcile(e, config) /\ config' = config
  BY DEF DropBetween
<1>2. /\ Sound(g1) /\ Dense(g1) /\ Carries(group, g1, config) /\ Preserves(group, g1, config)
      /\ g1.active = group.active /\ g1.wild = group.wild /\ group.serial \in Live(g1)
  BY <1>0, InsertCarries
<1> HIDE DEF g1
<1>3. group.serial \in OptionalOf(Live(g1)) /\ group.serial # None
  BY <1>0, <1>2, ConstantAssumption DEF OptionalOf, Sound, WellTyped
<1>4. Sound(e) /\ \A f \in Fields \ {"home"} : e[f] = g1[f]
  <2>1. Sound(g1) /\ group.serial \in OptionalOf(Live(g1))
    BY <1>2, <1>3
  <2> QED BY <2>1, HomeSound
<1>5. e.home = [g1.home EXCEPT ![v] = group.serial] /\ e.launch = g1.launch
  BY <1>2 DEF Sound, WellTyped, Fields
<1> HIDE DEF e
<1>6. /\ Carries(g1, e, config) /\ Dense(e) /\ e.active = g1.active /\ e.wild = g1.wild
      /\ e.label = g1.label
  BY <1>2, <1>4, EditCarries
<1>7. Carries(group, e, config)
  BY <1>2, <1>6, CarriesTwice
<1>8. \A u \in Views : group.home[u] # None /\ e.home[u] = None => UnmapView(u)
  <2>1. g1.home = group.home /\ DOMAIN group.home = Views
    BY <1>0, <1>2 DEF Preserves, Sound, WellTyped
  <2> QED BY <1>3, <1>5, <2>1
<1>9. \A l \in Launches : group.launch[l] # None /\ group.label[group.launch[l]] = Anonymous =>
        e.launch[l] = group.launch[l] /\ e.label[group.launch[l]] = Anonymous
  BY <1>2, <1>5, <1>6 DEF Preserves
<1> QED BY <1>1, <1>2, <1>4, <1>6, <1>7, <1>8, <1>9, EditedSteps

\* Mapping, moving and unmapping windows, the overview drop and the launches.
LEMMA UsersSteps ==
  ASSUME GInv,
         \/ \E v \in Views, w \in Live(group) : MapView(v, w) \/ MoveView(v, w)
         \/ \E v \in Views : UnmapView(v)
         \/ \E v \in Views, i \in 0 .. Size(group) : DropBetween(v, i)
         \/ \E l \in Launches, w \in Live(group) : RecordLaunch(l, w)
         \/ \E l \in Launches, v \in Views, w \in Live(group) : PlaceLaunch(l, v, w)
         \/ \E l \in Launches : ExpireLaunch(l)
         \/ ReconcileDynamicWorkspaces
  PROVE  Steps
<1>0. /\ Sound(group) /\ Dense(group) /\ None \in OptionalOf(Live(group))
      /\ \A w \in Live(group) : w # None /\ w \in OptionalOf(Live(group))
      /\ config \in Configs
  BY ConstantAssumption DEF GInv, IInv, OptionalOf, Sound, WellTyped
<1>1. ASSUME NEW v \in Views, NEW w \in Live(group), MapView(v, w) \/ MoveView(v, w)
      PROVE  Steps
  BY <1>0, <1>1, ViewSteps DEF MapView, MoveView
<1>2. ASSUME NEW v \in Views, UnmapView(v)
      PROVE  Steps
  BY <1>0, <1>2, ViewSteps DEF UnmapView
<1>3. ASSUME NEW l \in Launches, ExpireLaunch(l)
      PROVE  Steps
  <2> DEFINE e == [group EXCEPT !.launch[l] = None]
  <2>0. Sound(group) /\ Dense(group) /\ None \in OptionalOf(Live(group))
    BY <1>0
  <2>1. /\ Sound(e) /\ Dense(e) /\ Carries(group, e, config)
        /\ \A f \in Fields \ {"launch"} : e[f] = group[f]
        /\ e.active = group.active /\ e.wild = group.wild /\ e.home = group.home
        /\ Live(e) = Live(group) /\ e.label = group.label
        /\ e.launch[l] = None /\ \A m \in Launches \ {l} : e.launch[m] = group.launch[m]
    BY <2>0, LaunchEdit
  <2>2. group' = Reconcile(e, config) /\ config' = config
    BY <1>3 DEF ExpireLaunch
  <2> HIDE DEF e
  <2> QED BY <1>3, <2>1, <2>2, EditedSteps
<1>4. CASE ReconcileDynamicWorkspaces
  <2>1. group' = Reconcile(group, config) /\ config' = config
    BY <1>4 DEF ReconcileDynamicWorkspaces
  <2>2. Follows(group, group', config)
    BY <1>0, <2>1, MovesNot, ReconcileFollows
  <2> QED BY <2>1, <2>2, FollowedSteps
<1> QED BY <1>1, <1>2, <1>3, <1>4, DropBetweenSteps, RecordLaunchSteps, PlaceLaunchSteps

\* An ext-workspace client's deactivate request: the first other workspace
\* takes over, or, if there is none and that may happen, nothing is active.
LEMMA DeactivateSteps ==
  ASSUME "transition_failure" \notin Disturbances, GInv, Deactivate
  PROVE  Steps
<1> DEFINE fallback == IF WorkspaceAt(group, 0) = group.active
                       THEN WorkspaceAt(group, 1) ELSE WorkspaceAt(group, 0)
           e == [Invalidate(group) EXCEPT !.active = None]
<1>0. Sound(group) /\ Dense(group) /\ Elsewhere(group) /\ config \in Configs
  BY DEF GInv, IInv
<1>1. /\ group.active # None /\ config' = config
      /\ \/ fallback # None /\ group' \in Activations(group, config, fallback, FALSE)
         \/ fallback = None /\ "deactivate_last" \in Disturbances /\ group' = e
  BY DEF Deactivate
<1>2. fallback \in OptionalOf(Live(group))
  BY WorkspaceAtIsLive
<1>3. CASE fallback # None /\ group' \in Activations(group, config, fallback, FALSE)
  <2>1. fallback \in Live(group)
    BY <1>2, <1>3 DEF OptionalOf
  <2> HIDE DEF fallback
  <2>2. Follows(group, group', config)
    BY <1>0, <1>3, <2>1, ActivationsFollow
  <2> QED BY <1>1, <2>2, FollowedSteps
<1>4. CASE fallback = None /\ "deactivate_last" \in Disturbances /\ group' = e
  <2>1. /\ Sound(Invalidate(group)) /\ Live(Invalidate(group)) = Live(group)
        /\ \A f \in Fields \ {"hold"} : Invalidate(group)[f] = group[f]
        /\ Invalidate(group).hold = NoHold
    BY <1>0, InvalidateSound
  <2>2. /\ e = [f \in Fields |-> e[f]]
        /\ \A f \in Fields \ {"active"} : e[f] = Invalidate(group)[f]
        /\ e.active = None
    BY <2>1 DEF Sound, WellTyped, Fields
  <2> HIDE DEF e
  <2>3. /\ \A f \in Fields \ {"active", "hold"} : e[f] = group[f]
        /\ e.hold = NoHold
    BY <2>1, <2>2 DEF Fields
  <2>4. /\ \A f \in Inventory : e[f] = group[f]
        /\ e.slide = group.slide /\ e.previous = group.previous /\ e.gesture = group.gesture
        /\ e.pending = group.pending /\ e.dynamic = group.dynamic
    BY <2>3 DEF Fields, Inventory
  <2>5. Sound(e)
    <3>1. \A f \in Flags : e[f] \in BOOLEAN
      <4>1. \A f \in Flags : group[f] \in BOOLEAN
        BY <1>0 DEF Sound, WellTyped, Flags
      <4> QED BY <2>3, <4>1 DEF Fields, Flags
    <3>2. e.active \in OptionalOf(Live(group)) /\ e.previous \in OptionalOf(Live(group))
      BY <1>0, <2>2, <2>4 DEF Sound, PointsAtLive, OptionalOf
    <3> QED BY <1>0, <2>2, <2>3, <2>4, <3>1, <3>2, SameInventory
  <2>6. /\ e.index = group.index /\ e.label = group.label /\ e.home = group.home
        /\ e.launch = group.launch /\ Live(e) = Live(group) /\ Size(e) = Size(group)
    BY <2>4 DEF Inventory, Live, Size
  <2>7. Dense(e)
    BY <1>0, <2>6, SameOrder
  <2>8. Size(group) = 1 /\ \A w \in Live(group) : w = group.active
    <3>1. \A i : WorkspaceAt(group, i) = None => \A w \in Live(group) : group.index[w] # i
      <4>1. None \notin Live(group)
        BY <1>0, ConstantAssumption DEF Sound, WellTyped
      <4> QED BY <4>1 DEF WorkspaceAt
    <3>2. /\ Size(group) \in Nat /\ Size(group) >= 1
          /\ \A w \in Live(group) : group.index[w] \in 0 .. (Size(group) - 1)
      BY <1>0, SizeIsNat DEF Dense, Ordered
    <3>3. {group.index[w] : w \in Live(group)} = 0 .. (Size(group) - 1)
      <4>1. group.index \in [Live(group) -> 0 .. (Size(group) - 1)]
        BY <1>0, <3>2 DEF Sound, WellTyped
      <4>2. IsFiniteSet(Live(group))
        BY <1>0, SizeIsNat
      <4> QED BY <1>0, <4>1, <4>2, Packed DEF Dense, Ordered, Size
    <3>4. 0 \in {group.index[w] : w \in Live(group)}
      BY <3>2, <3>3
    <3>5. WorkspaceAt(group, 0) # None
      BY <3>1, <3>4
    <3>6. WorkspaceAt(group, 0) = group.active /\ WorkspaceAt(group, 1) = None
      BY <1>4, <3>5
    <3>7. 1 \notin {group.index[w] : w \in Live(group)}
      BY <3>1, <3>6
    <3>8. Size(group) = 1
      <4>1. 1 \notin 0 .. (Size(group) - 1)
        BY <3>3, <3>7
      <4> HIDE DEF Size
      <4> QED BY <3>2, <4>1
    <3>9. \A w \in Live(group) : group.index[w] = 0
      BY <3>2, <3>8
    <3>10. group.active \in Live(group)
      BY <1>0, <1>1 DEF Sound, PointsAtLive, OptionalOf
    <3> QED BY <1>0, <3>8, <3>9, <3>10 DEF Dense, Ordered, OneToOne
  <2>9. Elsewhere(e)
    <3>1. group.previous \in OptionalOf(Live(group))
      BY <1>0 DEF Sound, PointsAtLive
    <3> QED BY <1>0, <2>4, <2>8, <3>1 DEF Elsewhere, OptionalOf
  <2>10. Ends(group) => Ends(e)
    BY <2>4 DEF Ends, SlideActive
  <2>11. Carries(group, e, config)
    BY <2>4, <2>5, <2>6, <2>7, <2>9, <2>10 DEF Carries
  <2>12. GInv' /\ NamesStay /\ ReloadFollows
    BY <1>1, <1>4, <2>11, CarriedSteps
  <2>13. Swept => Swept'
    <3>1. Sentinels(group, config) => Sentinels(e, config)
      BY <2>6 DEF Sentinels, Empty, Occupied, IsFirst, IsLast
    <3>2. ~(Size(e) > config.minimum + 2)
      BY <1>0, <2>6, <2>8, ConstantAssumption
    <3>3. Quiet(group, config) => Quiet(e, config)
      BY <2>4, <3>1, <3>2 DEF Quiet, Tidy, SlideActive
    <3> QED BY <1>1, <1>4, <3>3 DEF Swept
  <2>14. ViewsStay
    BY <1>4, <2>6 DEF ViewsStay
  <2>15. LaunchesStay
    BY <1>4, <2>6 DEF LaunchesStay
  <2>16. NothingForgotten
    BY <1>4, <2>2 DEF NothingForgotten
  <2> QED BY <1>4, <2>12, <2>13, <2>14, <2>15, <2>16 DEF Steps
<1> QED BY <1>1, <1>3, <1>4

\* An ext-workspace client's create request; with a sentinel in place there is
\* an empty workspace to serve it.
LEMMA CreateWorkspaceSteps ==
  ASSUME GInv, CreateWorkspace
  PROVE  Steps
<1>0. Sound(group) /\ Dense(group) /\ Size(group) < MaxWorkspaces /\ Size(group) \in 0 .. Size(group)
  BY SizeIsNat DEF GInv, IInv, CreateWorkspace
<1>1. /\ group' = ForgetRevisit(InsertAt(Invalidate(group), Size(group), 1)) /\ config' = config
      /\ group.dynamic /\ \A w \in Live(group) : ~Empty(group, w)
  BY DEF CreateWorkspace
<1>2. /\ Carries(group, group', config) /\ Preserves(group, group', config)
      /\ group'.active = group.active /\ group'.wild = group.wild
      /\ group'.slide = group.slide /\ group'.pending = group.pending
  BY <1>0, <1>1, InsertCarries
<1>3. GInv' /\ NamesStay /\ ReloadFollows
  BY <1>1, <1>2, CarriedSteps
<1>4. Chosen => Chosen'
  BY <1>2 DEF Chosen
<1>5. Swept => Swept'
  <2>1. ~Sentinels(group, config)
    BY <1>0, <1>1 DEF Sentinels
  <2>2. Quiet(group, config) => Quiet(group', config)
    BY <1>1, <1>2, <2>1 DEF Quiet, Tidy, SlideActive, Preserves
  <2> QED BY <1>1, <2>2 DEF Swept
<1>6. ViewsStay
  BY <1>2 DEF Preserves, ViewsStay
<1>7. LaunchesStay
  BY <1>2 DEF Preserves, LaunchesStay
<1> QED BY <1>3, <1>4, <1>5, <1>6, <1>7 DEF Steps, NothingForgotten

\* Exchanging two positions keeps the inventory in order (moveActive).
LEMMA SwapCarries ==
  ASSUME NEW g, Sound(g), Dense(g), g.hold = NoHold, NEW a \in Live(g), NEW b \in Live(g), NEW c
  PROVE  LET h == Swap(g, a, b)
         IN  /\ Sound(h) /\ Dense(h) /\ Carries(g, h, c) /\ Preserves(g, h, c)
             /\ h.active = g.active /\ h.wild = g.wild
<1> DEFINE h == Swap(g, a, b)
<1>1. /\ \A f \in Fields \ {"index"} : h[f] = g[f]
      /\ h.index = [[g.index EXCEPT ![a] = g.index[b]] EXCEPT ![b] = g.index[a]]
  BY DEF Sound, WellTyped, Fields, Swap
<1>2. Sound(h)
  BY SwapSound
<1> HIDE DEF h
<1>3. /\ h.label = g.label /\ h.home = g.home /\ h.launch = g.launch /\ h.dynamic = g.dynamic
      /\ h.active = g.active /\ h.previous = g.previous /\ h.wild = g.wild
      /\ h.slide = g.slide /\ h.gesture = g.gesture
  BY <1>1 DEF Fields
<1>4. g.index \in [Live(g) -> Nat]
  BY DEF Sound, WellTyped
<1>5. Live(h) = Live(g) /\ Size(h) = Size(g)
  BY <1>1, <1>4 DEF Live, Size
<1>6. \A w \in Live(g) : h.index[w] = IF w = b THEN g.index[a]
                                      ELSE IF w = a THEN g.index[b] ELSE g.index[w]
  BY <1>1, <1>4
<1>7. Ordered(h)
  BY <1>5, <1>6 DEF Dense, Ordered, OneToOne
<1>8. Dense(h)
  BY <1>3, <1>5, <1>7 DEF Dense, Distinct
<1>9. Preserves(g, h, c)
  BY <1>3, <1>5 DEF Preserves
<1>10. Carries(g, h, c)
  BY <1>2, <1>3, <1>8, <1>9 DEF Carries, Preserves, Elsewhere, Ends, SlideActive
<1> QED BY <1>2, <1>3, <1>8, <1>9, <1>10 DEF h

\* Moving the active workspace past its neighbour, which ends a slide first.
LEMMA MoveActiveSteps ==
  ASSUME GInv, NEW direction \in {-1, 1}, MoveActiveWorkspace(direction)
  PROVE  Steps
<1> DEFINE target == WorkspaceAt(group, group.index[group.active] + direction)
           g0 == Invalidate(group)
           g1 == SlideFinish(g0)
           g2 == Swap(g1, group.active, target)
<1>0. Sound(group) /\ Dense(group) /\ config \in Configs
  BY DEF GInv, IInv
<1>1. group.active # None /\ target # None /\ config' = config /\ group' = Reconcile(g2, config)
  BY DEF MoveActiveWorkspace
<1>2. target \in Live(group) /\ group.active \in Live(group)
  BY <1>0, <1>1, WorkspaceAtIsLive DEF OptionalOf, Sound, PointsAtLive
<1> HIDE DEF target
<1>3. Moves(group, g0) /\ Sound(g0) /\ g0.hold = NoHold
  BY <1>0, InvalidateMoves, InvalidateSound
<1> HIDE DEF g0
<1>4. Moves(g0, g1) /\ Sound(g1) /\ g1.hold = NoHold /\ g1.active = g0.active
  BY <1>3, SlideFinishMoves, SlideFinishSound DEF Fields
<1> HIDE DEF g1
<1>5. Moves(group, g1)
  BY <1>3, <1>4, MovesTwice
<1>6. /\ g1.index = group.index /\ g1.label = group.label /\ g1.home = group.home
      /\ g1.launch = group.launch /\ g1.dynamic = group.dynamic /\ Live(g1) = Live(group)
  BY <1>5 DEF Moves, Shifts, Inventory, Live
<1>7. Dense(g1)
  BY <1>0, <1>6, SameOrder
<1>8. Carries(group, g1, config)
  BY <1>5, <1>6, <1>7 DEF Moves, Shifts, Carries
<1>9. /\ Sound(g2) /\ Dense(g2) /\ Carries(g1, g2, config) /\ Preserves(g1, g2, config)
      /\ g2.active = g1.active /\ g2.wild = g1.wild
  BY <1>2, <1>4, <1>6, <1>7, SwapCarries
<1> HIDE DEF g2
<1>10. g1.active = group.active /\ g1.wild = group.wild
  <2>1. g0.active = group.active /\ g0.wild = group.wild
    BY <1>0, InvalidateSound DEF g0, Fields
  <2>2. g1.wild = g0.wild
    BY <1>3, SlideFinishSound DEF g1, Fields
  <2> QED BY <1>4, <2>1, <2>2
<1>11. Carries(group, g2, config)
  BY <1>8, <1>9, CarriesTwice
<1>12. \A v \in Views : group.home[v] # None /\ g2.home[v] = None => UnmapView(v)
  BY <1>6, <1>9 DEF Preserves
<1>13. \A l \in Launches : group.launch[l] # None /\ group.label[group.launch[l]] = Anonymous =>
         g2.launch[l] = group.launch[l] /\ g2.label[group.launch[l]] = Anonymous
  BY <1>6, <1>9 DEF Preserves
<1> QED BY <1>1, <1>9, <1>10, <1>11, <1>12, <1>13, EditedSteps

\* Switching, ext-workspace requests and moving a workspace.
LEMMA SelectionSteps ==
  ASSUME "transition_failure" \notin Disturbances, GInv,
         \/ \E w \in Live(group), animate \in BOOLEAN : Activate(w, animate)
         \/ SelectPrevious
         \/ Deactivate
         \/ CreateWorkspace
         \/ \E direction \in {-1, 1} : MoveActiveWorkspace(direction)
  PROVE  Steps
<1>0. Sound(group) /\ Dense(group) /\ config \in Configs
  BY DEF GInv, IInv
<1>1. ASSUME NEW w \in Live(group), NEW animate \in BOOLEAN, Activate(w, animate)
      PROVE  Steps
  <2>1. Follows(group, group', config) /\ config' = config
    BY <1>0, <1>1, ActivationsFollow DEF Activate
  <2> QED BY <2>1, FollowedSteps
<1>2. CASE SelectPrevious
  <2>1. group.previous \in Live(group)
    BY <1>0, <1>2 DEF SelectPrevious, Sound, PointsAtLive, OptionalOf
  <2>2. Follows(group, group', config) /\ config' = config
    BY <1>0, <1>2, <2>1, ActivationsFollow DEF SelectPrevious
  <2> QED BY <2>2, FollowedSteps
<1> QED BY <1>1, <1>2, DeactivateSteps, CreateWorkspaceSteps, MoveActiveSteps

\* A swipe begins between the neighbours of the active workspace, with no
\* hold (slideBegin).
LEMMA SlideBegunFollows ==
  ASSUME NEW g, Sound(g), Dense(g), g.active # None, NEW c,
         NEW before \in OptionalOf(Live(g)), NEW after \in OptionalOf(Live(g))
  PROVE  Follows(g, [Invalidate(g) EXCEPT
                       !.gesture = TRUE,
                       !.slide = [base |-> g.active, previous |-> before,
                                  next |-> after, settling |-> FALSE]], c)
<1> DEFINE g0 == Invalidate(g)
           slide == [base |-> g.active, previous |-> before, next |-> after, settling |-> FALSE]
           h == [g0 EXCEPT !.gesture = TRUE, !.slide = slide]
<1>1. Sound(h)
  BY SlideBegunSound
<1>2. Sound(g0) /\ \A f \in Fields \ {"hold"} : g0[f] = g[f]
  BY InvalidateSound
<1> HIDE DEF g0
<1>3. /\ \A f \in Fields \ {"gesture", "slide"} : h[f] = g0[f]
      /\ h.gesture = TRUE /\ h.slide = slide
  BY <1>2 DEF Sound, WellTyped, Fields
<1>4. slide.base # None
  OBVIOUS
<1> HIDE DEF h, slide
<1>5. /\ \A f \in Inventory \cup {"dynamic"} : h[f] = g[f]
      /\ h.active = g.active /\ h.previous = g.previous /\ h.wild = g.wild
  BY <1>2, <1>3 DEF Fields, Inventory
<1>6. SlideActive(h) /\ Ends(h)
  BY <1>3, <1>4 DEF SlideActive, Ends
<1>7. Moves(g, h) /\ Rests(g, h) /\ ~Abandoned(h)
  BY <1>1, <1>5, <1>6 DEF Moves, Shifts, Rests, Abandoned, Elsewhere
<1>8. Follows(g, h, c)
  BY <1>7, MoveFollows
<1> QED BY <1>8 DEF h, slide, g0

\* A swipe without an active workspace goes through a pointer to none
\* (slideBegin).
LEMMA WildSound ==
  ASSUME NEW g, Sound(g)
  PROVE  Sound([g EXCEPT !.wild = TRUE])
<1> DEFINE h == [g EXCEPT !.wild = TRUE]
<1>1. /\ h = [f \in Fields |-> h[f]]
      /\ \A f \in Fields \ {"wild"} : h[f] = g[f]
      /\ h.wild \in BOOLEAN
  BY DEF Sound, WellTyped, Fields
<1> HIDE DEF h
<1>2. /\ \A f \in Inventory : h[f] = g[f]
      /\ \A f \in Flags : h[f] \in BOOLEAN
      /\ h.slide = g.slide /\ h.hold = g.hold
      /\ h.active \in OptionalOf(Live(g)) /\ h.previous \in OptionalOf(Live(g))
  BY SMTT(30), <1>1 DEF Sound, WellTyped, PointsAtLive, Fields, Flags, Inventory
<1>3. Sound(h)
  BY <1>1, <1>2, SameInventory
<1> QED BY <1>3 DEF h

\* A swipe follows the fingers.
LEMMA GestureSlideSteps ==
  ASSUME GInv, GestureSlide
  PROVE  Steps
<1> DEFINE beside(g, step) ==
             IF WorkspaceAt(group, group.index[group.active] + step) = None THEN None
             ELSE WorkspaceAt(g, g.index[g.active] + step)
           begun(g) ==
             [Invalidate(g) EXCEPT
                !.gesture = TRUE,
                !.slide = [base |-> g.active, previous |-> beside(g, -1),
                           next |-> beside(g, 1), settling |-> FALSE]]
           lost == [group EXCEPT !.wild = TRUE]
<1>0. Sound(group) /\ Dense(group) /\ config \in Configs
  BY DEF GInv, IInv
<1>1. ASSUME NEW g, Sound(g), Dense(g), g.active # None
      PROVE  Follows(g, begun(g), config)
  <2>1. beside(g, -1) \in OptionalOf(Live(g)) /\ beside(g, 1) \in OptionalOf(Live(g))
    <3>1. None \in OptionalOf(Live(g))
      BY DEF OptionalOf
    <3> QED BY <3>1, WorkspaceAtIsLive
  <2> HIDE DEF beside
  <2> QED BY <1>1, <2>1, SlideBegunFollows
<1>2. /\ config' = config
      /\ \/ group.active = None /\ group' = lost
         \/ group.active # None /\ group' = begun(group)
         \/ group.active # None /\ group' = begun(CancelPair(group, config))
  BY DEF GestureSlide
<1>3. Sound(lost)
  BY <1>0, WildSound
<1>4. \A f \in Fields \ {"wild"} : lost[f] = group[f]
  BY <1>0 DEF Sound, WellTyped, Fields
<1> HIDE DEF begun, lost
<1>5. CASE group.active = None /\ group' = lost
  <2>1. /\ \A f \in Inventory \cup {"dynamic"} : lost[f] = group[f]
        /\ lost.active = group.active /\ lost.previous = group.previous
        /\ lost.slide = group.slide /\ lost.gesture = group.gesture
        /\ lost.pending = group.pending /\ lost.hold = group.hold
    BY <1>4 DEF Fields, Inventory
  <2>2. Moves(group, lost)
    BY <1>3, <1>5, <2>1 DEF Moves, Shifts, Elsewhere, Ends, SlideActive
  <2>3. Rests(group, lost) /\ (Abandoned(lost) => Abandoned(group))
    BY <2>1 DEF Rests, Abandoned, SlideActive
  <2>4. Follows(group, lost, config)
    BY <1>0, <2>2, <2>3, MoveFollows
  <2> QED BY <1>2, <1>5, <2>4, FollowedSteps
<1>6. CASE group.active # None /\ group' = begun(group)
  BY <1>0, <1>1, <1>2, <1>6, FollowedSteps
<1>7. CASE group.active # None /\ group' = begun(CancelPair(group, config))
  <2> DEFINE k == CancelPair(group, config)
  <2>1. Follows(group, k, config)
    BY <1>0, CancelPairFollows
  <2> HIDE DEF k
  <2>2. Follows(k, begun(k), config)
    BY <1>1, <1>7, <2>1 DEF Follows
  <2>3. Follows(group, begun(k), config)
    BY <2>1, <2>2, FollowsTwice
  <2> QED BY <1>2, <1>7, <2>3, FollowedSteps DEF k
<1> QED BY <1>2, <1>5, <1>6, <1>7

\* A slide that is aborted reconciles nothing (slideFinish).
LEMMA SlideAbortSteps ==
  ASSUME GInv, SlideAbort
  PROVE  Steps
<1>0. Sound(group) /\ Dense(group) /\ config \in Configs
  BY DEF GInv, IInv
<1>1. PICK k \in GestureEnd(group, config, 0) : group' = SlideFinish(k) /\ config' = config
  BY DEF SlideAbort
<1>2. "slide_abort" \in Disturbances
  BY DEF SlideAbort
<1>3. Follows(group, k, config)
  BY <1>0, GestureEndFollows
<1>4. Moves(k, group')
  BY <1>1, <1>3, SlideFinishMoves DEF Follows
<1>5. /\ group'.index = k.index /\ group'.label = k.label /\ group'.home = k.home
      /\ group'.launch = k.launch /\ group'.dynamic = k.dynamic /\ Live(group') = Live(k)
  BY <1>4 DEF Moves, Shifts, Inventory, Live
<1>6. Dense(group')
  BY <1>3, <1>5, SameOrder DEF Follows
<1>7. Carries(k, group', config)
  BY <1>4, <1>5, <1>6 DEF Moves, Shifts, Carries
<1>8. Carries(group, group', config)
  BY <1>3, <1>7, FollowsCarries, CarriesTwice
<1>9. GInv' /\ NamesStay /\ ReloadFollows
  BY <1>1, <1>8, CarriedSteps
<1>10. Chosen => Chosen'
  BY <1>3, <1>4 DEF Follows, Moves, Shifts, Chosen
<1>11. ViewsStay
  BY <1>3, <1>5 DEF Follows, Preserves, ViewsStay
<1>12. LaunchesStay
  BY <1>3, <1>5 DEF Follows, Preserves, LaunchesStay
<1> QED BY <1>2, <1>9, <1>10, <1>11, <1>12 DEF Steps, NothingForgotten

\* A reload (reconcileInventory).
LEMMA ReloadSteps ==
  ASSUME GInv, NEW c \in Configs, ReloadInventory(c)
  PROVE  Steps
<1>0. Sound(group) /\ Dense(group) /\ Elsewhere(group)
  BY DEF GInv, IInv
<1>1. PICK k \in GestureEnd(group, c, 0) : group' = ReconcileInventory(k, c) /\ config' = c
  BY DEF ReloadInventory
<1>2. Follows(group, k, c)
  BY <1>0, GestureEndFollows
<1>3. Reloads(k, group', c)
  BY <1>1, <1>2, ReconcileInventoryReloads DEF Follows
<1>4. GInv'
  <2>1. Sound(group') /\ Dense(group') /\ Elsewhere(group') /\ group'.dynamic = config'.dynamic
    BY <1>0, <1>1, <1>2, <1>3 DEF Follows, Reloads
  <2>2. Ends(group')
    BY <1>3 DEF Reloads, Ends, SlideActive, NoSlide
  <2> QED BY <1>1, <2>1, <2>2 DEF GInv, IInv
<1>5. Chosen => Chosen'
  BY <1>2, <1>3 DEF Follows, Reloads, Chosen
<1>6. Swept'
  BY <1>1, <1>3 DEF Reloads, Swept
<1>7. ViewsStay
  BY <1>2, <1>3 DEF Follows, Preserves, Reloads, ViewsStay
<1>8. LaunchesStay
  BY <1>1, <1>2, <1>3 DEF Follows, Preserves, Reloads, LaunchesStay
<1>9. NamesStay
  <2> SUFFICES ASSUME NEW w \in Live(group), group.label[w] # Anonymous,
                      c.dynamic => group.label[w] \in Wanted(c),
                      ~c.dynamic => \E i \in DOMAIN c.fixed : c.fixed[i] = group.label[w]
               PROVE  w \in Live(group') /\ group'.label[w] = group.label[w]
    BY <1>1 DEF NamesStay, Wanted
  <2>1. w \in Live(k) /\ k.label[w] = group.label[w]
    BY <1>2 DEF Follows, Preserves
  <2> QED BY <1>3, <2>1 DEF Reloads
<1>10. ReloadFollows
  <2> SUFFICES ASSUME ~group.gesture, group.active # None
               PROVE  \/ group'.active = group.active /\ group.active \in Live(group')
                      \/ /\ group.active \notin Live(group')
                         /\ \A v \in Views : group.home[v] = group.active =>
                              group'.home[v] = group'.active
    BY DEF ReloadFollows
  <2>1. k = [group EXCEPT !.gesture = FALSE]
    BY <1>1 DEF GestureEnd
  <2>2. k.active = group.active /\ k.home = group.home
    BY <1>0, <2>1 DEF Sound, WellTyped, Fields
  <2> QED BY <1>3, <2>2 DEF Reloads
<1>11. NothingForgotten
  BY <1>3 DEF Reloads, NothingForgotten
<1> QED BY <1>4, <1>5, <1>6, <1>7, <1>8, <1>9, <1>10, <1>11 DEF Steps

\* Swipes, the end of a slide and reloads.
LEMMA SlideSteps ==
  ASSUME GInv,
         \/ GestureSlide
         \/ \E delta \in {-1, 0, 1} : GestureRelease(delta)
         \/ SlideLanded
         \/ SlideAbort
         \/ \E c \in Configs : ReloadInventory(c)
  PROVE  Steps
<1>0. Sound(group) /\ Dense(group) /\ config \in Configs
  BY DEF GInv, IInv
<1>1. ASSUME NEW delta \in {-1, 0, 1}, GestureRelease(delta)
      PROVE  Steps
  <2>1. Follows(group, group', config) /\ config' = config
    BY <1>0, <1>1, GestureEndFollows DEF GestureRelease
  <2> QED BY <2>1, FollowedSteps
<1>2. CASE SlideLanded
  <2>1. group' = Reconcile(SlideFinish(group), config) /\ config' = config
    BY <1>2 DEF SlideLanded
  <2>2. Follows(group, group', config)
    BY <1>0, <2>1, SlideFinishMoves, ReconcileFollows
  <2> QED BY <2>1, <2>2, FollowedSteps
<1> QED BY <1>1, <1>2, GestureSlideSteps, SlideAbortSteps, ReloadSteps

\* Scene presentations and transitions, from begin to end.
LEMMA PresentationSteps ==
  ASSUME GInv,
         \/ PresentationBegin
         \/ \E w \in Live(group) : PresentationCommit(w)
         \/ PresentationCancel
         \/ \E w \in Live(group) : PairBegin(w)
         \/ \E commit \in BOOLEAN : PairSettle(commit)
         \/ PairLease
         \/ PairEnd
  PROVE  Steps
<1>0. Sound(group) /\ Dense(group) /\ config \in Configs
  BY DEF GInv, IInv
<1>a. SUFFICES config' = config /\ Follows(group, group', config)
  BY FollowedSteps
<1>b. config' = config
  BY DEF PresentationBegin, PresentationCommit, PresentationCancel, PairBegin, PairSettle,
         PairLease, PairEnd
<1>c. ASSUME NEW g, Sound(g), Dense(g), MayHold(g), NEW owner \in {"pair", "set"},
             NEW target \in OptionalOf(Live(g)),
             NEW phase \in {"interactive", "preparing", "ending", "shown"}
      PROVE  Follows(g, TakeHold(g, owner, target, phase), config)
  BY <1>c, TakeHoldMoves, MoveFollows
<1>1. CASE PresentationBegin
  <2>1. None \in OptionalOf(Live(group))
    BY DEF OptionalOf
  <2>2. MayHold(group) /\ group' = TakeHold(group, "set", None, "shown")
    BY <1>1 DEF PresentationBegin
  <2>3. Follows(group, TakeHold(group, "set", None, "shown"), config)
    BY <1>0, <1>c, <2>1, <2>2
  <2> QED BY <1>b, <2>2, <2>3
<1>2. ASSUME NEW w \in Live(group), PresentationCommit(w)
      PROVE  Follows(group, group', config)
  <2>1. CASE w = group.active
    <3>1. Moves(group, Defer(group)) /\ Rests(group, Defer(group))
      BY <1>0, DeferMoves DEF Rests
    <3>2. group' = ReleaseHold(Defer(group), config)
      BY <1>2, <2>1 DEF PresentationCommit
    <3> QED BY <1>0, <3>1, <3>2, ReleaseHoldFollows
  <2>2. CASE w # group.active
    <3>1. group' = SwitchNow(group, config, w)
      BY <1>2, <2>2 DEF PresentationCommit
    <3> QED BY <1>0, <2>2, <3>1, MovesNot, SwitchNowFollows
  <2> QED BY <2>1, <2>2
<1>3. CASE PresentationCancel
  <2>1. group' = ReleaseHold(group, config)
    BY <1>3 DEF PresentationCancel
  <2> QED BY <1>0, <1>b, <2>1, MovesNot, ReleaseHoldFollows
<1>4. ASSUME NEW w \in Live(group), PairBegin(w)
      PROVE  Follows(group, group', config)
  <2> DEFINE g1 == IF PairActive(group) THEN CancelPair(group, config) ELSE group
  <2>1. Follows(group, g1, config)
    <3>1. Follows(group, group, config)
      BY <1>0, MovesNot, MoveFollows
    <3> QED BY <1>0, <3>1, CancelPairFollows
  <2>2. MayHold(g1) /\ w \in Live(g1) /\ group' = TakeHold(g1, "pair", w, "interactive")
    BY <1>4 DEF PairBegin
  <2> HIDE DEF g1
  <2>3. Sound(g1) /\ Dense(g1) /\ w \in OptionalOf(Live(g1))
    BY <2>1, <2>2 DEF OptionalOf, Follows
  <2>4. Follows(g1, group', config)
    BY <1>b, <1>c, <2>2, <2>3
  <2> QED BY <2>1, <2>4, FollowsTwice
<1>5. ASSUME NEW g, Sound(g), Dense(g), g.hold # NoHold, NEW k, Moves(g, k), Rests(g, k),
             k.hold # NoHold, NEW phase \in {"interactive", "preparing", "ending", "shown"}
      PROVE  Follows(g, [k EXCEPT !.hold.phase = phase], config)
  <2> DEFINE h == [k EXCEPT !.hold.phase = phase]
  <2>1. Moves(k, h) /\ Rests(k, h) /\ ~Abandoned(h)
    BY <1>5, PhaseMoves DEF Moves, Shifts
  <2> HIDE DEF h
  <2>2. h.dynamic = k.dynamic
    BY <2>1 DEF Moves, Shifts
  <2>3. Moves(g, h) /\ Rests(g, h)
    BY <1>5, <2>1, <2>2, MovesTwice DEF Rests
  <2>4. Follows(g, h, config)
    BY <1>5, <2>1, <2>3, MoveFollows
  <2> QED BY <2>4 DEF h
<1>6. ASSUME group.hold # NoHold
      PROVE  /\ Follows(group, [group EXCEPT !.hold.phase = "preparing"], config)
             /\ Follows(group, [group EXCEPT !.hold.phase = "ending"], config)
             /\ Follows(group, [ActivateSelection(group, group.hold.target)
                                  EXCEPT !.hold.phase = "ending"], config)
  <2>1. Moves(group, group) /\ Rests(group, group)
    BY <1>0, MovesNot
  <2> DEFINE k == ActivateSelection(group, group.hold.target)
  <2>2. Moves(group, k) /\ Rests(group, k) /\ k.hold # NoHold
    BY <1>0, <1>6, ActivateSelectionMoves
  <2> HIDE DEF k
  <2>3. Follows(group, [k EXCEPT !.hold.phase = "ending"], config)
    BY <1>0, <1>5, <1>6, <2>2
  <2> QED BY <1>0, <1>5, <1>6, <2>1, <2>3 DEF k
<1>7. ASSUME NEW commit \in BOOLEAN, PairSettle(commit)
      PROVE  Follows(group, group', config)
  <2>1. group.hold # NoHold
    BY <1>7, ConstantAssumption DEF PairSettle, NoHold
  <2> QED BY <1>6, <1>7, <2>1 DEF PairSettle
<1>8. CASE PairLease
  <2>1. group.hold # NoHold
    BY <1>8, ConstantAssumption DEF PairLease, NoHold
  <2> QED BY <1>6, <1>8, <2>1 DEF PairLease
<1>9. CASE PairEnd
  <2>1. group' = CancelPair(group, config)
    BY <1>9 DEF PairEnd
  <2> QED BY <1>0, <1>b, <2>1, CancelPairFollows
<1> QED BY <1>b, <1>1, <1>2, <1>3, <1>4, <1>7, <1>8, <1>9

\* One sequence after another.
LEMMA Concatenated ==
  ASSUME NEW S, NEW s \in Seq(S), NEW t \in Seq(S)
  PROVE  /\ s \o t \in Seq(S) /\ Len(s \o t) = Len(s) + Len(t)
         /\ \A i \in 1 .. Len(s) : (s \o t)[i] = s[i]
         /\ \A i \in (Len(s) + 1) .. (Len(s) + Len(t)) : (s \o t)[i] = t[i - Len(s)]
OBVIOUS

\* The constructor names every workspace once and keeps to the limit.
LEMMA ConstructedDense ==
  ASSUME NEW c \in Configs
  PROVE  Dense(Constructed(c))
<1> DEFINE h == Constructed(c)
           lead == IF c.emptyAbove THEN <<Anonymous>> ELSE <<>>
           named == lead \o Desired(c)
           count == IF c.minimum > Len(named) + 1 THEN c.minimum ELSE Len(named) + 1
           pad == [i \in 1 .. (count - Len(named)) |-> Anonymous]
           L == InitialLabels(c)
           n == Len(L)
<1>1. c \in ConfigType /\ c.minimum \in 1 .. MaxWorkspaces /\ MaxWorkspaces \in Nat /\ MaxWorkspaces >= 2
  BY ConstantAssumption
<1>2. /\ n \in 1 .. MaxWorkspaces /\ DOMAIN L = 1 .. n
      /\ \A i, j \in 1 .. n : L[i] = L[j] /\ L[i] # Anonymous => i = j
  <2>1. CASE ~c.dynamic
    <3>1. L = c.fixed
      BY <2>1 DEF InitialLabels
    <3>2. Len(c.fixed) \in 1 .. MaxWorkspaces /\ DOMAIN c.fixed = 1 .. Len(c.fixed)
      BY <2>1, ConstantAssumption, ConfigTyped
    <3>3. \A i, j \in DOMAIN c.fixed : c.fixed[i] = c.fixed[j] /\ c.fixed[i] # Anonymous => i = j
      BY ConstantAssumption
    <3> HIDE DEF L
    <3> QED BY <3>1, <3>2, <3>3
  <2>2. CASE c.dynamic
    <3> DEFINE d == Len(Desired(c))
               a == Len(lead)
    <3>1. /\ d \in Nat /\ Desired(c) \in Seq(Names) /\ d <= MaxWorkspaces - (IF c.emptyAbove THEN 2 ELSE 1)
      <4> DEFINE m == Least(Len(c.names), MaxWorkspaces - (IF c.emptyAbove THEN 2 ELSE 1))
      <4>1. m \in 0 .. Len(c.names) /\ m <= MaxWorkspaces - (IF c.emptyAbove THEN 2 ELSE 1)
        <5>1. Len(c.names) \in Nat
          BY <1>1 DEF ConfigType
        <5>2. MaxWorkspaces - (IF c.emptyAbove THEN 2 ELSE 1) \in Nat
          BY <1>1
        <5> QED BY <5>1, <5>2 DEF Least
      <4>2. Desired(c) = SubSeq(c.names, 1, m) /\ c.names \in Seq(Names)
        BY <1>1 DEF Desired, ConfigType
      <4> HIDE DEF m
      <4>3. d = m
        BY <4>1, <4>2
      <4>4. Desired(c) \in Seq(Names)
        BY ConfigTyped
      <4> QED BY <4>1, <4>3, <4>4
    <3>2. /\ a = IF c.emptyAbove THEN 1 ELSE 0
          /\ lead \in Seq(Labels) /\ \A i \in 1 .. a : lead[i] = Anonymous
      <4>1. Anonymous \in Labels
        BY DEF Labels
      <4>2. /\ <<Anonymous>> \in Seq(Labels) /\ Len(<<Anonymous>>) = 1
            /\ \A i \in 1 .. 1 : <<Anonymous>>[i] = Anonymous
        BY <4>1
      <4>3. <<>> \in Seq(Labels) /\ Len(<<>>) = 0 /\ 1 .. 0 = {}
        OBVIOUS
      <4> QED BY <4>2, <4>3
    <3>3. Desired(c) \in Seq(Labels)
      BY <3>1 DEF Labels
    <3>a. Len(lead) = a /\ Len(Desired(c)) = d
      OBVIOUS
    <3> HIDE DEF lead, a, d
    <3>4. /\ named \in Seq(Labels) /\ Len(named) = a + d
          /\ \A i \in 1 .. a : named[i] = Anonymous
          /\ \A i \in (a + 1) .. (a + d) : named[i] = Desired(c)[i - a]
      <4>1. a \in Nat /\ d \in Nat
        BY <3>1, <3>2
      <4>2. named \in Seq(Labels) /\ Len(named) = a + d
        BY <3>2, <3>3, <3>a
      <4>3. ASSUME NEW i \in 1 .. a PROVE named[i] = Anonymous
        BY <3>2, <3>3, <3>a, <4>1
      <4>4. ASSUME NEW i \in (a + 1) .. (a + d) PROVE named[i] = Desired(c)[i - a]
        <5>1. \A j \in (Len(lead) + 1) .. (Len(lead) + Len(Desired(c))) :
                named[j] = Desired(c)[j - Len(lead)]
          BY <3>2, <3>3, Concatenated
        <5> QED BY <3>a, <5>1
      <4> QED BY <4>2, <4>3, <4>4
    <3>5. a + d <= MaxWorkspaces - 1 /\ a + d \in Nat /\ a \in Nat
      BY <1>1, <3>1, <3>2
    <3> HIDE DEF named
    <3>6. count \in Nat /\ count >= a + d + 1 /\ count \in 1 .. MaxWorkspaces
      BY <1>1, <3>4, <3>5
    <3> HIDE DEF count
    <3>7. /\ pad \in Seq(Labels) /\ Len(pad) = count - (a + d)
          /\ \A i \in 1 .. (count - (a + d)) : pad[i] = Anonymous
      BY <3>4, <3>5, <3>6 DEF Labels
    <3> HIDE DEF pad
    <3>8. L = named \o pad
      BY <2>2 DEF InitialLabels, named, lead, count, pad
    <3>b. Len(pad) \in Nat /\ Len(named) + Len(pad) = count
      BY <3>4, <3>5, <3>6, <3>7
    <3> HIDE DEF L
    <3>9. /\ n = count /\ DOMAIN L = 1 .. n
          /\ \A i \in 1 .. a : L[i] = Anonymous
          /\ \A i \in (a + 1) .. (a + d) : L[i] = Desired(c)[i - a]
          /\ \A i \in (a + d + 1) .. n : L[i] = Anonymous
      <4>1. n = count /\ DOMAIN L = 1 .. n
        <5>1. L \in Seq(Labels) /\ Len(L) = Len(named) + Len(pad)
          BY <3>4, <3>7, <3>8, Concatenated
        <5> QED BY <3>b, <5>1
      <4>2. \A i \in 1 .. (a + d) : L[i] = named[i]
        BY <3>4, <3>5, <3>6, <3>7, <3>8
      <4>3. \A i \in (a + d + 1) .. n : L[i] = pad[i - (a + d)] /\ i - (a + d) \in 1 .. (count - (a + d))
        BY <3>4, <3>5, <3>6, <3>7, <3>8, <4>1
      <4>4. /\ \A i \in 1 .. a : i \in 1 .. (a + d)
            /\ \A i \in (a + 1) .. (a + d) : i \in 1 .. (a + d)
        BY <3>1, <3>5
      <4> QED BY <3>4, <3>7, <4>1, <4>2, <4>3, <4>4
    <3>10. ASSUME NEW i \in 1 .. n, NEW j \in 1 .. n, L[i] = L[j], L[i] # Anonymous
           PROVE  i = j
      <4>1. i \in (a + 1) .. (a + d) /\ j \in (a + 1) .. (a + d)
        BY <3>1, <3>5, <3>6, <3>9, <3>10
      <4>2. Desired(c)[i - a] = Desired(c)[j - a]
        BY <3>9, <3>10, <4>1
      <4>3. i - a \in DOMAIN Desired(c) /\ j - a \in DOMAIN Desired(c)
        BY <3>1, <3>5, <3>a, <4>1, NamesOnce
      <4>4. i - a = j - a
        BY <4>2, <4>3, NamesOnce
      <4> QED BY <3>5, <4>1, <4>4
    <3> QED BY <3>6, <3>9, <3>10
  <2>3. c.dynamic \in BOOLEAN
    BY <1>1 DEF ConfigType
  <2> QED BY <2>1, <2>2, <2>3
<1> HIDE DEF L
<1>3. /\ h.index = [w \in 0 .. (n - 1) |-> w]
      /\ h.label = [w \in 0 .. (n - 1) |-> L[w + 1]]
  BY DEF Constructed, L
<1> HIDE DEF h, n
<1>4. n \in Nat /\ n >= 1 /\ n <= MaxWorkspaces
  BY <1>1, <1>2
<1>5. Live(h) = 0 .. (n - 1) /\ Size(h) = n
  <2>1. Live(h) = 0 .. (n - 1)
    BY <1>3 DEF Live
  <2>2. Cardinality(0 .. (n - 1)) = n
    BY <1>4, FS_Interval
  <2> QED BY <2>1, <2>2 DEF Size
<1>6. Ordered(h)
  BY <1>3, <1>5 DEF Ordered, OneToOne
<1>7. Distinct(h)
  <2> SUFFICES ASSUME NEW w \in 0 .. (n - 1), NEW x \in 0 .. (n - 1),
                      L[w + 1] = L[x + 1], L[w + 1] # Anonymous
               PROVE  w = x
    BY <1>3, <1>5 DEF Distinct
  <2>1. w + 1 \in 1 .. n /\ x + 1 \in 1 .. n
    BY <1>4
  <2>2. w + 1 = x + 1
    BY <1>2, <2>1
  <2> QED BY <2>2
<1> QED BY <1>2, <1>5, <1>6, <1>7 DEF Dense, h

\* The first selection leaves the group as the invariants want it
\* (initializeWorkspaces, activate).
LEMMA StartsWell ==
  ASSUME Init
  PROVE  GInv /\ Chosen /\ Swept
<1> DEFINE g0 == Constructed(config)
           g1 == Invalidate(g0)
           g2 == SlideFinish(g1)
           g3 == SwitchTo(g2, 0)
<1>0. config \in Configs /\ group = Reconcile(g3, config)
  BY DEF Init, SwitchNow
<1>1. /\ Sound(g0) /\ Dense(g0) /\ 0 \in Live(g0) /\ g0.active = None /\ g0.previous = None
      /\ g0.wild = FALSE /\ g0.dynamic = config.dynamic /\ g0.slide = NoSlide
  BY <1>0, ConstructedSound, ConstructedDense DEF Constructed
<1> HIDE DEF g0
<1>2. Moves(g0, g1) /\ Sound(g1) /\ Live(g1) = Live(g0) /\ \A f \in Fields \ {"hold"} : g1[f] = g0[f]
  BY <1>1, InvalidateMoves, InvalidateSound
<1> HIDE DEF g1
<1>3. Moves(g1, g2) /\ Sound(g2) /\ Live(g2) = Live(g1) /\ \A f \in Fields \ {"slide"} : g2[f] = g1[f]
  BY <1>2, SlideFinishMoves, SlideFinishSound
<1> HIDE DEF g2
<1>4. g2.wild = FALSE /\ g2.active = None
  BY <1>1, <1>2, <1>3 DEF Fields
<1>5. 0 # None /\ 0 \in Live(g2)
  BY <1>1, <1>2, <1>3, ConstantAssumption DEF Sound, WellTyped
<1>6. Moves(g2, g3) /\ Sound(g3) /\ g3.active = 0 /\ g3.wild = FALSE
  BY <1>3, <1>4, <1>5, SwitchToMoves, SwitchToSound
<1> HIDE DEF g3
<1>7. Moves(g0, g3)
  BY <1>2, <1>3, <1>6, MovesTwice
<1>8. Follows(g0, group, config) /\ Quiet(group, config)
  BY <1>0, <1>1, <1>7, ReconcileFollows
<1>9. g3.index = g0.index /\ g3.label = g0.label
  BY <1>7 DEF Moves, Shifts, Inventory
<1>10. group.active = 0 /\ group.wild = FALSE
  <2>1. Dense(g3)
    BY <1>1, <1>9, SameOrder
  <2>2. Repaired(g3, group, config)
    BY <1>0, <1>6, <2>1, ReconcileRepairs
  <2> QED BY <1>6, <2>2 DEF Repaired, Selection
<1>11. Elsewhere(g0) /\ Ends(g0)
  BY <1>1 DEF Elsewhere, Ends, SlideActive, NoSlide
<1>12. GInv
  BY <1>0, <1>1, <1>8, <1>11 DEF GInv, IInv, Follows, Preserves
<1> QED BY <1>5, <1>8, <1>10, <1>12 DEF Chosen, Swept

-----------------------------------------------------------------------------
(* A group that no presentation and no slide disturbs: what the outputs    *)
(* that come and go may rely on.                                           *)

Resting(g) == Sound(g) /\ Dense(g) /\ g.hold = NoHold /\ g.slide = NoSlide /\ g.active # None

\* A reconciliation moves neither a window nor the selection.
LEMMA ReconcileRests ==
  ASSUME NEW g, Resting(g), NEW c \in Configs
  PROVE  LET h == Reconcile(g, c) IN Resting(h) /\ h.home = g.home /\ h.active = g.active
<1>1. Repaired(g, Reconcile(g, c), c)
  BY ReconcileRepairs DEF Resting
<1> QED BY <1>1 DEF Resting, Repaired, Selection

\* A window comes to a live workspace or leaves.
LEMMA HomeRests ==
  ASSUME NEW g, Resting(g), NEW v \in Views, NEW w \in OptionalOf(Live(g)),
         NEW h, h = [g EXCEPT !.home[v] = w]
  PROVE  Resting(h) /\ h.home = [g.home EXCEPT ![v] = w] /\ h.active = g.active
<1>1. Sound(h) /\ Live(h) = Live(g) /\ \A f \in Fields \ {"home"} : h[f] = g[f]
  BY HomeSound DEF Resting
<1>2. h.home = [g.home EXCEPT ![v] = w]
  BY DEF Resting, Sound, WellTyped, Fields
<1>3. h.index = g.index /\ h.label = g.label /\ h.hold = g.hold /\ h.slide = g.slide /\ h.active = g.active
  BY <1>1 DEF Fields
<1>4. Dense(h)
  BY <1>3, SameOrder DEF Resting
<1> QED BY <1>1, <1>2, <1>3, <1>4 DEF Resting

\* A switch to a workspace that is not active yet (activate).
LEMMA SwitchRests ==
  ASSUME NEW g, Sound(g), Dense(g), NEW c \in Configs, NEW w \in Live(g)
  PROVE  LET h == SwitchNow(g, c, w) IN Resting(h) /\ h.home = g.home /\ h.active = w
<1> DEFINE g1 == Invalidate(g)
           g2 == SlideFinish(g1)
           g3 == SwitchTo(g2, w)
           h == SwitchNow(g, c, w)
<1>1. Sound(g1) /\ Live(g1) = Live(g) /\ g1.hold = NoHold /\ \A f \in Fields \ {"hold"} : g1[f] = g[f]
  BY InvalidateSound
<1> HIDE DEF g1
<1>2. Sound(g2) /\ Live(g2) = Live(g) /\ g2.slide = NoSlide /\ \A f \in Fields \ {"slide"} : g2[f] = g1[f]
  BY <1>1, SlideFinishSound
<1> HIDE DEF g2
<1>3. Sound(g3) /\ g3.active = w /\ \A f \in Fields \ {"active", "previous", "wild"} : g3[f] = g2[f]
  BY <1>2, SwitchToSound
<1> HIDE DEF g3
<1>4. g3.index = g.index /\ g3.label = g.label /\ g3.home = g.home /\ g3.hold = NoHold /\ g3.slide = NoSlide
  BY <1>1, <1>2, <1>3 DEF Fields
<1>5. Dense(g3)
  BY <1>4, SameOrder
<1>6. w # None
  BY ConstantAssumption DEF Sound, WellTyped
<1>7. h = Reconcile(g3, c)
  BY DEF SwitchNow, g1, g2, g3
<1>8. Resting(g3)
  BY <1>3, <1>4, <1>5, <1>6 DEF Resting
<1> HIDE DEF h
<1> QED BY <1>3, <1>4, <1>7, <1>8, ReconcileRests DEF h

\* New workspaces at a position, while there is room (insertDynamicWorkspace).
LEMMA InsertRests ==
  ASSUME NEW g, Resting(g), NEW i \in 0 .. Size(g), NEW n \in Nat, Size(g) + n <= MaxWorkspaces
  PROVE  LET h == InsertAt(g, i, n)
         IN /\ Resting(h) /\ h.home = g.home /\ h.active = g.active
            /\ Live(g) \subseteq Live(h) /\ Size(h) = Size(g) + n
            /\ n > 0 => g.serial \in Live(h)
<1> DEFINE h == InsertAt(g, i, n)
<1>1. Sound(g) /\ Dense(g) /\ g.hold = NoHold
  BY DEF Resting
<1>2. Size(g) \in Nat /\ i \in Nat
  BY <1>1, SizeIsNat
<1>3. Sound(h) /\ Dense(h)
  BY <1>1, <1>2, InsertAtSound, InsertAtDense
<1>4. /\ \A f \in Fields \ {"index", "label", "serial"} : h[f] = g[f]
      /\ Live(h) = Live(g) \cup Fresh(g, n) /\ Size(h) = Size(g) + n
  BY <1>1, <1>2, InsertAtFields
<1> HIDE DEF h
<1>5. n > 0 => g.serial \in Fresh(g, n)
  BY <1>1 DEF Fresh, Sound, WellTyped
<1>6. h.home = g.home /\ h.active = g.active /\ h.hold = g.hold /\ h.slide = g.slide
  BY <1>4 DEF Fields
<1> QED BY <1>1, <1>3, <1>4, <1>5, <1>6 DEF Resting, h

\* The group a new output starts with (Output::Output).
LEMMA StartRests ==
  ASSUME NEW c \in Configs
  PROVE  LET h == SwitchNow(Constructed(c), c, 0) IN Resting(h) /\ h.home = [v \in Views |-> None]
<1> DEFINE g == Constructed(c)
<1>1. Sound(g) /\ Dense(g) /\ 0 \in Live(g)
  BY ConstructedSound, ConstructedDense
<1>2. g.home = [v \in Views |-> None]
  BY DEF Constructed
<1> HIDE DEF g
<1>3. LET h == SwitchNow(g, c, 0) IN Resting(h) /\ h.home = g.home
  BY <1>1, SwitchRests
<1> QED BY <1>2, <1>3 DEF g

\* Every position below the size is taken (workspaceAt).
LEMMA AtRests ==
  ASSUME NEW g, Resting(g)
  PROVE  /\ Size(g) \in 1 .. MaxWorkspaces /\ MaxWorkspaces \in Nat
         /\ \A i \in 0 .. (Size(g) - 1) : WorkspaceAt(g, i) \in Live(g) /\ g.index[WorkspaceAt(g, i)] = i
         /\ \A i : WorkspaceAt(g, i) \in OptionalOf(Live(g))
         /\ \A i : WorkspaceAt(g, i) # None => i \in 0 .. (Size(g) - 1)
         /\ g.index \in [Live(g) -> 0 .. (Size(g) - 1)]
         /\ g.active \in Live(g) /\ Live(g) \subseteq Nat /\ None \notin Live(g)
         /\ g.home \in [Views -> OptionalOf(Live(g))]
<1>1. Sound(g) /\ Dense(g) /\ IsFiniteSet(Live(g)) /\ Size(g) \in 1 .. MaxWorkspaces
  BY SizeIsNat DEF Resting, Dense
<1>2. g.index \in [Live(g) -> 0 .. (Cardinality(Live(g)) - 1)]
  BY <1>1 DEF Dense, Ordered, Sound, WellTyped, Size
<1>3. {g.index[w] : w \in Live(g)} = 0 .. (Size(g) - 1)
  BY <1>1, <1>2, Packed DEF Dense, Ordered, Size
<1>4. \A i \in 0 .. (Size(g) - 1) : \E w \in Live(g) : g.index[w] = i
  BY <1>3
<1>5. \A i \in 0 .. (Size(g) - 1) : WorkspaceAt(g, i) \in Live(g) /\ g.index[WorkspaceAt(g, i)] = i
  BY <1>4 DEF WorkspaceAt
<1>6. g.active \in Live(g) /\ g.home \in [Views -> OptionalOf(Live(g))]
  BY <1>1 DEF Resting, Sound, WellTyped, PointsAtLive, OptionalOf
<1>7. Live(g) \subseteq Nat /\ None \notin Nat
  BY <1>1, ConstantAssumption DEF Sound, WellTyped
<1>8. \A i : WorkspaceAt(g, i) # None => i \in 0 .. (Size(g) - 1)
  BY <1>3 DEF WorkspaceAt
<1> QED BY <1>1, <1>2, <1>5, <1>6, <1>7, <1>8, WorkspaceAtIsLive, ConstantAssumption DEF Size

-----------------------------------------------------------------------------
(* The theorems.                                                           *)

\* A step of the group is a handler that keeps everything, or a stutter.
LEMMA EveryStep ==
  ASSUME "transition_failure" \notin Disturbances, GInv, [Next]_vars
  PROVE  Steps \/ UNCHANGED vars
<1>1. CASE Next
  BY <1>1, UsersSteps, SelectionSteps, SlideSteps, PresentationSteps DEF Next
<1> QED BY <1>1

\* A stutter keeps what is said of one state.
LEMMA Stutters ==
  ASSUME UNCHANGED vars
  PROVE  (GInv => GInv') /\ (Chosen => Chosen') /\ (Swept => Swept')
BY DEF vars, GInv, IInv, Chosen, Swept

\* The inductive invariant: every handler leaves a group that is sound and in
\* order, whose m_previous is another workspace and whose slide has an end,
\* unless a scene transition fails after it took its hold.
THEOREM GroupInvariance ==
  ASSUME "transition_failure" \notin Disturbances
  PROVE  Spec => []GInv
<1>1. Init => GInv
  BY StartsWell
<1>2. GInv /\ [Next]_vars => GInv'
  BY EveryStep, Stutters DEF Steps
<1> QED BY <1>1, <1>2, PTL DEF Spec

\* No handler leaves two workspaces with one m_index or skips a position: what
\* insertDynamicWorkspace, reconcileDynamic, reconcileInventory and moveActive
\* renumber is always 0 .. size - 1.
THEOREM OrderStaysDense ==
  ASSUME "transition_failure" \notin Disturbances
  PROVE  Spec => []OrderIsDense
<1>1. GInv => OrderIsDense
  <2> SUFFICES ASSUME GInv PROVE OrderIsDense
    OBVIOUS
  <2>1. /\ Sound(group) /\ Size(group) \in Nat /\ IsFiniteSet(Live(group))
        /\ \A w \in Live(group) : group.index[w] \in 0 .. (Size(group) - 1)
        /\ OneToOne(Live(group), group.index)
    BY SizeIsNat DEF GInv, IInv, Dense, Ordered
  <2>2. group.index \in [Live(group) -> 0 .. (Size(group) - 1)]
    BY <2>1 DEF Sound, WellTyped
  <2> QED BY <2>1, <2>2, Packed DEF OrderIsDense, Size
<1> QED BY <1>1, GroupInvariance, PTL

\* The inventory is never empty and never above kMaxWorkspaces, over every
\* insertion, replenishment and reload.
THEOREM LimitHolds ==
  ASSUME "transition_failure" \notin Disturbances
  PROVE  Spec => []WithinLimit
<1>1. GInv => WithinLimit
  BY DEF GInv, Dense, WithinLimit
<1> QED BY <1>1, GroupInvariance, PTL

\* back_and_forth never goes to the workspace that is active already.
THEOREM PreviousStaysElsewhere ==
  ASSUME "transition_failure" \notin Disturbances
  PROVE  Spec => []PreviousIsElsewhere
<1>1. GInv => PreviousIsElsewhere
  BY DEF GInv, Elsewhere, PreviousIsElsewhere
<1> QED BY <1>1, GroupInvariance, PTL

\* No slide is left on screen without a settle or a swipe that will end it.
THEOREM SlidesEnd ==
  ASSUME "transition_failure" \notin Disturbances
  PROVE  Spec => []SlideHasEnd
<1>1. GInv => SlideHasEnd
  BY DEF GInv, Ends, SlideHasEnd
<1> QED BY <1>1, GroupInvariance, PTL

\* As long as no client deactivates the only workspace, a workspace is active
\* and activate, slideSettle and reconcileInventory never dereference a pointer
\* to one that is gone.
THEOREM NothingWild ==
  ASSUME "transition_failure" \notin Disturbances, "deactivate_last" \notin Disturbances
  PROVE  Spec => []NoWildPointer
<1>1. Init => GInv /\ Chosen
  BY StartsWell
<1>2. GInv /\ Chosen /\ [Next]_vars => GInv' /\ Chosen'
  BY EveryStep, Stutters DEF Steps
<1>3. Chosen => NoWildPointer
  BY DEF Chosen, NoWildPointer
<1> QED BY <1>1, <1>2, <1>3, PTL DEF Spec

\* As long as no slide is aborted, the inventory is tidy whenever no slide is
\* on and no reconciliation is put off.
THEOREM SweptAlways ==
  ASSUME "transition_failure" \notin Disturbances, "slide_abort" \notin Disturbances
  PROVE  Spec => [](GInv /\ Swept)
<1>1. Init => GInv /\ Swept
  BY StartsWell
<1>2. GInv /\ Swept /\ [Next]_vars => GInv' /\ Swept'
  BY EveryStep, Stutters DEF Steps
<1> QED BY <1>1, <1>2, PTL DEF Spec

\* Below the limit a settled dynamic inventory ends in an empty anonymous
\* workspace and, with empty_above, begins with another one: reconcileDynamic
\* runs at the end of every handler that can use a sentinel up.
THEOREM SentinelsStand ==
  ASSUME "transition_failure" \notin Disturbances, "slide_abort" \notin Disturbances
  PROVE  Spec => []SentinelsPresent
<1>1. Swept => SentinelsPresent
  BY DEF Swept, Quiet, Tidy, Sentinels, SentinelsPresent, Settled, SentinelsInPlace
<1> QED BY <1>1, SweptAlways, PTL

\* A settled dynamic inventory more than two workspaces above its floor keeps
\* no empty anonymous workspace that no rule keeps (the prune of
\* reconcileDynamic and the sentinels added after it).
THEOREM StraysStayNearFloor ==
  ASSUME "transition_failure" \notin Disturbances, "slide_abort" \notin Disturbances
  PROVE  Spec => []StraysOnlyNearFloor
<1>1. Swept => StraysOnlyNearFloor
  BY DEF Swept, Quiet, Tidy, StrayIn, StraysOnlyNearFloor, Settled, Stray
<1> QED BY <1>1, SweptAlways, PTL

\* No view loses its workspace except by unmapping: a prune takes no workspace
\* a view lives on, and a reload moves the views of those it removes.
THEOREM ViewsStayAtHome ==
  ASSUME "transition_failure" \notin Disturbances
  PROVE  Spec => ViewsKeepAHome
<1>1. GInv /\ [Next]_vars => [\A v \in Views : group.home[v] # None /\ group'.home[v] = None =>
                                 UnmapView(v)]_vars
  BY EveryStep DEF Steps, ViewsStay
<1> QED BY <1>1, GroupInvariance, PTL DEF Spec, ViewsKeepAHome

\* A launch recorded on an anonymous workspace keeps it, still anonymous, until
\* its window is placed or its token expires, whatever is pruned, claimed or
\* reloaded meanwhile.
THEOREM LaunchesKeepTheirPlace ==
  ASSUME "transition_failure" \notin Disturbances
  PROVE  Spec => LaunchKeepsWorkspace
<1>1. GInv /\ [Next]_vars =>
        [\A l \in Launches :
           (/\ group.launch[l] # None /\ config'.dynamic
            /\ group.label[group.launch[l]] = Anonymous) =>
             \/ /\ group'.launch[l] = group.launch[l]
                /\ group'.label[group.launch[l]] = Anonymous
             \/ ExpireLaunch(l)
             \/ \E v \in Views, w \in Live(group) : PlaceLaunch(l, v, w)]_vars
  BY EveryStep DEF Steps, LaunchesStay
<1> QED BY <1>1, GroupInvariance, PTL DEF Spec, LaunchKeepsWorkspace

\* A workspace whose name is still declared is the same workspace after every
\* handler, reloads between dynamic and fixed inventories included.
THEOREM NamesKeepTheirWorkspace ==
  ASSUME "transition_failure" \notin Disturbances
  PROVE  Spec => DeclaredNameKeepsIdentity
<1>1. GInv /\ [Next]_vars =>
        [\A w \in Live(group) :
           (/\ group.label[w] # Anonymous
            /\ config'.dynamic => \E i \in DOMAIN Desired(config') : Desired(config')[i] = group.label[w]
            /\ ~config'.dynamic => \E i \in DOMAIN config'.fixed : config'.fixed[i] = group.label[w]) =>
           /\ w \in Live(group')
           /\ group'.label[w] = group.label[w]]_vars
  BY EveryStep DEF Steps, NamesStay
<1> QED BY <1>1, GroupInvariance, PTL DEF Spec, DeclaredNameKeepsIdentity

\* A reload leaves the active workspace active, or activates the one that the
\* windows of the removed active workspace went to (reconcileInventory).
THEOREM ReloadsFollowTheActive ==
  ASSUME "transition_failure" \notin Disturbances
  PROVE  Spec => ReloadFollowsActive
<1>1. GInv /\ [Next]_vars =>
        [config' # config /\ ~group.gesture /\ group.active # None =>
           \/ group'.active = group.active /\ group.active \in Live(group')
           \/ /\ group.active \notin Live(group')
              /\ \A v \in Views : group.home[v] = group.active => group'.home[v] = group'.active]_vars
  BY EveryStep DEF Steps, ReloadFollows
<1> QED BY <1>1, GroupInvariance, PTL DEF Spec, ReloadFollowsActive

\* No lost wake-up: a reconciliation that is put off has a hold or a slide
\* whose end makes up for it, after every handler but a create request that
\* takes the hold away, an aborted slide and the deactivation of the only
\* workspace (m_inventoryReconciliationPending).
THEOREM DeferredIsMadeUpAlways ==
  ASSUME "transition_failure" \notin Disturbances
  PROVE  Spec => DeferredIsMadeUp
<1>1. GInv /\ [Next]_vars =>
        [Abandoned(group') =>
           \/ Abandoned(group) \/ CreateWorkspace \/ SlideAbort \/ group'.active = None]_vars
  BY EveryStep DEF Steps, NothingForgotten
<1> QED BY <1>1, GroupInvariance, PTL DEF Spec, DeferredIsMadeUp
=============================================================================
