--------------------------- MODULE ScratchpadProofs ---------------------------
(***************************************************************************)
(* The pads of Scratchpads, for every set of windows, names and outputs.   *)
(*                                                                         *)
(* A handler calls the manager several times, and between two calls a pad  *)
(* may show something else than what it says.  Sound(s, L, X, W) is the    *)
(* invariant without what the pads in X and the windows in W still owe,    *)
(* every pointer to an output being in L.                                  *)
(***************************************************************************)
EXTENDS Scratchpads, SequenceLemmas, FiniteSetTheorems, TLAPS

SpawnOn(L) == [output : L, live : BOOLEAN, shown : BOOLEAN]

PadOn(L) == [output : L \cup {None}, visible : BOOLEAN, last : Views \cup {None}, solo : Views \cup {None},
             spawn : SpawnOn(L) \cup {None}, home : Outputs \cup {None}]

State(L) == [pads : [Names -> PadOn(L) \cup {None}], wins : Windows]

Up(s, p) == s.pads[p].visible /\ s.pads[p].output # None

\* What the record of a pad says about the pad itself.
Switched(s, p) ==
  /\ ~s.pads[p].visible => s.pads[p].solo = None
  /\ s.pads[p].visible => Members(s, p) # {}
  /\ s.pads[p].solo \in Members(s, p) \cup {None}

Displayed(s, p) ==
  \A v \in Members(s, p) :
    /\ v \in s.wins.shown => Up(s, p) /\ (s.pads[p].solo \in {None, v} \/ Owner[v] # None)
    /\ Up(s, p) /\ s.pads[p].solo \in {None, v} => v \in s.wins.shown

Alone(s) ==
  \A p, q \in Defined(s) :
    p # q /\ s.pads[p].visible /\ s.pads[q].visible /\ s.pads[p].output = s.pads[q].output
      => s.pads[p].output = None

\* Who is where, whatever is on screen.
Roster(s) ==
  /\ IsInjective(s.wins.entries) /\ Entries(s) \subseteq s.wins.mapped
  /\ \A v \in Views : s.wins.pad[v] # None <=> v \in Entries(s)
  /\ \A v \in Entries(s) : s.wins.pad[v] \in Defined(s)
  /\ \A v \in Views : s.wins.parent[v] \in {None, Owner[v]} \cap (s.wins.mapped \cup {None})
  /\ s.wins.noted \in Entries(s) \cup {None}
  /\ \A p \in Defined(s) : s.pads[p].last \in Members(s, p) \cup {None}

Screen(s, W) ==
  /\ s.wins.shown \subseteq s.wins.mapped
  /\ (s.wins.mapped \ Entries(s)) \ W \subseteq s.wins.shown
  /\ s.wins.hiding \subseteq Entries(s)
  /\ \A v \in s.wins.hiding \cap s.wins.shown : Owner[v] # None

Sound(s, L, X, W) ==
  /\ s \in State(L) /\ L \in SUBSET Outputs
  /\ Roster(s) /\ Screen(s, W) /\ Alone(s)
  /\ \A p \in Defined(s) \ X : Switched(s, p) /\ Displayed(s, p)

\* What the operators on the display leave alone.
Alike(s, t) ==
  /\ \A x \in {"mapped", "parent", "entries", "pad", "focus", "noted"} : t.wins[x] = s.wins[x]
  /\ Defined(t) = Defined(s)

-----------------------------------------------------------------------------
(* States and their parts.                                                 *)

\* No pointer in the code is confused with what it points at.
LEMMA NoneFacts ==
  /\ None \notin Views /\ None \notin Names /\ None \notin Outputs /\ None \notin Pad
  /\ Names \subseteq Nat /\ Owner \in [Views -> Views \cup {None}]
  /\ \A v \in Views : Owner[v] # v
BY PadsAssumption

\* A pad whose pointers to outputs are in L is a pad, and not nullptr.
LEMMA PadOnFacts ==
  ASSUME NEW L \in SUBSET Outputs
  PROVE  PadOn(L) \subseteq Pad /\ None \notin PadOn(L) /\ None \notin SpawnOn(L)
<1>1. SpawnOn(L) \subseteq Spawn
  BY DEF SpawnOn, Spawn
<1>2. PadOn(L) \subseteq Pad
  BY <1>1 DEF PadOn, Pad
<1> QED BY <1>1, <1>2, PadsAssumption

\* The fields of a pad in m_scratchpads are what their declarations say.
LEMMA PadFields ==
  ASSUME NEW L \in SUBSET Outputs, NEW s \in State(L), NEW p \in Defined(s)
  PROVE  /\ p \in Names /\ s.pads[p] \in PadOn(L) /\ s.pads[p] # None
         /\ s.pads[p].output \in L \cup {None} /\ s.pads[p].visible \in BOOLEAN
         /\ s.pads[p].last \in Views \cup {None} /\ s.pads[p].solo \in Views \cup {None}
         /\ s.pads[p].spawn \in SpawnOn(L) \cup {None} /\ s.pads[p].home \in Outputs \cup {None}
<1>1. p \in Names /\ s.pads[p] # None /\ s.pads \in [Names -> PadOn(L) \cup {None}]
  BY DEF State, Defined
<1>2. s.pads[p] \in PadOn(L)
  BY <1>1
<1> QED BY <1>1, <1>2 DEF PadOn

\* A member of a pad is an entry of m_entries, one that names the pad.
LEMMA EntriesFacts ==
  ASSUME NEW L \in SUBSET Outputs, NEW s \in State(L)
  PROVE  /\ s.wins.entries \in Seq(Views)
         /\ Entries(s) \subseteq Views
         /\ \A p : Members(s, p) \subseteq Entries(s)
         /\ \A p : \A v : v \in Members(s, p) <=> v \in Entries(s) /\ s.wins.pad[v] = p
<1>1. s.wins.entries \in Seq(Views)
  BY DEF State, Windows
<1>2. Entries(s) \subseteq Views
  BY <1>1 DEF Entries, ToSet
<1> QED BY <1>1, <1>2 DEF Members

\* The fields of the windows' record are what their declarations say.
LEMMA WinFields ==
  ASSUME NEW L \in SUBSET Outputs, NEW s \in State(L)
  PROVE  /\ s.wins \in Windows
         /\ s.wins.mapped \in SUBSET Views /\ s.wins.shown \in SUBSET Views /\ s.wins.hiding \in SUBSET Views
         /\ s.wins.parent \in [Views -> Views \cup {None}] /\ s.wins.pad \in [Views -> Names \cup {None}]
         /\ s.wins.focus \in Views \cup {None} /\ s.wins.noted \in Views \cup {None}
         /\ s.wins.entries \in Seq(Views)
BY DEF State, Windows

\* The display of a pad has no say in who belongs to it.
LEMMA AlikeMembers ==
  ASSUME NEW s, NEW t, Alike(s, t)
  PROVE  /\ Entries(t) = Entries(s) /\ Defined(t) = Defined(s)
         /\ \A p : Members(t, p) = Members(s, p) /\ MembersInOrder(t, p) = MembersInOrder(s, p)
         /\ t.wins.mapped = s.wins.mapped /\ t.wins.parent = s.wins.parent /\ t.wins.focus = s.wins.focus
         /\ t.wins.noted = s.wins.noted /\ t.wins.pad = s.wins.pad /\ t.wins.entries = s.wins.entries
<1>1. /\ t.wins.mapped = s.wins.mapped /\ t.wins.parent = s.wins.parent /\ t.wins.focus = s.wins.focus
      /\ t.wins.noted = s.wins.noted /\ t.wins.pad = s.wins.pad /\ t.wins.entries = s.wins.entries
  BY DEF Alike
<1>2. Entries(t) = Entries(s)
  BY <1>1 DEF Entries
<1>3. \A p : Members(t, p) = Members(s, p)
  BY <1>1, <1>2 DEF Members
<1>4. \A p : MembersInOrder(t, p) = MembersInOrder(s, p)
  BY <1>1, <1>3 DEF MembersInOrder
<1>5. Defined(t) = Defined(s)
  BY DEF Alike
<1> QED BY <1>1, <1>2, <1>3, <1>4, <1>5

\* Neither have two operators on the display in a row.
LEMMA AlikeTransitive == ASSUME NEW s, NEW t, NEW u, Alike(s, t), Alike(t, u) PROVE Alike(s, u)
BY DEF Alike

\* Nor has none.
LEMMA AlikeReflexive == ASSUME NEW s PROVE Alike(s, s)
BY DEF Alike

-----------------------------------------------------------------------------
(* Showing and hiding.                                                     *)

\* Reveal writes the scene nodes of one pad's members and nothing else.
LEMMA RevealShape ==
  ASSUME NEW L \in SUBSET Outputs, NEW s \in State(L), NEW p, NEW fade \in SUBSET Views
  PROVE  LET t == Reveal(s, p, fade)
         IN /\ t \in State(L) /\ t.pads = s.pads /\ Alike(s, t)
            /\ t.wins.shown = (s.wins.shown \ Members(s, p)) \cup Presented(s, p)
            /\ t.wins.hiding = (s.wins.hiding \ Members(s, p)) \cup (fade \cap (Members(s, p) \ Presented(s, p)))
<1> DEFINE A == (s.wins.shown \ Members(s, p)) \cup Presented(s, p)
           B == (s.wins.hiding \ Members(s, p)) \cup (fade \cap (Members(s, p) \ Presented(s, p)))
           t == Reveal(s, p, fade)
<1>1. A \in SUBSET Views /\ B \in SUBSET Views
  BY EntriesFacts, WinFields DEF Presented
<1>2. t = [s EXCEPT !.wins.shown = A, !.wins.hiding = B]
  BY DEF Reveal
<1> HIDE DEF A, B, t
<1>3. t \in State(L)
  BY <1>1, <1>2 DEF State, Windows
<1>4. t.pads = s.pads
  BY <1>2 DEF State
<1>5. t.wins.shown = A /\ t.wins.hiding = B
  BY <1>2 DEF State, Windows
<1>6. \A x \in {"mapped", "parent", "entries", "pad", "focus", "noted"} : t.wins[x] = s.wins[x]
  BY <1>2 DEF State, Windows
<1>7. Alike(s, t)
  BY <1>4, <1>6 DEF Alike, Defined
<1> QED BY <1>3, <1>4, <1>5, <1>7 DEF A, B, t

\* A pad that is shown again shows what it holds, and no other pad notices.
LEMMA RevealSound ==
  ASSUME NEW L, NEW s, NEW X, NEW W, Sound(s, L, X, W), NEW p \in Defined(s), Switched(s, p),
         NEW fade \in SUBSET Views
  PROVE  /\ Sound(Reveal(s, p, fade), L, X \ {p}, W)
         /\ \A v \in Members(s, p) : Presents(s, p, v) <=> v \in Reveal(s, p, fade).wins.shown
<1> DEFINE t == Reveal(s, p, fade)
           M == Members(s, p)
<1>0. s \in State(L) /\ L \in SUBSET Outputs /\ Roster(s) /\ Screen(s, W) /\ Alone(s)
  BY DEF Sound
<1>1. /\ t \in State(L) /\ t.pads = s.pads /\ Alike(s, t)
      /\ t.wins.shown = (s.wins.shown \ M) \cup Presented(s, p)
      /\ t.wins.hiding = (s.wins.hiding \ M) \cup (fade \cap (M \ Presented(s, p)))
  BY <1>0, RevealShape
<1> HIDE DEF t
<1>2. /\ Entries(t) = Entries(s) /\ Defined(t) = Defined(s)
      /\ \A q : Members(t, q) = Members(s, q)
      /\ t.wins.mapped = s.wins.mapped /\ t.wins.parent = s.wins.parent
      /\ t.wins.noted = s.wins.noted /\ t.wins.pad = s.wins.pad /\ t.wins.entries = s.wins.entries
  BY <1>1, AlikeMembers
<1>3. Presented(s, p) \subseteq M /\ \A v \in M : v \in Presented(s, p) <=> Presents(s, p, v)
  BY DEF Presented
<1>4. \A v \in M : Presents(s, p, v) <=> v \in t.wins.shown
  BY <1>1, <1>3
<1>5. Roster(t)
  BY <1>0, <1>1, <1>2 DEF Roster
<1>6. Screen(t, W)
  <2>1. M \subseteq Entries(s) /\ Entries(s) \subseteq s.wins.mapped
    BY <1>0, EntriesFacts DEF Roster
  <2> QED BY <1>0, <1>1, <1>2, <1>3, <2>1 DEF Screen
<1>7. Alone(t)
  BY <1>0, <1>1, <1>2 DEF Alone
<1>8. Switched(t, p)
  BY <1>1, <1>2 DEF Switched
<1>9. Displayed(t, p)
  <2> SUFFICES ASSUME NEW v \in M
               PROVE  /\ v \in t.wins.shown => Up(s, p) /\ (s.pads[p].solo \in {None, v} \/ Owner[v] # None)
                      /\ Up(s, p) /\ s.pads[p].solo \in {None, v} => v \in t.wins.shown
    BY <1>1, <1>2 DEF Displayed, Up
  <2>1. v \in t.wins.shown <=> Presents(s, p, v)
    BY <1>4
  <2>2. Up(s, p) /\ s.pads[p].solo \in {None, v} => Presents(s, p, v)
    BY DEF Presents, Up
  <2>3. Presents(s, p, v) => Up(s, p) /\ (s.pads[p].solo \in {None, v} \/ s.pads[p].solo = s.wins.parent[v])
    BY DEF Presents, Up
  <2>4. s.wins.parent[v] \in {None, Owner[v]}
    BY <1>0, EntriesFacts DEF Roster
  <2> QED BY <2>1, <2>2, <2>3, <2>4
<1>10. ASSUME NEW q \in Defined(s) \ X, q # p PROVE Switched(t, q) /\ Displayed(t, q)
  <2>1. Switched(s, q) /\ Displayed(s, q)
    BY DEF Sound
  <2>2. Members(s, q) \cap M = {}
    BY <1>0, <1>10, EntriesFacts
  <2>3. \A v \in Members(s, q) : v \in t.wins.shown <=> v \in s.wins.shown
    BY <1>1, <1>3, <2>2
  <2> QED BY <1>1, <1>2, <2>1, <2>3 DEF Switched, Displayed, Up
<1>11. Sound(t, L, X \ {p}, W)
  BY <1>0, <1>1, <1>2, <1>5, <1>6, <1>7, <1>8, <1>9, <1>10 DEF Sound
<1> QED BY <1>4, <1>11 DEF t

\* What changes the record of one pad only.
LEMMA PadAltered ==
  ASSUME NEW L, NEW s, NEW X, NEW W, Sound(s, L, X, W), NEW p \in Defined(s), NEW t \in State(L),
         t.wins = s.wins, t.pads[p] # None, \A q \in Names \ {p} : t.pads[q] = s.pads[q],
         t.pads[p].last \in Members(s, p) \cup {None},
         \A q \in Defined(s) \ {p} :
           t.pads[p].visible /\ s.pads[q].visible /\ s.pads[q].output = t.pads[p].output => t.pads[p].output = None
  PROVE  Alike(s, t) /\ Sound(t, L, X \cup {p}, W)
<1>0. s \in State(L) /\ L \in SUBSET Outputs /\ Roster(s) /\ Screen(s, W) /\ Alone(s)
  BY DEF Sound
<1>1. Defined(t) = Defined(s)
  BY DEF Defined
<1>2. Alike(s, t)
  BY <1>1 DEF Alike
<1>3. Entries(t) = Entries(s) /\ \A q : Members(t, q) = Members(s, q)
  BY DEF Entries, Members
<1>4. \A q \in Defined(s) : q # p => t.pads[q] = s.pads[q]
  BY DEF Defined
<1>5. Roster(t)
  BY <1>0, <1>1, <1>3, <1>4 DEF Roster
<1>6. Screen(t, W)
  BY <1>0, <1>3 DEF Screen
<1>7. Alone(t)
  BY <1>0, <1>1, <1>4 DEF Alone
<1>8. \A q \in Defined(t) \ (X \cup {p}) : Switched(t, q) /\ Displayed(t, q)
  <2> SUFFICES ASSUME NEW q \in Defined(s), q \notin X, q # p PROVE Switched(t, q) /\ Displayed(t, q)
    BY <1>1
  <2>1. Switched(s, q) /\ Displayed(s, q)
    BY DEF Sound
  <2> QED BY <1>3, <1>4, <2>1 DEF Switched, Displayed, Up
<1> QED BY <1>0, <1>1, <1>2, <1>5, <1>6, <1>7, <1>8 DEF Sound

\* What changes neither where a pad is nor what it shows.
LEMMA PadTouched ==
  ASSUME NEW L, NEW s, NEW X, NEW W, Sound(s, L, X, W), NEW p \in Defined(s), NEW t \in State(L),
         t.wins = s.wins, t.pads[p] # None, \A q \in Names \ {p} : t.pads[q] = s.pads[q],
         t.pads[p].last \in Members(s, p) \cup {None},
         t.pads[p].output = s.pads[p].output, t.pads[p].visible = s.pads[p].visible, t.pads[p].solo = s.pads[p].solo
  PROVE  Alike(s, t) /\ Sound(t, L, X, W)
<1>0. Alone(s)
  BY DEF Sound
<1>1. Alike(s, t) /\ Sound(t, L, X \cup {p}, W)
  <2>1. \A q \in Defined(s) \ {p} :
          t.pads[p].visible /\ s.pads[q].visible /\ s.pads[q].output = t.pads[p].output => t.pads[p].output = None
    BY <1>0 DEF Alone
  <2> QED BY <2>1, PadAltered
<1>2. p \notin X => Switched(t, p) /\ Displayed(t, p)
  <2>1. Members(t, p) = Members(s, p)
    BY DEF Members, Entries
  <2>2. p \notin X => Switched(s, p) /\ Displayed(s, p)
    BY DEF Sound
  <2> QED BY <2>1, <2>2 DEF Switched, Displayed, Up
<1> QED BY <1>1, <1>2 DEF Sound

\* Nobody else is shown where pad p is, or would be shown.
Free(s, p, o) ==
  \A q \in Defined(s) \ {p} : s.pads[q].visible /\ s.pads[q].output = o => o = None

\* Writing one pad leaves the record of the others.
LEMMA PadUpdate ==
  ASSUME NEW L \in SUBSET Outputs, NEW s \in State(L), NEW p \in Defined(s), NEW r \in PadOn(L),
         NEW t, t = [s EXCEPT !.pads[p] = r]
  PROVE  /\ t \in State(L) /\ t.wins = s.wins /\ t.pads[p] = r /\ r # None
         /\ \A q \in Names \ {p} : t.pads[q] = s.pads[q]
<1>1. r # None /\ p \in Names
  BY PadOnFacts DEF Defined
<1> QED BY <1>1 DEF State

\* What is on screen of a pad, dialogs included, is what it presents.
Exact(s, p) == \A v \in Members(s, p) : Presents(s, p, v) <=> v \in s.wins.shown

\* What setVisible makes of a state.
Displays(s, t, L, X, W, p, visible) ==
  /\ Alike(s, t) /\ Sound(t, L, X \ {p}, W)
  /\ \A q \in Names \ {p} : t.pads[q] = s.pads[q]
  /\ t.pads[p].visible = visible /\ t.pads[p].solo = IF visible THEN s.pads[p].solo ELSE None
  /\ t.pads[p].output = s.pads[p].output /\ t.pads[p].spawn = s.pads[p].spawn
  /\ t.pads[p].home = s.pads[p].home /\ t.pads[p].last = s.pads[p].last
  /\ Exact(t, p)

\* setVisible settles what its pad owes, if nobody else is on the
\* output it is shown on and it has somebody to show.
LEMMA SetVisibleSound ==
  ASSUME NEW L, NEW s, NEW X, NEW W, Sound(s, L, X, W), NEW p \in Defined(s),
         NEW visible \in BOOLEAN, NEW animate \in BOOLEAN,
         visible = FALSE \/ (/\ Members(s, p) # {} /\ s.pads[p].solo \in Members(s, p) \cup {None}
                             /\ Free(s, p, s.pads[p].output))
  PROVE  Displays(s, SetVisible(s, p, visible, animate), L, X, W, p, visible)
<1> DEFINE pad == s.pads[p]
           r == [pad EXCEPT !.visible = visible, !.solo = IF visible THEN pad.solo ELSE None]
           m == [s EXCEPT !.pads[p].visible = visible, !.pads[p].solo = IF visible THEN @ ELSE None]
           fade == IF animate /\ pad.output # None THEN s.wins.shown \cup s.wins.hiding ELSE {}
           t == SetVisible(s, p, visible, animate)
<1>0. s \in State(L) /\ L \in SUBSET Outputs /\ Roster(s) /\ Alone(s)
  BY DEF Sound
<1>1. pad \in PadOn(L) /\ p \in Names /\ pad.solo \in Views \cup {None} /\ pad.output \in L \cup {None}
  BY <1>0, PadFields
<1>2. r \in PadOn(L) /\ r.visible = visible /\ r.output = pad.output /\ r.last = pad.last
      /\ r.spawn = pad.spawn /\ r.home = pad.home
      /\ r.solo = IF visible THEN pad.solo ELSE None
  BY <1>1 DEF PadOn
<1>3. t = Reveal(m, p, fade)
  BY DEF SetVisible
<1>4. /\ m \in State(L) /\ m.wins = s.wins /\ m.pads[p] = r /\ r # None
      /\ \A q \in Names \ {p} : m.pads[q] = s.pads[q]
  <2>1. m.wins = s.wins /\ \A q \in Names \ {p} : m.pads[q] = s.pads[q]
    BY <1>0, <1>1 DEF State
  <2>2. m.pads[p] = r
    BY <1>0, <1>1 DEF State, PadOn
  <2>3. m \in State(L)
    BY <1>0, <1>2, <2>2 DEF State
  <2> QED BY <1>0, <1>2, <2>1, <2>2, <2>3, PadOnFacts
<1> HIDE DEF r
<1>5. fade \in SUBSET Views
  BY <1>0, WinFields
<1> HIDE DEF m, fade, t
<1>6. Alike(s, m) /\ Sound(m, L, X \cup {p}, W)
  <2>1. r.last \in Members(s, p) \cup {None}
    BY <1>0, <1>2 DEF Roster
  <2>2. \A q \in Defined(s) \ {p} : r.visible /\ s.pads[q].visible /\ s.pads[q].output = r.output => r.output = None
    BY <1>2 DEF Free
  <2> QED BY <1>4, <2>1, <2>2, PadAltered
<1>7. Members(m, p) = Members(s, p) /\ Defined(m) = Defined(s)
  BY <1>6, AlikeMembers
<1>8. Switched(m, p)
  BY <1>2, <1>4, <1>7 DEF Switched
<1>9. /\ Sound(t, L, (X \cup {p}) \ {p}, W)
      /\ \A v \in Members(m, p) : Presents(m, p, v) <=> v \in t.wins.shown
  BY <1>3, <1>5, <1>6, <1>7, <1>8, RevealSound
<1>10. (X \cup {p}) \ {p} = X \ {p}
  OBVIOUS
<1>11. t.pads = m.pads /\ Alike(m, t)
  BY <1>0, <1>3, <1>4, <1>5, RevealShape
<1>12. Alike(s, t) /\ t.wins.parent = m.wins.parent /\ Members(t, p) = Members(s, p)
  BY <1>6, <1>11, AlikeTransitive, AlikeMembers
<1>13. Exact(t, p)
  <2>1. \A v : Presents(t, p, v) <=> Presents(m, p, v)
    BY <1>11, <1>12 DEF Presents
  <2> QED BY <1>7, <1>9, <1>12, <2>1 DEF Exact
<1> QED BY <1>2, <1>4, <1>7, <1>9, <1>10, <1>11, <1>12, <1>13 DEF t, Displays

\* setVisible(name, false): whatever was wrong with the pad, it is hidden now.
Hides(s, t, L, X, W, p) ==
  /\ Alike(s, t) /\ Sound(t, L, X \ {p}, W)
  /\ \A q \in Names : q # p => t.pads[q] = s.pads[q]
  /\ p # None => /\ ~t.pads[p].visible /\ t.pads[p].solo = None
                 /\ t.pads[p].output = s.pads[p].output /\ t.pads[p].spawn = s.pads[p].spawn
                 /\ t.pads[p].home = s.pads[p].home /\ t.pads[p].last = s.pads[p].last

\* Hiding needs neither.
LEMMA SetHiddenSound ==
  ASSUME NEW L, NEW s, NEW X, NEW W, Sound(s, L, X, W), NEW p \in Defined(s), NEW animate \in BOOLEAN
  PROVE  Hides(s, SetVisible(s, p, FALSE, animate), L, X, W, p)
<1>1. PICK no \in BOOLEAN : no = FALSE
  OBVIOUS
<1> DEFINE u == SetVisible(s, p, no, animate)
<1>2. no = FALSE \/ (/\ Members(s, p) # {} /\ s.pads[p].solo \in Members(s, p) \cup {None}
                     /\ Free(s, p, s.pads[p].output))
  BY <1>1
<1>3. Displays(s, u, L, X, W, p, no)
  BY <1>2, SetVisibleSound
<1>4. SetVisible(s, p, FALSE, animate) = u
  BY <1>1
<1>5. p # None
  BY NoneFacts DEF Defined
<1> HIDE DEF u
<1>6. Hides(s, u, L, X, W, p)
  BY <1>1, <1>3, <1>5 DEF Displays, Hides
<1> QED BY <1>4, <1>6

\* Hiding the pad that is in the way, if there is one.
LEMMA HideSound ==
  ASSUME NEW L, NEW s, NEW X, NEW W, Sound(s, L, X, W), NEW p \in Defined(s) \cup {None}
  PROVE  Hides(s, Hide(s, p), L, X, W, p)
<1>1. CASE p = None
  <2>1. Hide(s, p) = s /\ None \notin Names
    BY <1>1, NoneFacts DEF Hide
  <2>3. Defined(s) \ (X \ {p}) = Defined(s) \ X
    BY <1>1, NoneFacts DEF Defined
  <2>4. Sound(s, L, X \ {p}, W)
    BY <2>3 DEF Sound
  <2> QED BY <1>1, <2>1, <2>4, AlikeReflexive DEF Hides
<1>2. CASE p # None
  <2>1. PICK yes \in BOOLEAN : yes = TRUE
    OBVIOUS
  <2>2. Hide(s, p) = SetVisible(s, p, FALSE, yes)
    BY <1>2, <2>1 DEF Hide
  <2>3. Hides(s, SetVisible(s, p, FALSE, yes), L, X, W, p)
    BY <1>2, SetHiddenSound
  <2> QED BY <2>2, <2>3
<1> QED BY <1>1, <1>2

\* What is owed by fewer pads is owed by more.
LEMMA SoundMonotone ==
  ASSUME NEW L, NEW s, NEW X, NEW W, Sound(s, L, X, W), NEW Y, Defined(s) \cap X \subseteq Y
  PROVE  Sound(s, L, Y, W)
BY DEF Sound

\* Every other pad keeps its output, its launch and its home, and none appears.
Settled(s, t, p) ==
  \A q \in Defined(s) \ {p} :
    /\ t.pads[q].output = s.pads[q].output /\ t.pads[q].spawn = s.pads[q].spawn /\ t.pads[q].home = s.pads[q].home
    /\ t.pads[q].visible => s.pads[q].visible

\* There is at most one pad in the way, so after it is hidden there is none.
Clears(s, t, L, X, W, p, o) ==
  Alike(s, t) /\ Sound(t, L, X, W) /\ Free(t, p, o) /\ t.pads[p] = s.pads[p] /\ Settled(s, t, p)

\* After the pad in the way was hidden nobody else is visible on that
\* output: hideVisibleOn stops at the first it finds, and there is one at most.
LEMMA RivalHidden ==
  ASSUME NEW L, NEW s, NEW X, NEW W, Sound(s, L, X, W), NEW p \in Defined(s), NEW o \in L
  PROVE  Clears(s, Hide(s, Rival(s, p, o)), L, X, W, p, o)
<1> DEFINE found == VisibleOn(s, o) \ {p}
           r == Rival(s, p, o)
           t == Hide(s, r)
<1>0. s \in State(L) /\ L \in SUBSET Outputs /\ Alone(s) /\ o # None
  BY NoneFacts DEF Sound
<1>1. found \subseteq Names /\ found \subseteq Defined(s)
  BY DEF VisibleOn, Defined
<1>2. \A a, b \in found : a = b
  BY <1>0 DEF VisibleOn, Alone
<1>3. r \in found \cup {None} /\ (found # {} => r \in found)
  <2>1. CASE found = {}
    BY <2>1 DEF Rival
  <2>2. CASE found # {}
    <3>1. PICK a \in found : TRUE
      BY <2>2
    <3>2. found \subseteq Nat
      BY <1>1, NoneFacts
    <3>3. \A b \in found : a <= b
      BY <1>2, <3>1, <3>2
    <3>4. r = CHOOSE q \in found : \A b \in found : q <= b
      BY <2>2 DEF Rival
    <3> HIDE DEF found, r
    <3> QED BY <3>1, <3>3, <3>4
  <2> QED BY <2>1, <2>2
<1>4. r \in (Defined(s) \ {p}) \cup {None}
  BY <1>1, <1>3
<1>5. /\ Alike(s, t) /\ Sound(t, L, X \ {r}, W)
      /\ \A q \in Names : q # r => t.pads[q] = s.pads[q]
      /\ r # None => ~t.pads[r].visible
      /\ Settled(s, t, None)
  <2>1. Hides(s, t, L, X, W, r)
    <3> HIDE DEF r
    <3> QED BY <1>4, HideSound
  <2>2. Defined(s) \subseteq Names
    BY DEF Defined
  <2> HIDE DEF r, t
  <2> QED BY <2>1, <2>2, NoneFacts DEF Hides, Settled
<1>6. t.pads[p] = s.pads[p]
  <2>1. p \in Names /\ p # r
    BY <1>3, NoneFacts DEF Defined
  <2> QED BY <1>5, <2>1
<1>7. Free(t, p, o)
  <2> SUFFICES ASSUME NEW q \in Defined(t) \ {p}, t.pads[q].visible, t.pads[q].output = o PROVE FALSE
    BY DEF Free
  <2>1. q \in Defined(s) /\ q \in Names
    BY <1>5 DEF Alike, Defined
  <2>2. CASE q = r
    BY <1>5, <2>1, <2>2, NoneFacts
  <2>3. CASE q # r
    <3>1. q \in found
      BY <1>5, <2>1, <2>3 DEF VisibleOn
    <3> QED BY <1>2, <1>3, <2>3, <3>1
  <2> QED BY <2>2, <2>3
<1>8. Sound(t, L, X, W)
  <2> HIDE DEF r, t
  <2> QED BY <1>5, SoundMonotone
<1>9. Settled(s, t, p)
  <2> HIDE DEF r, t
  <2> QED BY <1>5, NoneFacts DEF Settled, Defined
<1> HIDE DEF r, t
<1>10. Clears(s, t, L, X, W, p, o)
  BY <1>5, <1>6, <1>7, <1>8, <1>9 DEF Clears
<1> QED BY <1>10 DEF r, t

\* moveScratchpad.  The pad says the same as before, and if it is on screen,
\* or was, everything of it is put right.
Moves(s, t, L, X, W, p, o, clear) ==
  /\ Alike(s, t) /\ Sound(t, L, X, W) /\ Settled(s, t, p)
  /\ t.pads[p].output = o /\ t.pads[p].spawn = s.pads[p].spawn
  /\ t.pads[p].home = IF clear THEN None ELSE s.pads[p].home
  /\ t.pads[p].visible = s.pads[p].visible /\ t.pads[p].solo = s.pads[p].solo
  /\ s.pads[p].visible /\ s.pads[p].output # o => Sound(t, L, X \ {p}, W) /\ Exact(t, p)

\* moveScratchpad makes room for a pad that is visible.
LEMMA RoomMade ==
  ASSUME NEW L, NEW s, NEW X, NEW W, Sound(s, L, X, W), NEW p \in Defined(s), NEW o \in L \cup {None}
  PROVE  LET room == IF s.pads[p].visible /\ o # None THEN Hide(s, Rival(s, p, o)) ELSE s
         IN /\ Alike(s, room) /\ Sound(room, L, X, W) /\ room.pads[p] = s.pads[p] /\ Settled(s, room, p)
            /\ s.pads[p].visible => Free(room, p, o)
<1>1. CASE s.pads[p].visible /\ o # None
  <2>1. Clears(s, Hide(s, Rival(s, p, o)), L, X, W, p, o)
    BY <1>1, RivalHidden
  <2> DEFINE t == Hide(s, Rival(s, p, o))
  <2> HIDE DEF t
  <2>2. Alike(s, t) /\ Sound(t, L, X, W) /\ t.pads[p] = s.pads[p] /\ Settled(s, t, p) /\ Free(t, p, o)
    BY <2>1 DEF Clears, t
  <2> QED BY <1>1, <2>2 DEF t
<1>2. CASE ~(s.pads[p].visible /\ o # None)
  <2>1. s.pads[p].visible => Free(s, p, o)
    BY <1>2 DEF Free
  <2> QED BY <1>2, <2>1, AlikeReflexive DEF Settled
<1> QED BY <1>1, <1>2

\* What two calls leave of the other pads their composition leaves.
LEMMA SettledTransitive ==
  ASSUME NEW s, NEW t, NEW u, NEW p, Settled(s, t, p), Settled(t, u, p), Alike(s, t) PROVE Settled(s, u, p)
BY DEF Settled, Alike

\* A call that writes one pad leaves the others where they are.
LEMMA OthersSettled ==
  ASSUME NEW s, NEW t, NEW p, \A q \in Names \ {p} : t.pads[q] = s.pads[q] PROVE Settled(s, t, p)
BY DEF Settled, Defined

\* moveScratchpad: the pad ends up on the output, alone there if it is
\* visible, and shows there what it showed.
LEMMA MoveSound ==
  ASSUME NEW L, NEW s, NEW X, NEW W, Sound(s, L, X, W), NEW p \in Defined(s), NEW o \in L \cup {None},
         NEW clear, s.pads[p].visible => Switched(s, p)
  PROVE  Moves(s, MoveScratchpad(s, p, o, clear), L, X, W, p, o, clear)
<1> DEFINE pad == s.pads[p]
           home == IF clear THEN None ELSE pad.home
           room == IF s.pads[p].visible /\ o # None THEN Hide(s, Rival(s, p, o)) ELSE s
           t == MoveScratchpad(s, p, o, clear)
<1>0. s \in State(L) /\ L \in SUBSET Outputs /\ Roster(s) /\ Alone(s)
  BY DEF Sound
<1>1. /\ pad \in PadOn(L) /\ p \in Names /\ pad.solo \in Views \cup {None} /\ pad.output \in L \cup {None}
      /\ pad.last \in Members(s, p) \cup {None} /\ home \in Outputs \cup {None}
  BY <1>0, PadFields DEF Roster
<1>2. CASE pad.output = o
  <2> DEFINE r == [pad EXCEPT !.home = home]
             m == [s EXCEPT !.pads[p].home = IF clear THEN None ELSE @]
  <2>1. t = m
    BY <1>2 DEF MoveScratchpad
  <2>2. r \in PadOn(L) /\ r.visible = pad.visible /\ r.output = pad.output /\ r.last = pad.last
        /\ r.solo = pad.solo /\ r.spawn = pad.spawn /\ r.home = home
    BY <1>1 DEF PadOn
  <2>3. m.wins = s.wins /\ \A q \in Names \ {p} : m.pads[q] = s.pads[q]
    BY <1>0, <1>1 DEF State
  <2>4. m.pads[p] = r
    BY <1>0, <1>1 DEF State, PadOn
  <2>5. m \in State(L) /\ r # None
    BY <1>0, <2>2, <2>4, PadOnFacts DEF State
  <2> HIDE DEF r, m
  <2>6. Alike(s, m) /\ Sound(m, L, X, W)
    BY <1>1, <2>2, <2>3, <2>4, <2>5, PadTouched
  <2>7. Settled(s, m, p)
    BY <2>3, OthersSettled
  <2> QED BY <1>2, <2>1, <2>2, <2>4, <2>6, <2>7 DEF Moves
<1>3. CASE pad.output # o
  <2> DEFINE r == [pad EXCEPT !.output = o, !.home = home]
             m == [room EXCEPT !.pads[p].output = o, !.pads[p].home = IF clear THEN None ELSE @]
  <2>1. /\ Alike(s, room) /\ Sound(room, L, X, W) /\ room.pads[p] = pad /\ Settled(s, room, p)
        /\ pad.visible => Free(room, p, o)
    BY RoomMade
  <2>2. t = IF m.pads[p].visible THEN Reveal(m, p, {}) ELSE m
    BY <1>3 DEF MoveScratchpad, Put, Redisplay
  <2> SUFFICES Moves(s, t, L, X, W, p, o, clear)
    OBVIOUS
  <2> HIDE DEF room, t
  <2>3. room \in State(L) /\ Alone(room) /\ Roster(room) /\ p \in Defined(room) /\ Members(room, p) = Members(s, p)
    BY <2>1, AlikeMembers DEF Sound
  <2>4. r \in PadOn(L) /\ r.visible = pad.visible /\ r.output = o /\ r.last = pad.last
        /\ r.solo = pad.solo /\ r.spawn = pad.spawn /\ r.home = home
    BY <1>1 DEF PadOn
  <2>5. m.wins = room.wins /\ \A q \in Names \ {p} : m.pads[q] = room.pads[q]
    BY <2>3, <1>1 DEF State
  <2>6. m.pads[p] = r
    BY <2>1, <2>3, <1>1 DEF State, PadOn
  <2>7. m \in State(L) /\ r # None
    BY <1>0, <2>3, <2>4, <2>6, PadOnFacts DEF State
  <2> HIDE DEF r, m
  <2>8. Alike(room, m) /\ Sound(m, L, X \cup {p}, W)
    <3>1. \A q \in Defined(room) \ {p} : r.visible /\ room.pads[q].visible /\ room.pads[q].output = r.output => r.output = None
      BY <2>1, <2>4 DEF Free
    <3>2. r.last \in Members(room, p) \cup {None}
      BY <1>1, <2>3, <2>4
    <3> QED BY <2>1, <2>3, <2>5, <2>6, <2>7, <3>1, <3>2, PadAltered
  <2>9. Alike(s, m) /\ Settled(s, m, p) /\ Members(m, p) = Members(s, p) /\ p \in Defined(m)
    <3>1. Settled(room, m, p)
      BY <2>5, OthersSettled
    <3> QED BY <2>1, <2>8, <3>1, AlikeTransitive, AlikeMembers, SettledTransitive
  <2>10. CASE pad.visible
    <3>1. Switched(m, p)
      BY <2>4, <2>6, <2>9, <2>10 DEF Switched
    <3>2. t = Reveal(m, p, {}) /\ {} \in SUBSET Views
      BY <2>2, <2>4, <2>6, <2>10
    <3>3. /\ Sound(t, L, (X \cup {p}) \ {p}, W)
          /\ \A v \in Members(m, p) : Presents(m, p, v) <=> v \in t.wins.shown
      BY <2>8, <2>9, <3>1, <3>2, RevealSound
    <3>4. t.pads = m.pads /\ Alike(m, t)
      BY <1>0, <2>7, <3>2, RevealShape
    <3>5. Alike(s, t) /\ Settled(s, t, p) /\ Members(t, p) = Members(m, p) /\ t.wins.parent = m.wins.parent
      <4>1. Settled(m, t, p)
        BY <3>4, OthersSettled
      <4> QED BY <2>9, <3>4, <4>1, AlikeTransitive, AlikeMembers, SettledTransitive
    <3>6. Exact(t, p)
      BY <3>3, <3>4, <3>5 DEF Exact, Presents
    <3>7. Sound(t, L, X \ {p}, W) /\ Sound(t, L, X, W)
      BY <3>3, SoundMonotone
    <3> QED BY <2>4, <2>6, <3>4, <3>5, <3>6, <3>7 DEF Moves
  <2>11. CASE ~pad.visible
    <3>1. t = m
      BY <2>2, <2>4, <2>6, <2>11
    <3>2. p \notin X => Switched(m, p) /\ Displayed(m, p)
      <4>1. p \notin X => Switched(room, p) /\ Displayed(room, p)
        BY <2>1, <2>3 DEF Sound
      <4>2. Members(m, p) = Members(room, p)
        BY <2>3, <2>9
      <4> QED BY <2>1, <2>4, <2>5, <2>6, <2>11, <4>1, <4>2 DEF Switched, Displayed, Up
    <3>3. Sound(m, L, X, W)
      BY <2>8, <3>2 DEF Sound
    <3> QED BY <2>4, <2>6, <2>9, <2>11, <3>1, <3>3 DEF Moves
  <2> QED BY <2>10, <2>11
<1> QED BY <1>2, <1>3

\* Nothing that only hides pads puts one in the way.
LEMMA FreeKept ==
  ASSUME NEW s, NEW t, NEW p, NEW o, Free(s, p, o), Alike(s, t), Settled(s, t, p) PROVE Free(t, p, o)
BY DEF Free, Alike, Settled

\* moveToOutput, which a user's wish calls: the pad is at home there.
MovesTo(s, t, L, X, W, p, o) ==
  /\ Alike(s, t) /\ Sound(t, L, X, W) /\ Settled(s, t, p)
  /\ t.pads[p].output = o /\ t.pads[p].spawn = s.pads[p].spawn
  /\ t.pads[p].home = IF s.pads[p].output = o THEN s.pads[p].home ELSE None
  /\ t.pads[p].visible = s.pads[p].visible /\ t.pads[p].solo = s.pads[p].solo
  /\ s.pads[p].visible /\ s.pads[p].output # o => Sound(t, L, X \ {p}, W) /\ Exact(t, p)

\* The same for the form that does nothing if the pad is there already.
LEMMA MoveToSound ==
  ASSUME NEW L, NEW s, NEW X, NEW W, Sound(s, L, X, W), NEW p \in Defined(s), NEW o \in L \cup {None},
         s.pads[p].visible => Switched(s, p)
  PROVE  MovesTo(s, MoveTo(s, p, o), L, X, W, p, o)
<1>1. CASE s.pads[p].output = o
  <2>1. MoveTo(s, p, o) = s
    BY <1>1 DEF MoveTo
  <2>2. MovesTo(s, s, L, X, W, p, o)
    BY <1>1, AlikeReflexive DEF MovesTo, Settled
  <2> QED BY <2>1, <2>2
<1>2. CASE s.pads[p].output # o
  <2>1. PICK yes \in BOOLEAN : yes = TRUE
    OBVIOUS
  <2> DEFINE t == MoveScratchpad(s, p, o, yes)
  <2>2. MoveTo(s, p, o) = t
    BY <1>2, <2>1 DEF MoveTo
  <2>3. Moves(s, t, L, X, W, p, o, yes)
    BY MoveSound
  <2> HIDE DEF t
  <2>4. MovesTo(s, t, L, X, W, p, o)
    BY <1>2, <2>1, <2>3 DEF Moves, MovesTo
  <2> QED BY <2>2, <2>4
<1> QED BY <1>1, <1>2

-----------------------------------------------------------------------------
(* Summoning a pad.                                                        *)

\* A pad that has been summoned is on screen where it was asked for.
Brings(s, t, L, X, W, p, o) ==
  /\ Alike(s, t) /\ Sound(t, L, X \ {p}, W) /\ Settled(s, t, p)
  /\ t.pads[p].visible /\ t.pads[p].output = o /\ t.pads[p].spawn = s.pads[p].spawn
  /\ t.pads[p].home \in {s.pads[p].home, None}
  /\ s.pads[p].output # o => t.pads[p].home = None

Ready(s, p) == Members(s, p) # {} /\ s.pads[p].solo \in Members(s, p) \cup {None}

Shows(s, t, L, X, W, p) ==
  Brings(s, t, L, X, W, p, s.pads[p].output) /\ Exact(t, p) /\ t.pads[p].solo = s.pads[p].solo

\* Showing a pad where it is, with nobody in the way.
LEMMA ShownSound ==
  ASSUME NEW L, NEW s, NEW X, NEW W, Sound(s, L, X, W), NEW p \in Defined(s), Ready(s, p),
         Free(s, p, s.pads[p].output), NEW yes \in BOOLEAN, yes, NEW animate \in BOOLEAN
  PROVE  Shows(s, SetVisible(s, p, yes, animate), L, X, W, p)
<1> DEFINE t == SetVisible(s, p, yes, animate)
<1>1. Displays(s, t, L, X, W, p, yes)
  BY SetVisibleSound DEF Ready
<1> HIDE DEF t
<1>2. Alike(s, t) /\ Sound(t, L, X \ {p}, W) /\ Exact(t, p) /\ Settled(s, t, p)
  BY <1>1, OthersSettled DEF Displays
<1>3. Brings(s, t, L, X, W, p, s.pads[p].output) /\ t.pads[p].solo = s.pads[p].solo
  BY <1>1, <1>2 DEF Displays, Brings
<1> QED BY <1>2, <1>3 DEF t, Shows

Brought(s, t, L, X, W, p, o, switched) ==
  /\ Brings(s, t, L, X, W, p, o) /\ t.pads[p].solo = s.pads[p].solo
  /\ switched \/ ~(s.pads[p].visible /\ s.pads[p].output = o) => Exact(t, p)

\* summon without the choice of a member: the pad is visible on the
\* output it was asked for on, alone.
LEMMA BringSound ==
  ASSUME NEW L, NEW s, NEW X, NEW W, Sound(s, L, X, W), NEW p \in Defined(s), Ready(s, p), NEW o \in L,
         NEW switched \in BOOLEAN, switched /\ s.pads[p].output = o => s.pads[p].visible,
         p \in X /\ s.pads[p].visible /\ s.pads[p].output = o => switched
  PROVE  Brought(s, Bring(s, p, o, switched), L, X, W, p, o, switched)
<1> SUFFICES LET t == Bring(s, p, o, switched)
             IN /\ Brings(s, t, L, X, W, p, o) /\ t.pads[p].solo = s.pads[p].solo
                /\ switched \/ ~(s.pads[p].visible /\ s.pads[p].output = o) => Exact(t, p)
  BY DEF Brought
<1>0. s \in State(L) /\ Alone(s) /\ o # None
  BY NoneFacts DEF Sound
<1>1. PICK yes \in BOOLEAN : yes = TRUE
  OBVIOUS
<1>2. s.pads[p].visible => Switched(s, p)
  BY DEF Ready, Switched
<1>3. CASE switched /\ s.pads[p].output = o
  <2>1. Free(s, p, s.pads[p].output)
    BY <1>0, <1>3 DEF Free, Alone
  <2>2. Bring(s, p, o, switched) = SetVisible(s, p, yes, yes)
    BY <1>1, <1>3 DEF Bring
  <2>3. Shows(s, SetVisible(s, p, yes, yes), L, X, W, p)
    BY <1>1, <2>1, ShownSound
  <2> QED BY <1>3, <2>2, <2>3 DEF Shows
<1>4. CASE ~switched /\ s.pads[p].visible /\ s.pads[p].output = o
  <2>1. Bring(s, p, o, switched) = s
    BY <1>4 DEF Bring
  <2>2. Sound(s, L, X \ {p}, W)
    <3>1. Defined(s) \cap X \subseteq X \ {p}
      BY <1>4
    <3> QED BY <3>1, SoundMonotone
  <2>3. Brings(s, s, L, X, W, p, o)
    BY <1>4, <2>2, AlikeReflexive DEF Brings, Settled
  <2> QED BY <1>4, <2>1, <2>3
<1>5. CASE ~(switched /\ s.pads[p].output = o) /\ ~(~switched /\ s.pads[p].visible /\ s.pads[p].output = o)
  <2> DEFINE a == Hide(s, Rival(s, p, o))
             b == MoveTo(a, p, o)
             c == Shown(b, p)
  <2>1. Bring(s, p, o, switched) = c
    BY <1>5 DEF Bring
  <2>2. Clears(s, a, L, X, W, p, o)
    BY RivalHidden
  <2> HIDE DEF a
  <2>3. Alike(s, a) /\ Sound(a, L, X, W) /\ Free(a, p, o) /\ a.pads[p] = s.pads[p] /\ Settled(s, a, p)
    BY <2>2 DEF Clears
  <2>4. p \in Defined(a) /\ Members(a, p) = Members(s, p)
    BY <2>3, AlikeMembers
  <2>5. MovesTo(a, b, L, X, W, p, o)
    <3>1. a.pads[p].visible => Switched(a, p)
      BY <1>2, <2>3, <2>4 DEF Switched
    <3> QED BY <2>3, <2>4, <3>1, MoveToSound
  <2> HIDE DEF b
  <2>6. /\ Alike(a, b) /\ Sound(b, L, X, W) /\ Settled(a, b, p)
        /\ b.pads[p].output = o /\ b.pads[p].spawn = s.pads[p].spawn
        /\ b.pads[p].home = IF s.pads[p].output = o THEN s.pads[p].home ELSE None
        /\ b.pads[p].visible = s.pads[p].visible /\ b.pads[p].solo = s.pads[p].solo
        /\ s.pads[p].visible /\ s.pads[p].output # o => Sound(b, L, X \ {p}, W) /\ Exact(b, p)
    BY <2>3, <2>5 DEF MovesTo
  <2>7. Alike(s, b) /\ Settled(s, b, p) /\ p \in Defined(b) /\ Members(b, p) = Members(s, p)
    BY <2>3, <2>4, <2>6, AlikeTransitive, SettledTransitive, AlikeMembers
  <2>8. CASE s.pads[p].visible
    <3>1. c = b
      BY <2>6, <2>8 DEF Shown
    <3>2. s.pads[p].output # o
      BY <1>5, <2>8
    <3>3. Brings(s, b, L, X, W, p, o)
      BY <2>6, <2>7, <2>8, <3>2 DEF Brings
    <3> HIDE DEF c
    <3> QED BY <2>1, <2>6, <2>8, <3>1, <3>2, <3>3
  <2>9. CASE ~s.pads[p].visible
    <3>1. c = SetVisible(b, p, yes, yes)
      BY <1>1, <2>6, <2>9 DEF Shown
    <3>2. Ready(b, p) /\ Free(b, p, b.pads[p].output)
      BY <2>3, <2>6, <2>7, FreeKept DEF Ready
    <3>3. Shows(b, SetVisible(b, p, yes, yes), L, X, W, p)
      BY <1>1, <2>6, <2>7, <3>2, ShownSound
    <3> HIDE DEF c
    <3>3a. Brings(b, c, L, X, W, p, b.pads[p].output) /\ Exact(c, p) /\ c.pads[p].solo = b.pads[p].solo
      BY <3>1, <3>3 DEF Shows
    <3>4. Alike(b, c) /\ Settled(b, c, p) /\ Sound(c, L, X \ {p}, W)
      BY <3>3a DEF Brings
    <3>5. Alike(s, c) /\ Settled(s, c, p)
      BY <2>7, <3>4, AlikeTransitive, SettledTransitive
    <3>6. Brings(s, c, L, X, W, p, o)
      BY <2>6, <3>3a, <3>4, <3>5 DEF Brings
    <3> QED BY <2>1, <2>6, <3>3a, <3>6
  <2> QED BY <2>8, <2>9
<1> QED BY <1>3, <1>4, <1>5

\* Who stands for a dialog that rides with its parent is a member too.
LEMMA RideFacts ==
  ASSUME NEW s, NEW p, NEW v \in Members(s, p)
  PROVE  /\ MemberFor(s, v, p) \in Members(s, p)
         /\ Ride(s, v, p) => s.wins.parent[v] \in Members(s, p) /\ s.wins.parent[v] # None
BY DEF MemberFor, Ride

Turned(s, u, L, X, W, p, m) ==
  /\ Alike(s, u) /\ Sound(u, L, X \cup {p}, W) /\ Settled(s, u, p) /\ u.wins = s.wins
  /\ u.pads[p].solo = m /\ u.pads[p].output = s.pads[p].output /\ u.pads[p].visible = s.pads[p].visible
  /\ u.pads[p].spawn = s.pads[p].spawn /\ u.pads[p].home = s.pads[p].home

WithSolo(s, p, m) == [s EXCEPT !.pads[p].solo = m]

\* Choosing the one window a pad shows leaves its display behind.
LEMMA SoloChanged ==
  ASSUME NEW L, NEW s, NEW X, NEW W, Sound(s, L, X, W), NEW p \in Defined(s), NEW m \in Members(s, p)
  PROVE  Turned(s, WithSolo(s, p, m), L, X, W, p, m)
<1> DEFINE pad == s.pads[p]
           r == [pad EXCEPT !.solo = m]
           u == WithSolo(s, p, m)
<1>0. s \in State(L) /\ L \in SUBSET Outputs /\ Roster(s) /\ Alone(s)
  BY DEF Sound
<1>1. pad \in PadOn(L) /\ p \in Names /\ pad.last \in Members(s, p) \cup {None} /\ m \in Views
  BY <1>0, PadFields, EntriesFacts DEF Roster
<1>2. r \in PadOn(L) /\ r.visible = pad.visible /\ r.output = pad.output /\ r.last = pad.last
      /\ r.solo = m /\ r.spawn = pad.spawn /\ r.home = pad.home
  BY <1>1 DEF PadOn
<1>3. u.wins = s.wins /\ \A q \in Names \ {p} : u.pads[q] = s.pads[q]
  BY <1>0, <1>1 DEF State, WithSolo
<1>4. u.pads[p] = r
  BY <1>0, <1>1 DEF State, PadOn, WithSolo
<1>5. u \in State(L) /\ r # None
  BY <1>0, <1>2, <1>4, PadOnFacts DEF State, WithSolo
<1> HIDE DEF r, u
<1>6. /\ \A q \in Defined(s) \ {p} :
           u.pads[p].visible /\ s.pads[q].visible /\ s.pads[q].output = u.pads[p].output => u.pads[p].output = None
      /\ u.pads[p].last \in Members(s, p) \cup {None} /\ u.pads[p] # None
  BY <1>0, <1>1, <1>2, <1>4, <1>5 DEF Alone
<1>7. Alike(s, u) /\ Sound(u, L, X \cup {p}, W)
  BY <1>3, <1>5, <1>6, PadAltered
<1>8. Settled(s, u, p)
  BY <1>3, OthersSettled
<1> QED BY <1>2, <1>3, <1>4, <1>7, <1>8 DEF Turned, u

Summons(s, t, L, X, W, p, o) ==
  Brings(s, t, L, X, W, p, o) /\ (~(s.pads[p].visible /\ s.pads[p].output = o) => Exact(t, p))

\* Whether it switches or comes, a pad that is summoned shows a member.
LEMMA SummonSound ==
  ASSUME NEW L, NEW s, NEW X, NEW W, Sound(s, L, X, W), NEW p \in Defined(s), Ready(s, p), NEW o \in L,
         NEW member \in Members(s, p) \cup {None}, member # None => Switched(s, p),
         p \in X => ~(s.pads[p].visible /\ s.pads[p].output = o)
  PROVE  /\ Summons(s, Summon(s, p, o, member), L, X, W, p, o)
         /\ member = None => Summon(s, p, o, member).pads[p].solo = s.pads[p].solo
<1> DEFINE m == IF member = None THEN None ELSE MemberFor(s, member, p)
           switches == m # None /\ s.pads[p].solo \notin {None, m}
           u == WithSolo(s, p, m)
           t == Summon(s, p, o, member)
<1>0. m \in Members(s, p) \cup {None}
  BY RideFacts
<1>1. PICK yes \in BOOLEAN : yes = TRUE
  OBVIOUS
<1>2. PICK no \in BOOLEAN : no = FALSE
  OBVIOUS
<1>3. CASE switches
  <2>1. Summon(s, p, o, member) = Bring(u, p, o, yes)
    BY <1>1, <1>3 DEF Summon, WithSolo
  <2>2. m \in Members(s, p) /\ member # None /\ s.pads[p].visible
    BY <1>0, <1>3 DEF Switched
  <2>3. /\ Alike(s, u) /\ Sound(u, L, X \cup {p}, W) /\ Settled(s, u, p)
        /\ u.pads[p].solo = m /\ u.pads[p].output = s.pads[p].output /\ u.pads[p].visible = s.pads[p].visible
        /\ u.pads[p].spawn = s.pads[p].spawn /\ u.pads[p].home = s.pads[p].home
    <3> HIDE DEF m
    <3>1. Turned(s, u, L, X, W, p, m)
      BY <2>2, SoloChanged
    <3> QED BY <3>1 DEF Turned
  <2> HIDE DEF u, m
  <2>4. p \in Defined(u) /\ Ready(u, p)
    BY <2>2, <2>3, AlikeMembers DEF Ready
  <2>5. Brought(u, Bring(u, p, o, yes), L, X \cup {p}, W, p, o, yes)
    BY <1>1, <2>2, <2>3, <2>4, BringSound
  <2> HIDE DEF t
  <2>6. Brought(u, t, L, X \cup {p}, W, p, o, yes)
    BY <2>1, <2>5 DEF t
  <2>7. Brings(u, t, L, X \cup {p}, W, p, o) /\ Exact(t, p)
    BY <1>1, <2>6 DEF Brought
  <2>8. (X \cup {p}) \ {p} = X \ {p}
    OBVIOUS
  <2>9. Alike(u, t) /\ Sound(t, L, X \ {p}, W) /\ Settled(u, t, p)
    BY <2>7, <2>8 DEF Brings
  <2>10. Alike(s, t) /\ Settled(s, t, p)
    BY <2>3, <2>9, AlikeTransitive, SettledTransitive
  <2>11. Brings(s, t, L, X, W, p, o)
    BY <2>3, <2>7, <2>9, <2>10 DEF Brings
  <2> QED BY <2>2, <2>7, <2>11 DEF Summons, t
<1>4. CASE ~switches
  <2>1. Summon(s, p, o, member) = Bring(s, p, o, no)
    BY <1>2, <1>4 DEF Summon
  <2>2. Brought(s, Bring(s, p, o, no), L, X, W, p, o, no)
    BY <1>2, BringSound
  <2>3. Brought(s, t, L, X, W, p, o, no)
    BY <2>1, <2>2
  <2> HIDE DEF t
  <2> QED BY <2>3 DEF Brought, Summons, t
<1> QED BY <1>3, <1>4

-----------------------------------------------------------------------------
(* The keyboard.                                                           *)

\* What a change of the focus leaves alone.
Stays(s, t) ==
  /\ t.wins.mapped = s.wins.mapped /\ t.wins.parent = s.wins.parent /\ t.wins.entries = s.wins.entries
  /\ t.wins.pad = s.wins.pad /\ t.wins.shown = s.wins.shown /\ t.wins.hiding = s.wins.hiding
  /\ Defined(t) = Defined(s)
  /\ \A q \in Defined(s) :
       /\ t.pads[q].output = s.pads[q].output /\ t.pads[q].home = s.pads[q].home
       /\ t.pads[q].spawn = s.pads[q].spawn /\ t.pads[q].visible = s.pads[q].visible
       /\ t.pads[q].solo = s.pads[q].solo

\* The keyboard may stay where it is.
LEMMA StaysReflexive == ASSUME NEW s PROVE Stays(s, s)
BY DEF Stays

\* Moving the keyboard moves no window into or out of a pad.
LEMMA StaysMembers ==
  ASSUME NEW s, NEW t, Stays(s, t)
  PROVE  Entries(t) = Entries(s) /\ Defined(t) = Defined(s) /\ \A p : Members(t, p) = Members(s, p)
BY DEF Stays, Entries, Members

\* Where the noted window and the remembered windows are right, a change of
\* the focus is all there is.
LEMMA StaysSound ==
  ASSUME NEW L, NEW s, NEW X, NEW W, Sound(s, L, X, W), NEW t \in State(L), Stays(s, t),
         t.wins.noted \in Entries(s) \cup {None},
         \A p \in Defined(s) : t.pads[p].last \in Members(s, p) \cup {None}
  PROVE  Sound(t, L, X, W)
<1>0. L \in SUBSET Outputs /\ Roster(s) /\ Screen(s, W) /\ Alone(s)
  BY DEF Sound
<1>1. Entries(t) = Entries(s) /\ Defined(t) = Defined(s) /\ \A p : Members(t, p) = Members(s, p)
  BY StaysMembers
<1>2. Roster(t)
  BY <1>0, <1>1 DEF Roster, Stays
<1>3. Screen(t, W)
  BY <1>0, <1>1 DEF Screen, Stays
<1>4. Alone(t)
  BY <1>0, <1>1 DEF Alone, Stays
<1>5. ASSUME NEW p \in Defined(s) \ X PROVE Switched(t, p) /\ Displayed(t, p)
  <2>1. Switched(s, p) /\ Displayed(s, p)
    BY DEF Sound
  <2> QED BY <1>1, <2>1 DEF Switched, Displayed, Up, Stays
<1> QED BY <1>0, <1>1, <1>2, <1>3, <1>4, <1>5 DEF Sound

Focuses(s, t, L, X, W, v) ==
  /\ Stays(s, t) /\ Sound(t, L, X, W)
  /\ t.wins.focus = IF v \in s.wins.shown THEN v ELSE s.wins.focus

\* focusView
LEMMA FocusViewSound ==
  ASSUME NEW L, NEW s, NEW X, NEW W, Sound(s, L, X, W), NEW v
  PROVE  Focuses(s, FocusView(s, v), L, X, W, v)
<1> DEFINE t == FocusView(s, v)
           p == s.wins.pad[v]
<1>0. s \in State(L) /\ L \in SUBSET Outputs /\ Roster(s)
  BY DEF Sound
<1>1. CASE v \notin s.wins.shown
  <2>1. t = s
    BY <1>1 DEF FocusView
  <2> QED BY <1>1, <2>1, StaysReflexive DEF Focuses
<1>2. CASE v \in s.wins.shown
  <2> DEFINE w == [s.wins EXCEPT !.focus = v, !.noted = IF p = None THEN None ELSE v]
             f == [q \in Names |-> IF q = p THEN [s.pads[q] EXCEPT !.last = v] ELSE s.pads[q]]
  <2>1. /\ s.wins \in Windows /\ v \in Views /\ p \in Names \cup {None}
        /\ s.pads \in [Names -> PadOn(L) \cup {None}]
    BY <1>0, <1>2, WinFields DEF State
  <2>2. p # None => v \in Entries(s) /\ v \in Members(s, p) /\ p \in Defined(s)
    BY <1>0, <2>1 DEF Roster, Members
  <2>3. t = [s EXCEPT !.wins.focus = v, !.wins.noted = IF p = None THEN None ELSE v, !.pads = f]
    BY <1>2 DEF FocusView
  <2> HIDE DEF t
  <2>4. t.wins = w /\ t.pads = f
    BY <1>0, <2>3 DEF State
  <2>5. w \in Windows /\ w.focus = v /\ w.noted \in Entries(s) \cup {None}
        /\ w.mapped = s.wins.mapped /\ w.parent = s.wins.parent /\ w.entries = s.wins.entries
        /\ w.pad = s.wins.pad /\ w.shown = s.wins.shown /\ w.hiding = s.wins.hiding
    BY <2>1, <2>2 DEF Windows
  <2>6. \A q \in Names : q # p => f[q] = s.pads[q]
    OBVIOUS
  <2>7. p # None =>
          /\ f[p] \in PadOn(L) /\ f[p] # None /\ f[p].last = v
          /\ f[p].output = s.pads[p].output /\ f[p].home = s.pads[p].home /\ f[p].spawn = s.pads[p].spawn
          /\ f[p].visible = s.pads[p].visible /\ f[p].solo = s.pads[p].solo
    <3> SUFFICES ASSUME p # None
                 PROVE  /\ f[p] \in PadOn(L) /\ f[p] # None /\ f[p].last = v
                        /\ f[p].output = s.pads[p].output /\ f[p].home = s.pads[p].home /\ f[p].spawn = s.pads[p].spawn
                        /\ f[p].visible = s.pads[p].visible /\ f[p].solo = s.pads[p].solo
      OBVIOUS
    <3>1. s.pads[p] \in PadOn(L) /\ p \in Names
      BY <1>0, <2>2, PadFields
    <3>2. f[p] = [s.pads[p] EXCEPT !.last = v]
      BY <3>1
    <3> HIDE DEF f, p
    <3>3. f[p] \in PadOn(L)
      BY <2>1, <3>1, <3>2 DEF PadOn
    <3> QED BY <1>0, <3>1, <3>2, <3>3, PadOnFacts DEF PadOn
  <2>8. f \in [Names -> PadOn(L) \cup {None}]
    <3>1. \A q \in Names : f[q] \in PadOn(L) \cup {None}
      <4> HIDE DEF p, f
      <4> QED BY <2>1, <2>2, <2>6, <2>7, NoneFacts
    <3> QED BY <3>1
  <2> HIDE DEF w, f
  <2>9. t \in State(L)
    BY <1>0, <2>3, <2>4, <2>5, <2>8 DEF State
  <2>10. Defined(t) = Defined(s)
    BY <2>2, <2>4, <2>6, <2>7, NoneFacts DEF Defined
  <2>11. Defined(s) \subseteq Names
    BY DEF Defined
  <2> HIDE DEF p
  <2>12. Stays(s, t)
    BY <2>4, <2>5, <2>6, <2>7, <2>10, <2>11, NoneFacts DEF Stays
  <2>13. \A q \in Defined(s) : t.pads[q].last \in Members(s, q) \cup {None}
    BY <1>0, <2>2, <2>4, <2>6, <2>7, <2>11, NoneFacts DEF Roster
  <2>14. Sound(t, L, X, W)
    BY <2>4, <2>5, <2>9, <2>12, <2>13, StaysSound
  <2> QED BY <1>2, <2>4, <2>5, <2>12, <2>14 DEF Focuses, t
<1> QED BY <1>1, <1>2

\* Whoever has the keyboard afterwards is on screen.
Rests(s, t, L, X) == Stays(s, t) /\ Sound(t, L, X, {}) /\ t.wins.focus \in t.wins.shown \cup {None}

\* refocusFallback leaves the keyboard on a window that is on screen, or
\* on nothing.
LEMMA FallbackRests ==
  ASSUME NEW L, NEW s, NEW X, Sound(s, L, X, {}), NEW t \in Fallback(s) PROVE Rests(s, t, L, X)
<1>0. s \in State(L) /\ L \in SUBSET Outputs /\ Roster(s) /\ Screen(s, {})
  BY DEF Sound
<1>1. CASE t \in {FocusView(s, w) : w \in s.wins.mapped \ Entries(s)}
  <2>1. PICK w \in s.wins.mapped \ Entries(s) : t = FocusView(s, w)
    BY <1>1
  <2>2. w \in s.wins.shown
    BY <1>0, <2>1 DEF Screen
  <2>3. Focuses(s, t, L, X, {}, w)
    BY <2>1, FocusViewSound
  <2> QED BY <2>2, <2>3 DEF Focuses, Rests, Stays
<1>2. CASE t = [s EXCEPT !.wins.focus = None]
  <2>1. t \in State(L) /\ t.pads = s.pads
    BY <1>0, <1>2 DEF State, Windows
  <2>2. /\ t.wins.mapped = s.wins.mapped /\ t.wins.parent = s.wins.parent /\ t.wins.entries = s.wins.entries
        /\ t.wins.pad = s.wins.pad /\ t.wins.shown = s.wins.shown /\ t.wins.hiding = s.wins.hiding
        /\ t.wins.noted = s.wins.noted /\ t.wins.focus = None
    BY <1>0, <1>2 DEF State, Windows
  <2>3. Stays(s, t)
    BY <2>1, <2>2 DEF Stays, Defined
  <2>4. Sound(t, L, X, {})
    BY <1>0, <2>1, <2>2, <2>3, StaysSound DEF Roster
  <2> QED BY <2>2, <2>3, <2>4 DEF Rests
<1> QED BY <1>1, <1>2 DEF Fallback

\* So does keeping it where it is, on a window that is on screen.
LEMMA KeepRests ==
  ASSUME NEW L, NEW s, NEW X, Sound(s, L, X, {}), s.wins.focus \in s.wins.shown \cup {None} PROVE Rests(s, s, L, X)
BY StaysReflexive DEF Rests

\* refocus(Output*) leaves the keyboard on a window that is on screen.
LEMMA RefocusOnRests ==
  ASSUME NEW L, NEW s, NEW X, Sound(s, L, X, {}), NEW o, NEW t \in RefocusOn(s, o) PROVE Rests(s, t, L, X)
<1>1. CASE t \in Fallback(s)
  BY <1>1, FallbackRests
<1>2. CASE t = s /\ s.wins.focus \in s.wins.shown
  BY <1>2, KeepRests
<1> QED BY <1>1, <1>2 DEF RefocusOn

\* refocus() does, too.
LEMMA RefocusRests ==
  ASSUME NEW L, NEW s, NEW X, Sound(s, L, X, {}), NEW lit, NEW t \in Refocus(s, lit) PROVE Rests(s, t, L, X)
<1>1. CASE t \in Fallback(s)
  BY <1>1, FallbackRests
<1>2. CASE t = s /\ s.wins.focus \in s.wins.shown
  BY <1>2, KeepRests
<1>3. CASE t = FocusView(s, s.wins.noted) /\ s.wins.noted \in s.wins.shown
  <2>1. Focuses(s, t, L, X, {}, s.wins.noted)
    BY <1>3, FocusViewSound
  <2> QED BY <1>3, <2>1 DEF Focuses, Rests, Stays
<1> QED BY <1>1, <1>2, <1>3 DEF Refocus, Holds

-----------------------------------------------------------------------------
(* Entering and leaving a pad.                                             *)

\* What somebody's wish may do to the outputs of the pads: one that moves, or
\* that stays where it found refuge, is at home from then on.
Homed(s, t) ==
  \A q \in Defined(s) \cap Defined(t) :
    \/ t.pads[q].output = s.pads[q].output /\ t.pads[q].home = s.pads[q].home
    \/ t.pads[q].output # None /\ t.pads[q].home = None

\* A pad that two calls moved by somebody's wish was moved by one.
LEMMA HomedTransitive ==
  ASSUME NEW s, NEW t, NEW u, Homed(s, t), Homed(t, u), Defined(t) = Defined(s) PROVE Homed(s, u)
BY DEF Homed

\* A pad nobody touched is where it was.
LEMMA HomedReflexive == ASSUME NEW s PROVE Homed(s, s)
BY DEF Homed

\* A call about one pad moves no other.
LEMMA SettledHomed ==
  ASSUME NEW s, NEW t, NEW p, Settled(s, t, p),
         \/ t.pads[p].output = s.pads[p].output /\ t.pads[p].home = s.pads[p].home
         \/ t.pads[p].output # None /\ t.pads[p].home = None
  PROVE  Homed(s, t)
BY DEF Homed, Settled

\* The keyboard moves no pad.
LEMMA StaysHomed == ASSUME NEW s, NEW t, Stays(s, t) PROVE Homed(s, t)
BY DEF Stays, Homed

\* forgetLastFocused
Forgets(s, t, L, X, W, p, v) ==
  Alike(s, t) /\ Stays(s, t) /\ Sound(t, L, X, W) /\ t.wins = s.wins /\ t.pads[p].last # v

\* forgetLastFocused: the pad points at somebody else, a member.
LEMMA ForgetLastSound ==
  ASSUME NEW L, NEW s, NEW X, NEW W, Sound(s, L, X, W), NEW p \in Defined(s), NEW v \in Views
  PROVE  Forgets(s, ForgetLast(s, p, v), L, X, W, p, v)
<1> DEFINE t == ForgetLast(s, p, v)
           pad == s.pads[p]
           last == IF Ride(s, v, p) THEN s.wins.parent[v] ELSE None
           r == [pad EXCEPT !.last = last]
<1>0. s \in State(L) /\ L \in SUBSET Outputs /\ Roster(s)
  BY DEF Sound
<1>1. CASE pad.last # v
  <2>1. t = s
    BY <1>1 DEF ForgetLast
  <2> QED BY <1>1, <2>1, AlikeReflexive, StaysReflexive DEF Forgets
<1>2. CASE pad.last = v
  <2>1. pad \in PadOn(L) /\ p \in Names
    BY <1>0, PadFields
  <2>2. last \in Members(s, p) \cup {None} /\ last # v
    <3>1. s.wins.parent[v] \in {None, Owner[v]} /\ Owner[v] # v /\ v # None
      BY <1>0, NoneFacts DEF Roster
    <3> QED BY <3>1 DEF Ride
  <2>3. last \in Views \cup {None}
    BY <1>0, <2>2, EntriesFacts
  <2>4. t = [s EXCEPT !.pads[p].last = last]
    BY <1>2 DEF ForgetLast
  <2> HIDE DEF last
  <2>5. r \in PadOn(L) /\ r.visible = pad.visible /\ r.output = pad.output /\ r.last = last
        /\ r.solo = pad.solo /\ r.spawn = pad.spawn /\ r.home = pad.home
    BY <2>1, <2>3 DEF PadOn
  <2>6. t.wins = s.wins /\ \A q \in Names \ {p} : t.pads[q] = s.pads[q]
    BY <1>0, <2>1, <2>4 DEF State
  <2>7. t.pads[p] = r
    BY <1>0, <2>1, <2>4 DEF State, PadOn
  <2>8. t \in State(L) /\ r # None
    BY <1>0, <2>4, <2>5, <2>7, PadOnFacts DEF State
  <2> HIDE DEF t, r
  <2>9. Alike(s, t) /\ Sound(t, L, X, W)
    BY <2>2, <2>5, <2>6, <2>7, <2>8, PadTouched
  <2>10. Defined(s) \subseteq Names
    BY DEF Defined
  <2>11. Stays(s, t)
    BY <2>5, <2>6, <2>7, <2>9, <2>10, AlikeMembers DEF Stays
  <2> QED BY <2>2, <2>5, <2>6, <2>7, <2>9, <2>11 DEF Forgets, t
<1> QED BY <1>1, <1>2

\* A window that comes from another pad is in the new one now; what the two
\* pads show is put right later.
Transfers(s, u, L, v, p) ==
  LET from == s.wins.pad[v]
  IN /\ Sound(u, L, {p, from}, {})
     /\ s.pads[from].solo # v /\ Members(u, from) # {} => Sound(u, L, {p}, {})
     /\ Defined(u) = Defined(s) /\ Entries(u) = Entries(s)
     /\ Members(u, p) = Members(s, p) \cup {v} /\ Members(u, from) = Members(s, from) \ {v}
     /\ \A q : q \notin {p, from} => Members(u, q) = Members(s, q)
     /\ u.wins.mapped = s.wins.mapped /\ u.wins.parent = s.wins.parent /\ u.wins.focus = s.wins.focus
     /\ \A q \in Defined(s) : u.pads[q].output = s.pads[q].output /\ u.pads[q].home = s.pads[q].home
     /\ Switched(u, p)

\* admit of a window that is in another pad: it changes pads, and only
\* the two pads owe their display.
LEMMA TransferredSound ==
  ASSUME NEW L, NEW s, Sound(s, L, {}, {}), NEW v \in Entries(s), NEW p \in Defined(s), s.wins.pad[v] # p
  PROVE  Transfers(s, Transferred(s, v, p), L, v, p)
<1> DEFINE from == s.wins.pad[v]
           t == ForgetLast(s, from, v)
           u == Transferred(s, v, p)
           w == [s.wins EXCEPT !.pad[v] = p]
           solo == IF s.pads[from].solo = v THEN None ELSE s.pads[from].solo
           r == [t.pads[from] EXCEPT !.solo = solo]
<1>0. s \in State(L) /\ L \in SUBSET Outputs /\ Roster(s) /\ Screen(s, {}) /\ Alone(s)
  BY DEF Sound
<1>1. v \in Views /\ from \in Defined(s) /\ from \in Names /\ p \in Names /\ from # p
  BY <1>0, EntriesFacts DEF Roster, Defined
<1>2. Forgets(s, t, L, {}, {}, from, v)
  BY <1>1, ForgetLastSound
<1> HIDE DEF t
<1>3. /\ Stays(s, t) /\ Sound(t, L, {}, {}) /\ t.wins = s.wins /\ t.pads[from].last # v
      /\ t \in State(L) /\ Roster(t) /\ Defined(t) = Defined(s)
  BY <1>2 DEF Forgets, Stays, Sound
<1>4. /\ t.pads[from] \in PadOn(L) /\ t.pads[from].solo = s.pads[from].solo
      /\ solo \in Views \cup {None} /\ t.pads[from].last \in Members(t, from) \cup {None}
  BY SMTT(30), <1>0, <1>1, <1>3, PadFields DEF Stays, Roster
<1>5. u = [t EXCEPT !.wins.pad[v] = p, !.pads[from].solo = IF @ = v THEN None ELSE @]
  BY DEF Transferred, t
<1>6. r \in PadOn(L) /\ r.visible = t.pads[from].visible /\ r.output = t.pads[from].output
      /\ r.last = t.pads[from].last /\ r.solo = solo /\ r.home = t.pads[from].home /\ r.spawn = t.pads[from].spawn
  BY <1>4 DEF PadOn
<1>7. w \in Windows /\ w.mapped = s.wins.mapped /\ w.parent = s.wins.parent /\ w.entries = s.wins.entries
      /\ w.shown = s.wins.shown /\ w.hiding = s.wins.hiding /\ w.focus = s.wins.focus /\ w.noted = s.wins.noted
      /\ \A x \in Views : w.pad[x] = IF x = v THEN p ELSE s.wins.pad[x]
  BY SMTT(30), <1>0, <1>1, WinFields DEF Windows
<1> HIDE DEF u
<1>8. u.wins = w /\ \A q \in Names \ {from} : u.pads[q] = t.pads[q]
  BY SMTT(30), <1>0, <1>1, <1>3, <1>5 DEF State, Windows
<1>9. u.pads[from] = r
  BY Zenon, <1>1, <1>3, <1>4, <1>5 DEF State, PadOn
<1> HIDE DEF w, r, solo
<1>10. u \in State(L) /\ r # None
  <2>1. t.pads \in [Names -> PadOn(L) \cup {None}]
    BY SMTT(30), <1>3 DEF State
  <2>2. u.pads = [t.pads EXCEPT ![from] = r]
    BY Zenon, <1>3, <1>4, <1>5 DEF State, r, solo
  <2>3. u.pads \in [Names -> PadOn(L) \cup {None}]
    BY SMTT(30), <1>1, <1>6, <2>1, <2>2
  <2>4. u = [pads |-> u.pads, wins |-> u.wins]
    BY <1>3, <1>5 DEF State
  <2>5. r # None
    BY <1>0, <1>6, PadOnFacts
  <2> QED BY <1>7, <1>8, <2>3, <2>4, <2>5 DEF State
<1>11. Defined(u) = Defined(s) /\ Defined(s) \subseteq Names
  BY <1>1, <1>3, <1>8, <1>9, <1>10 DEF Defined
<1>12. Entries(u) = Entries(s) /\ Entries(s) \subseteq Views
  BY <1>0, <1>7, <1>8, EntriesFacts DEF Entries
<1>13. /\ Members(u, p) = Members(s, p) \cup {v} /\ Members(u, from) = Members(s, from) \ {v}
       /\ \A q : q \notin {p, from} => Members(u, q) = Members(s, q)
  <2>1. \A q : Members(u, q) = {x \in Entries(s) : (IF x = v THEN p ELSE s.wins.pad[x]) = q}
    BY <1>7, <1>8, <1>12 DEF Members
  <2>2. Members(u, p) = Members(s, p) \cup {v}
    BY <2>1, <1>1 DEF Members
  <2>3. Members(u, from) = Members(s, from) \ {v}
    BY <2>1, <1>1 DEF Members
  <2>4. ASSUME NEW q, q \notin {p, from} PROVE Members(u, q) = Members(s, q)
    BY <2>1, <2>4, <1>1 DEF Members
  <2> QED BY <2>2, <2>3, <2>4
<1>14. \A q \in Defined(s) :
         /\ u.pads[q].output = s.pads[q].output /\ u.pads[q].home = s.pads[q].home
         /\ u.pads[q].visible = s.pads[q].visible /\ (q # from => u.pads[q].solo = s.pads[q].solo)
  BY <1>3, <1>6, <1>8, <1>9, <1>11 DEF Stays
<1>15. \A q \in Defined(s) : u.pads[q].last \in Members(u, q) \cup {None}
  <2>1. \A q : Members(t, q) = Members(s, q)
    BY <1>3, StaysMembers
  <2>2. \A q \in Defined(s) : u.pads[q].last = t.pads[q].last
    BY <1>6, <1>8, <1>9, <1>11
  <2>3. \A q \in Defined(s) : t.pads[q].last \in Members(s, q) \cup {None}
    BY <1>3, <2>1 DEF Roster
  <2> QED BY <1>3, <1>13, <2>2, <2>3
<1>16. Roster(u)
  <2>1. IsInjective(u.wins.entries) /\ Entries(u) \subseteq u.wins.mapped /\ u.wins.noted \in Entries(u) \cup {None}
        /\ \A x \in Views : u.wins.parent[x] \in {None, Owner[x]} \cap (u.wins.mapped \cup {None})
    BY <1>0, <1>7, <1>8, <1>12 DEF Roster
  <2>2. \A x \in Views : u.wins.pad[x] # None <=> x \in Entries(u)
    BY <1>0, <1>1, <1>7, <1>8, <1>12, NoneFacts DEF Roster
  <2>3. \A x \in Entries(u) : u.wins.pad[x] \in Defined(u)
    BY <1>0, <1>1, <1>7, <1>8, <1>11, <1>12 DEF Roster
  <2> QED BY <1>11, <1>15, <2>1, <2>2, <2>3 DEF Roster
<1>17. Screen(u, {})
  BY <1>0, <1>7, <1>8, <1>12 DEF Screen
<1>18. Alone(u)
  BY <1>0, <1>11, <1>14 DEF Alone
<1>19. \A q \in Defined(s) : q \notin {p, from} => Switched(u, q) /\ Displayed(u, q)
  <2> SUFFICES ASSUME NEW q \in Defined(s), q \notin {p, from} PROVE Switched(u, q) /\ Displayed(u, q)
    OBVIOUS
  <2>1. Switched(s, q) /\ Displayed(s, q)
    BY DEF Sound
  <2> QED BY <1>7, <1>8, <1>13, <1>14, <2>1 DEF Switched, Displayed, Up
<1>20. Switched(u, p)
  <2>1. Switched(s, p)
    BY SMTT(30) DEF Sound
  <2> QED BY <1>1, <1>13, <1>14, <2>1 DEF Switched
<1>21. s.pads[from].solo # v /\ Members(u, from) # {} => Switched(u, from) /\ Displayed(u, from)
  <2> SUFFICES ASSUME s.pads[from].solo # v, Members(u, from) # {} PROVE Switched(u, from) /\ Displayed(u, from)
    OBVIOUS
  <2>1. Switched(s, from) /\ Displayed(s, from)
    BY <1>1 DEF Sound
  <2>2. u.pads[from].solo = s.pads[from].solo
    BY <1>6, <1>9 DEF solo
  <2> QED BY Zenon, <1>1, <1>7, <1>8, <1>13, <1>14, <2>1, <2>2 DEF Switched, Displayed, Up
<1>22. Sound(u, L, {p, from}, {})
  BY <1>0, <1>10, <1>11, <1>16, <1>17, <1>18, <1>19 DEF Sound
<1>23. s.pads[from].solo # v /\ Members(u, from) # {} => Sound(u, L, {p}, {})
  BY <1>0, <1>10, <1>11, <1>16, <1>17, <1>18, <1>19, <1>21 DEF Sound
<1> HIDE DEF from
<1>24. Transfers(s, u, L, v, p)
  BY <1>7, <1>8, <1>11, <1>12, <1>13, <1>14, <1>20, <1>22, <1>23 DEF Transfers, from
<1> QED BY <1>24 DEF u

Gathers(s, t, L, X, W, p) ==
  /\ Alike(s, t) /\ Sound(t, L, X, W) /\ Switched(t, p) /\ Homed(s, t) /\ t.pads[p].output # None
  /\ \A q \in Defined(s) \ {p} : t.pads[q].output = s.pads[q].output

\* A pad that is about to take a window in is on an output afterwards.
LEMMA GatheredSound ==
  ASSUME NEW L, NEW s, NEW X, NEW W, Sound(s, L, X, W), NEW p \in Defined(s), NEW o \in L, Switched(s, p)
  PROVE  Gathers(s, Gathered(s, p, o), L, X, W, p)
<1>1. CASE s.pads[p].visible /\ s.pads[p].output # None
  <2>1. Gathered(s, p, o) = s
    BY <1>1 DEF Gathered
  <2>2. Gathers(s, s, L, X, W, p)
    BY <1>1, AlikeReflexive, HomedReflexive DEF Gathers
  <2> QED BY <2>1, <2>2
<1>2. CASE ~(s.pads[p].visible /\ s.pads[p].output # None)
  <2>1. PICK yes \in BOOLEAN : yes = TRUE
    OBVIOUS
  <2> DEFINE t == MoveScratchpad(s, p, o, yes)
  <2>2. Gathered(s, p, o) = t
    BY <1>2, <2>1 DEF Gathered
  <2>3. Moves(s, t, L, X, W, p, o, yes)
    BY MoveSound
  <2> HIDE DEF t
  <2>4. o # None
    BY NoneFacts DEF Sound
  <2>5. /\ Alike(s, t) /\ Sound(t, L, X, W) /\ Settled(s, t, p) /\ t.pads[p].output = o /\ t.pads[p].home = None
        /\ t.pads[p].visible = s.pads[p].visible /\ t.pads[p].solo = s.pads[p].solo
    BY <2>1, <2>3 DEF Moves
  <2>6. Switched(t, p)
    BY <2>5, AlikeMembers DEF Switched
  <2>7. Homed(s, t)
    BY <2>4, <2>5, SettledHomed
  <2>8. Gathers(s, t, L, X, W, p)
    BY <2>4, <2>5, <2>6, <2>7 DEF Gathers, Settled
  <2> QED BY <2>2, <2>8
<1> QED BY <1>1, <1>2

\* A window from a workspace is in the pad now, and on screen as it was.
Enters(s, t, L, v, p) ==
  /\ Sound(t, L, {p}, {}) /\ Switched(t, p)
  /\ Defined(t) = Defined(s) /\ Entries(t) = Entries(s) \cup {v} /\ t.pads = s.pads
  /\ Members(t, p) = Members(s, p) \cup {v} /\ \A q : q # p /\ q # None => Members(t, q) = Members(s, q)
  /\ t.wins.mapped = s.wins.mapped /\ t.wins.parent = s.wins.parent /\ t.wins.focus = s.wins.focus

\* emplace_back on a list of different windows, of a window that is not in it.
LEMMA AppendFacts ==
  ASSUME NEW S, NEW q \in Seq(S), NEW x \in S
  PROVE  /\ Append(q, x) \in Seq(S) /\ ToSet(Append(q, x)) = ToSet(q) \cup {x}
         /\ IsInjective(q) /\ x \notin ToSet(q) => IsInjective(Append(q, x))
<1> DEFINE r == Append(q, x)
           n == Len(q)
<1>1. /\ r \in Seq(S) /\ n \in Nat /\ DOMAIN q = 1 .. n /\ DOMAIN r = 1 .. (n + 1)
      /\ r[n + 1] = x /\ \A i \in 1 .. n : r[i] = q[i]
  OBVIOUS
<1> HIDE DEF r, n
<1>2. ToSet(r) = ToSet(q) \cup {x}
  <2>1. \A y \in ToSet(r) : y \in ToSet(q) \cup {x}
    BY <1>1 DEF ToSet
  <2>2. x \in ToSet(r)
    BY <1>1 DEF ToSet
  <2>3. \A y \in ToSet(q) : y \in ToSet(r)
    BY <1>1 DEF ToSet
  <2> QED BY <2>1, <2>2, <2>3
<1>3. ASSUME IsInjective(q), x \notin ToSet(q) PROVE IsInjective(r)
  <2>1. \A i \in 1 .. n : q[i] # x
    BY <1>1, <1>3 DEF ToSet
  <2>2. ASSUME NEW i \in 1 .. (n + 1), NEW j \in 1 .. (n + 1), r[i] = r[j] PROVE i = j
    <3>1. CASE i \in 1 .. n /\ j \in 1 .. n
      BY <1>1, <1>3, <2>2, <3>1 DEF IsInjective
    <3>2. CASE i = n + 1 /\ j \in 1 .. n
      BY <1>1, <2>1, <2>2, <3>2
    <3>3. CASE j = n + 1 /\ i \in 1 .. n
      BY <1>1, <2>1, <2>2, <3>3
    <3>4. i \in 1 .. n \/ i = n + 1
      BY <1>1
    <3>5. j \in 1 .. n \/ j = n + 1
      BY <1>1
    <3> QED BY <3>1, <3>2, <3>3, <3>4, <3>5
  <2> QED BY <1>1, <2>2 DEF IsInjective
<1> QED BY <1>1, <1>2, <1>3 DEF r

\* A window of a workspace enters a pad; the pad owes its display.
LEMMA EnteredSound ==
  ASSUME NEW L, NEW s, Sound(s, L, {}, {}), NEW v \in s.wins.mapped \ Entries(s), NEW p \in Defined(s), Switched(s, p)
  PROVE  Enters(s, Entered(s, v, p), L, v, p)
<1> DEFINE t == Entered(s, v, p)
           w == [s.wins EXCEPT !.entries = Append(s.wins.entries, v), !.pad[v] = p,
                               !.shown = s.wins.shown \cup {v}]
<1>0. s \in State(L) /\ L \in SUBSET Outputs /\ Roster(s) /\ Screen(s, {}) /\ Alone(s)
  BY DEF Sound
<1>1. v \in Views /\ p \in Names /\ v \in s.wins.shown /\ Entries(s) \subseteq Views /\ p # None
  BY <1>0, WinFields, EntriesFacts, NoneFacts DEF Screen, Defined
<1>2. /\ Append(s.wins.entries, v) \in Seq(Views) /\ ToSet(Append(s.wins.entries, v)) = Entries(s) \cup {v}
      /\ IsInjective(Append(s.wins.entries, v))
  BY <1>0, <1>1, WinFields, AppendFacts DEF Roster, Entries
<1>3. w \in Windows /\ w.mapped = s.wins.mapped /\ w.parent = s.wins.parent /\ w.entries = Append(s.wins.entries, v)
      /\ w.shown = s.wins.shown /\ w.hiding = s.wins.hiding /\ w.focus = s.wins.focus /\ w.noted = s.wins.noted
      /\ \A x \in Views : w.pad[x] = IF x = v THEN p ELSE s.wins.pad[x]
  BY <1>0, <1>1, <1>2, WinFields DEF Windows
<1>4. t = [s EXCEPT !.wins = w]
  BY DEF Entered
<1> HIDE DEF t, w
<1>5. t.wins = w /\ t.pads = s.pads /\ t \in State(L)
  BY <1>0, <1>3, <1>4 DEF State
<1>6. Defined(t) = Defined(s) /\ Entries(t) = Entries(s) \cup {v}
  BY <1>2, <1>3, <1>5 DEF Defined, Entries
<1>7. Members(t, p) = Members(s, p) \cup {v} /\ \A q : q # p => Members(t, q) = Members(s, q)
  <2>1. \A q : Members(t, q) = {x \in Entries(s) \cup {v} : (IF x = v THEN p ELSE s.wins.pad[x]) = q}
    BY <1>1, <1>3, <1>5, <1>6 DEF Members
  <2>2. Members(t, p) = Members(s, p) \cup {v}
    BY <2>1, <1>1 DEF Members
  <2>3. ASSUME NEW q, q # p PROVE Members(t, q) = Members(s, q)
    BY <2>1, <2>3, <1>1 DEF Members
  <2> QED BY <2>2, <2>3
<1>8. Roster(t)
  <2>1. IsInjective(t.wins.entries) /\ Entries(t) \subseteq t.wins.mapped /\ t.wins.noted \in Entries(t) \cup {None}
        /\ \A x \in Views : t.wins.parent[x] \in {None, Owner[x]} \cap (t.wins.mapped \cup {None})
    BY <1>0, <1>2, <1>3, <1>5, <1>6 DEF Roster
  <2>2. \A x \in Views : t.wins.pad[x] # None <=> x \in Entries(t)
    BY <1>0, <1>1, <1>3, <1>5, <1>6 DEF Roster
  <2>3. \A x \in Entries(t) : t.wins.pad[x] \in Defined(t)
    BY <1>0, <1>1, <1>3, <1>5, <1>6 DEF Roster
  <2>4. \A q \in Defined(t) : t.pads[q].last \in Members(t, q) \cup {None}
    BY <1>0, <1>5, <1>6, <1>7 DEF Roster
  <2> QED BY <2>1, <2>2, <2>3, <2>4 DEF Roster
<1>9. Screen(t, {})
  BY <1>0, <1>1, <1>3, <1>5, <1>6 DEF Screen
<1>10. Alone(t)
  BY <1>0, <1>5, <1>6 DEF Alone
<1>11. \A q \in Defined(s) : q # p => Switched(t, q) /\ Displayed(t, q)
  <2> SUFFICES ASSUME NEW q \in Defined(s), q # p PROVE Switched(t, q) /\ Displayed(t, q)
    OBVIOUS
  <2>1. Switched(s, q) /\ Displayed(s, q)
    BY DEF Sound
  <2> QED BY <1>3, <1>5, <1>7, <2>1 DEF Switched, Displayed, Up
<1>12. Switched(t, p)
  BY <1>5, <1>7 DEF Switched
<1>13. Sound(t, L, {p}, {})
  BY <1>0, <1>5, <1>6, <1>8, <1>9, <1>10, <1>11 DEF Sound
<1>14. Enters(s, t, L, v, p)
  BY <1>3, <1>5, <1>6, <1>7, <1>12, <1>13 DEF Enters
<1> QED BY <1>14 DEF t

Offers(s, t, L, X, W, p) ==
  /\ Alike(s, t) /\ Sound(t, L, X \ {p}, W)
  /\ \A q \in Defined(s) : t.pads[q].output = s.pads[q].output /\ t.pads[q].home = s.pads[q].home

\* setVisible leaves every pad on its output.
LEMMA DisplaysKeeps ==
  ASSUME NEW s, NEW t, NEW L, NEW X, NEW W, NEW p \in Defined(s), NEW visible, Displays(s, t, L, X, W, p, visible)
  PROVE  Offers(s, t, L, X, W, p)
<1>1. Defined(s) \subseteq Names
  BY DEF Defined
<1> QED BY <1>1 DEF Displays, Offers

\* The pad that took a window in settles what it owes.
LEMMA OfferedSound ==
  ASSUME NEW L, NEW s, NEW X, NEW W, Sound(s, L, X, W), NEW p \in Defined(s), NEW v \in Members(s, p), Switched(s, p),
         NEW interactive \in BOOLEAN
  PROVE  Offers(s, Offered(s, v, p, interactive), L, X, W, p)
<1> DEFINE visible == s.pads[p].visible
           m == MemberFor(s, v, p)
<1>0. s \in State(L) /\ L \in SUBSET Outputs /\ visible \in BOOLEAN
  BY PadFields DEF Sound
<1>1. CASE interactive /\ s.pads[p].solo # None
  <2> DEFINE u == WithSolo(s, p, m)
             t == SetVisible(u, p, visible, interactive)
  <2>1. Offered(s, v, p, interactive) = t
    BY <1>1 DEF Offered, WithSolo
  <2>2. m \in Members(s, p)
    BY RideFacts
  <2> HIDE DEF m
  <2>3. Turned(s, u, L, X, W, p, m)
    BY <2>2, SoloChanged
  <2> HIDE DEF u
  <2>4. /\ Alike(s, u) /\ Sound(u, L, X \cup {p}, W) /\ Settled(s, u, p)
        /\ u.pads[p].solo = m /\ u.pads[p].output = s.pads[p].output /\ u.pads[p].visible = visible
        /\ u.pads[p].home = s.pads[p].home
    BY <2>3 DEF Turned
  <2>5. p \in Defined(u) /\ Members(u, p) = Members(s, p)
    BY <2>4, AlikeMembers
  <2>6. visible = FALSE \/ (/\ Members(u, p) # {} /\ u.pads[p].solo \in Members(u, p) \cup {None}
                            /\ Free(u, p, u.pads[p].output))
    <3>1. visible => Free(u, p, u.pads[p].output)
      <4>1. Alone(u)
        BY <2>4 DEF Sound
      <4> QED BY <2>4, <2>5, <4>1 DEF Free, Alone
    <3> HIDE DEF visible
    <3> QED BY <1>0, <2>2, <2>4, <2>5, <3>1
  <2> HIDE DEF visible
  <2>7. Displays(u, t, L, X \cup {p}, W, p, visible)
    BY <1>0, <2>4, <2>5, <2>6, SetVisibleSound
  <2> HIDE DEF t
  <2>8. Offers(u, t, L, X \cup {p}, W, p)
    BY <2>5, <2>7, DisplaysKeeps
  <2>9. (X \cup {p}) \ {p} = X \ {p}
    OBVIOUS
  <2>10. Alike(s, t)
    BY <2>4, <2>8, AlikeTransitive DEF Offers
  <2>11. \A q \in Defined(s) : u.pads[q].output = s.pads[q].output /\ u.pads[q].home = s.pads[q].home
    BY <2>4 DEF Settled
  <2>12. Defined(u) = Defined(s)
    BY <2>4 DEF Alike
  <2>13. Offers(s, t, L, X, W, p)
    BY <2>8, <2>9, <2>10, <2>11, <2>12 DEF Offers
  <2> QED BY <2>1, <2>13
<1>2. CASE ~(interactive /\ s.pads[p].solo # None)
  <2> DEFINE t == SetVisible(s, p, visible, interactive)
  <2>1. Offered(s, v, p, interactive) = t
    BY <1>2 DEF Offered
  <2>2. visible = FALSE \/ (/\ Members(s, p) # {} /\ s.pads[p].solo \in Members(s, p) \cup {None}
                            /\ Free(s, p, s.pads[p].output))
    <3>1. visible => Free(s, p, s.pads[p].output)
      <4>1. Alone(s)
        BY DEF Sound
      <4> QED BY <4>1 DEF Free, Alone
    <3>2. s.pads[p].solo \in Members(s, p) \cup {None}
      BY DEF Switched
    <3> HIDE DEF visible
    <3> QED BY <1>0, <3>1, <3>2
  <2> HIDE DEF visible
  <2>3. Displays(s, t, L, X, W, p, visible)
    BY <1>0, <2>2, SetVisibleSound
  <2> HIDE DEF t
  <2>4. Offers(s, t, L, X, W, p)
    BY <2>3, DisplaysKeeps
  <2> QED BY <2>1, <2>4
<1> QED BY <1>1, <1>2

\* The pad that lost a window settles what it owes: it hides if that was
\* the window it shows, or its last one.
LEMMA LeaveSound ==
  ASSUME NEW L, NEW s, NEW X, NEW W, Sound(s, L, X, W), NEW p \in Defined(s), NEW lost \in BOOLEAN,
         NEW animate \in BOOLEAN, p \in X => lost \/ Members(s, p) = {}
  PROVE  Offers(s, Leave(s, p, lost, animate), L, X, W, p)
<1>1. CASE lost \/ Members(s, p) = {}
  <2> DEFINE t == SetVisible(s, p, FALSE, animate)
  <2>1. Leave(s, p, lost, animate) = t
    BY <1>1 DEF Leave
  <2>2. Hides(s, t, L, X, W, p)
    BY SetHiddenSound
  <2>3. Defined(s) \subseteq Names /\ p # None
    BY NoneFacts DEF Defined
  <2> HIDE DEF t
  <2>4. Offers(s, t, L, X, W, p)
    BY <2>2, <2>3 DEF Hides, Offers
  <2> QED BY <2>1, <2>4
<1>2. CASE ~(lost \/ Members(s, p) = {})
  <2>1. Leave(s, p, lost, animate) = s
    BY <1>2 DEF Leave
  <2>2. Sound(s, L, X \ {p}, W)
    <3>1. Defined(s) \cap X \subseteq X \ {p}
      BY <1>2
    <3> QED BY <3>1, SoundMonotone
  <2>3. Offers(s, s, L, X, W, p)
    BY <2>2, AlikeReflexive DEF Offers
  <2> QED BY <2>1, <2>3
<1> QED BY <1>1, <1>2

\* A window is in pad p now, which is on an output, and nobody else came.
Joins(s, t, L, v, p) ==
  /\ Sound(t, L, {}, {}) /\ Homed(s, t) /\ t.pads[p].output # None
  /\ Defined(t) = Defined(s) /\ v \in Members(t, p)
  /\ \A q \in Defined(s) \ {p} : Members(t, q) \subseteq Members(s, q)
  /\ t.wins.mapped = s.wins.mapped /\ t.wins.parent = s.wins.parent /\ t.wins.focus = s.wins.focus

\* admit, without the keyboard: the window is in the pad, the pad has an
\* output, and nothing is owed.
LEMMA AdmittedSound ==
  ASSUME NEW L, NEW s, Sound(s, L, {}, {}), NEW v \in s.wins.mapped, NEW p \in Defined(s), s.wins.pad[v] # p,
         NEW o \in L, NEW interactive \in BOOLEAN
  PROVE  Joins(s, Admitted(s, v, p, o, interactive), L, v, p)
<1> DEFINE from == s.wins.pad[v]
<1>0. s \in State(L) /\ L \in SUBSET Outputs /\ Roster(s) /\ v \in Views /\ p # None
  BY WinFields, NoneFacts DEF Sound, Defined
<1>1. CASE from = None
  <2> DEFINE g == Gathered(s, p, o)
             e == Entered(g, v, p)
             t == Offered(e, v, p, interactive)
  <2>1. Admitted(s, v, p, o, interactive) = t
    BY <1>1 DEF Admitted
  <2>2. Gathers(s, g, L, {}, {}, p)
    <3>1. Switched(s, p)
      BY DEF Sound
    <3> QED BY <3>1, GatheredSound
  <2> HIDE DEF g
  <2>3. /\ Alike(s, g) /\ Sound(g, L, {}, {}) /\ Switched(g, p) /\ Homed(s, g) /\ g.pads[p].output # None
    BY <2>2 DEF Gathers
  <2>4. /\ Entries(g) = Entries(s) /\ Defined(g) = Defined(s) /\ \A q : Members(g, q) = Members(s, q)
        /\ g.wins.mapped = s.wins.mapped /\ g.wins.parent = s.wins.parent /\ g.wins.focus = s.wins.focus
    BY <2>3, AlikeMembers
  <2>5. v \in g.wins.mapped \ Entries(g)
    BY <1>0, <1>1, <2>4 DEF Roster
  <2>6. Enters(g, e, L, v, p)
    BY <2>3, <2>4, <2>5, EnteredSound
  <2> HIDE DEF e
  <2>7. /\ Sound(e, L, {p}, {}) /\ Switched(e, p) /\ Defined(e) = Defined(g) /\ e.pads = g.pads
        /\ Members(e, p) = Members(g, p) \cup {v} /\ \A q : q # p /\ q # None => Members(e, q) = Members(g, q)
        /\ e.wins.mapped = g.wins.mapped /\ e.wins.parent = g.wins.parent /\ e.wins.focus = g.wins.focus
    BY <2>6 DEF Enters
  <2>8. Offers(e, t, L, {p}, {}, p)
    <3>1. p \in Defined(e) /\ v \in Members(e, p)
      BY <2>4, <2>7
    <3> QED BY <2>7, <3>1, OfferedSound
  <2> HIDE DEF t
  <2>9. /\ Alike(e, t) /\ Sound(t, L, {p} \ {p}, {})
        /\ \A q \in Defined(e) : t.pads[q].output = e.pads[q].output /\ t.pads[q].home = e.pads[q].home
    BY <2>8 DEF Offers
  <2>10. /\ Defined(t) = Defined(e) /\ \A q : Members(t, q) = Members(e, q)
         /\ t.wins.mapped = e.wins.mapped /\ t.wins.parent = e.wins.parent /\ t.wins.focus = e.wins.focus
    BY <2>9, AlikeMembers
  <2>11. {p} \ {p} = {}
    OBVIOUS
  <2>12. Homed(s, t)
    BY <2>3, <2>4, <2>7, <2>9, <2>10 DEF Homed
  <2>13. \A q \in Defined(s) : q # None
    BY NoneFacts DEF Defined
  <2>14. Joins(s, t, L, v, p)
    BY <2>3, <2>4, <2>7, <2>9, <2>10, <2>11, <2>12, <2>13 DEF Joins
  <2> QED BY <2>1, <2>14
<1>2. CASE from # None
  <2> DEFINE u == Transferred(s, v, p)
             g == Gathered(u, p, o)
             f == Offered(g, v, p, interactive)
  <2>0. PICK lost \in BOOLEAN : lost <=> s.pads[from].solo = v
    <3>1. (s.pads[from].solo = v) \in BOOLEAN
      OBVIOUS
    <3> QED BY <3>1
  <2> DEFINE t == Leave(f, from, lost, interactive)
  <2>1. Admitted(s, v, p, o, interactive) = t
    BY <1>2, <2>0 DEF Admitted
  <2>2. v \in Entries(s) /\ from \in Defined(s) /\ from # p
    BY <1>0, <1>2 DEF Roster
  <2>3. Transfers(s, u, L, v, p)
    BY <2>2, TransferredSound
  <2> HIDE DEF u
  <2>4. /\ Sound(u, L, {p, from}, {})
        /\ ~lost /\ Members(u, from) # {} => Sound(u, L, {p}, {})
        /\ Defined(u) = Defined(s)
        /\ Members(u, p) = Members(s, p) \cup {v} /\ Members(u, from) \subseteq Members(s, from)
        /\ \A q : q \notin {p, from} => Members(u, q) = Members(s, q)
        /\ u.wins.mapped = s.wins.mapped /\ u.wins.parent = s.wins.parent /\ u.wins.focus = s.wins.focus
        /\ \A q \in Defined(s) : u.pads[q].output = s.pads[q].output /\ u.pads[q].home = s.pads[q].home
        /\ Switched(u, p)
    BY <2>0, <2>3 DEF Transfers
  <2> DEFINE X == IF lost \/ Members(u, from) = {} THEN {p, from} ELSE {p}
  <2>5. Sound(u, L, X, {}) /\ (from \in X => lost \/ Members(u, from) = {}) /\ (X \ {p}) \ {from} = {}
    BY <2>2, <2>4
  <2> HIDE DEF X
  <2>6. Gathers(u, g, L, X, {}, p)
    BY <2>4, <2>5, GatheredSound
  <2> HIDE DEF g
  <2>7. Alike(u, g) /\ Sound(g, L, X, {}) /\ Switched(g, p) /\ Homed(u, g) /\ g.pads[p].output # None
    BY <2>6 DEF Gathers
  <2>8. /\ Defined(g) = Defined(u) /\ \A q : Members(g, q) = Members(u, q)
        /\ g.wins.mapped = u.wins.mapped /\ g.wins.parent = u.wins.parent /\ g.wins.focus = u.wins.focus
    BY <2>7, AlikeMembers
  <2>9. Offers(g, f, L, X, {}, p)
    <3>1. p \in Defined(g) /\ v \in Members(g, p)
      BY <2>4, <2>8
    <3> QED BY <2>7, <3>1, OfferedSound
  <2> HIDE DEF f
  <2>10. /\ Alike(g, f) /\ Sound(f, L, X \ {p}, {})
         /\ \A q \in Defined(g) : f.pads[q].output = g.pads[q].output /\ f.pads[q].home = g.pads[q].home
    BY <2>9 DEF Offers
  <2>11. /\ Defined(f) = Defined(g) /\ \A q : Members(f, q) = Members(g, q)
         /\ f.wins.mapped = g.wins.mapped /\ f.wins.parent = g.wins.parent /\ f.wins.focus = g.wins.focus
    BY <2>10, AlikeMembers
  <2>12. Offers(f, t, L, X \ {p}, {}, from)
    <3>1. from \in Defined(f) /\ (from \in X \ {p} => lost \/ Members(f, from) = {})
      BY <2>2, <2>4, <2>5, <2>8, <2>11
    <3> HIDE DEF from
    <3> QED BY <2>10, <3>1, LeaveSound
  <2> HIDE DEF t, from
  <2>13. /\ Alike(f, t) /\ Sound(t, L, {}, {})
         /\ \A q \in Defined(f) : t.pads[q].output = f.pads[q].output /\ t.pads[q].home = f.pads[q].home
    BY <2>5, <2>12 DEF Offers
  <2>14. /\ Defined(t) = Defined(f) /\ \A q : Members(t, q) = Members(f, q)
         /\ t.wins.mapped = f.wins.mapped /\ t.wins.parent = f.wins.parent /\ t.wins.focus = f.wins.focus
    BY <2>13, AlikeMembers
  <2>15. Homed(s, t)
    BY <2>4, <2>7, <2>8, <2>10, <2>11, <2>13, <2>14 DEF Homed
  <2>16. t.pads[p].output # None /\ Defined(t) = Defined(s)
    BY <2>4, <2>7, <2>8, <2>10, <2>11, <2>13, <2>14
  <2>17. v \in Members(t, p) /\ \A q \in Defined(s) \ {p} : Members(t, q) \subseteq Members(s, q)
    BY <2>4, <2>8, <2>11, <2>14
  <2>18. Joins(s, t, L, v, p)
    BY <2>4, <2>8, <2>11, <2>13, <2>14, <2>15, <2>16, <2>17 DEF Joins
  <2> QED BY <2>1, <2>18
<1> QED BY <1>1, <1>2

\* A pad that got its first window is on an output.
Housed(s, t) ==
  \A q \in Defined(t) : Members(t, q) # {} => Members(s, q) # {} \/ t.pads[q].output # None

\* What an act makes of the pads: the invariant holds, and they moved only by
\* somebody's wish.
Acted(s, t, L) ==
  /\ Sound(t, L, {}, {}) /\ t.wins.focus \in t.wins.mapped \cup {None}
  /\ Defined(t) = Defined(s) /\ Homed(s, t) /\ Housed(s, t)

\* Two calls of the manager in a row are like one.
LEMMA ActedTransitive ==
  ASSUME NEW L, NEW s, NEW t, NEW u, Acted(s, t, L), Acted(t, u, L) PROVE Acted(s, u, L)
<1>1. Homed(s, u)
  BY HomedTransitive DEF Acted
<1>2. Housed(s, u)
  BY DEF Acted, Housed, Homed
<1> QED BY <1>1, <1>2 DEF Acted

\* No window that stays where it is ends up without an output.
LEMMA AlikeHoused == ASSUME NEW s, NEW t, \A q : Members(t, q) = Members(s, q) PROVE Housed(s, t)
BY DEF Housed

\* Moving the keyboard is an act like another.
LEMMA StaysActed ==
  ASSUME NEW L, NEW s, NEW t, Stays(s, t), Sound(t, L, {}, {}), t.wins.focus \in t.wins.mapped \cup {None}
  PROVE  Acted(s, t, L)
BY StaysMembers, StaysHomed, AlikeHoused DEF Acted

\* So is what changes the display only.
LEMMA AlikeActed ==
  ASSUME NEW L, NEW s, NEW t, Alike(s, t), Sound(t, L, {}, {}), Homed(s, t), s.wins.focus \in s.wins.mapped \cup {None}
  PROVE  Acted(s, t, L)
BY AlikeMembers, AlikeHoused DEF Acted

\* And giving the keyboard to somebody who is on screen.
LEMMA RestsActed ==
  ASSUME NEW L, NEW s, NEW t, Rests(s, t, L, {})
  PROVE  Acted(s, t, L)
<1>1. t.wins.shown \subseteq t.wins.mapped
  BY DEF Rests, Sound, Screen
<1> QED BY <1>1, StaysActed DEF Rests

\* admit: the window is in the pad, whether it was or not.
Admits(s, t, L, v, p) ==
  /\ Acted(s, t, L) /\ v \in Members(t, p) /\ t.wins.mapped = s.wins.mapped /\ t.wins.parent = s.wins.parent

\* A window that enters a pad has an output.
LEMMA JoinsHoused == ASSUME NEW L, NEW s, NEW t, NEW v, NEW p, Joins(s, t, L, v, p) PROVE Housed(s, t)
BY DEF Joins, Housed

\* admit: the window is in the pad, nothing is owed, and an interactive
\* one leaves the keyboard on a window that is on screen.
LEMMA AdmitSound ==
  ASSUME NEW L, NEW s, Sound(s, L, {}, {}), s.wins.focus \in s.wins.mapped \cup {None},
         NEW v \in s.wins.mapped, NEW p \in Defined(s), NEW o \in L, NEW interactive \in BOOLEAN,
         NEW t \in Admit(s, v, p, o, interactive)
  PROVE  /\ Admits(s, t, L, v, p)
         /\ interactive /\ s.wins.pad[v] # p => t.wins.focus \in t.wins.shown \cup {None}
<1>0. s \in State(L) /\ L \in SUBSET Outputs /\ Roster(s) /\ v \in Views /\ p # None /\ o # None
  BY WinFields, NoneFacts DEF Sound, Defined
<1>1. CASE s.wins.pad[v] = p
  <2>1. v \in Members(s, p)
    BY <1>0, <1>1 DEF Roster, Members
  <2>2. CASE s.pads[p].visible
    <3>1. t = s
      BY <1>1, <2>2 DEF Admit
    <3>2. Acted(s, s, L)
      BY AlikeActed, AlikeReflexive, HomedReflexive
    <3> QED BY <1>1, <2>1, <3>1, <3>2 DEF Admits
  <2>3. CASE ~s.pads[p].visible
    <3>1. t = MoveTo(s, p, o)
      BY <1>1, <2>3 DEF Admit
    <3>2. MovesTo(s, t, L, {}, {}, p, o)
      BY <2>3, <3>1, MoveToSound
    <3>3. Alike(s, t) /\ Sound(t, L, {}, {}) /\ Homed(s, t)
      BY <1>0, <3>2, SettledHomed DEF MovesTo
    <3>4. Acted(s, t, L)
      BY <3>3, AlikeActed
    <3> QED BY <1>1, <2>1, <3>3, <3>4, AlikeMembers DEF Admits
  <2> QED BY <2>2, <2>3
<1>2. CASE s.wins.pad[v] # p
  <2>0. PICK yes \in BOOLEAN : yes <=> interactive
    OBVIOUS
  <2> DEFINE j == Admitted(s, v, p, o, yes)
  <2>1. Joins(s, j, L, v, p)
    BY <1>2, AdmittedSound
  <2>2. \/ interactive /\ t \in RefocusOn(j, o)
        \/ ~interactive /\ (t = j \/ t \in Fallback(j))
    <3>1. CASE interactive
      <4>1. t \in RefocusOn(Admitted(s, v, p, o, TRUE), o)
        BY <1>2, <3>1 DEF Admit
      <4> QED BY <2>0, <3>1, <4>1
    <3>2. CASE ~interactive
      <4>1. t \in Resigned(Admitted(s, v, p, o, FALSE), v, p)
        BY <1>2, <3>2 DEF Admit
      <4> QED BY <2>0, <3>2, <4>1 DEF Resigned
    <3> QED BY <3>1, <3>2
  <2> HIDE DEF j
  <2>3. /\ Sound(j, L, {}, {}) /\ Homed(s, j) /\ Defined(j) = Defined(s) /\ v \in Members(j, p)
        /\ j.wins.mapped = s.wins.mapped /\ j.wins.parent = s.wins.parent /\ j.wins.focus = s.wins.focus
        /\ Housed(s, j)
    BY <2>1, JoinsHoused DEF Joins
  <2>4. Acted(s, j, L)
    BY <2>3 DEF Acted
  <2>5. CASE t = j
    BY <2>2, <2>3, <2>4, <2>5, RefocusOnRests, RestsActed DEF Admits, Rests
  <2>6. CASE t # j \/ interactive
    <3>1. Rests(j, t, L, {})
      BY <2>2, <2>3, <2>6, RefocusOnRests, FallbackRests
    <3>2. Acted(j, t, L)
      BY <3>1, RestsActed
    <3>3. Acted(s, t, L)
      BY <2>4, <3>2, ActedTransitive
    <3>4. v \in Members(t, p) /\ t.wins.mapped = j.wins.mapped /\ t.wins.parent = j.wins.parent
      BY <2>3, <3>1, StaysMembers DEF Rests, Stays
    <3> QED BY <2>3, <3>1, <3>3, <3>4 DEF Admits, Rests
  <2> QED BY <2>2, <2>3, <2>4, <2>5, <2>6 DEF Admits
<1> QED BY <1>1, <1>2

-----------------------------------------------------------------------------
(* Launches, window rules and dialogs.                                     *)

WithSpawn(s, p, spawn) == [s EXCEPT !.pads[p].spawn = spawn]

\* What a launch remembers is nobody's display.
LEMMA SpawnChanged ==
  ASSUME NEW L, NEW s, Sound(s, L, {}, {}), s.wins.focus \in s.wins.mapped \cup {None},
         NEW p \in Defined(s), NEW spawn \in SpawnOn(L) \cup {None}
  PROVE  LET t == WithSpawn(s, p, spawn)
         IN Acted(s, t, L) /\ Alike(s, t) /\ t.wins = s.wins /\ t.pads[p].visible = s.pads[p].visible
<1> DEFINE pad == s.pads[p]
           r == [pad EXCEPT !.spawn = spawn]
           t == WithSpawn(s, p, spawn)
<1>0. s \in State(L) /\ L \in SUBSET Outputs /\ Roster(s)
  BY DEF Sound
<1>1. pad \in PadOn(L) /\ p \in Names /\ pad.last \in Members(s, p) \cup {None}
  BY <1>0, PadFields DEF Roster
<1>2. r \in PadOn(L) /\ r.visible = pad.visible /\ r.output = pad.output /\ r.last = pad.last
      /\ r.solo = pad.solo /\ r.home = pad.home
  BY <1>1 DEF PadOn
<1>3. t.wins = s.wins /\ \A q \in Names \ {p} : t.pads[q] = s.pads[q]
  BY <1>0, <1>1 DEF State, WithSpawn
<1>4. t.pads[p] = r
  BY <1>0, <1>1 DEF State, PadOn, WithSpawn
<1>5. t \in State(L) /\ r # None
  BY <1>0, <1>2, <1>4, PadOnFacts DEF State, WithSpawn
<1> HIDE DEF r, t
<1>6. Alike(s, t) /\ Sound(t, L, {}, {})
  BY <1>1, <1>2, <1>3, <1>4, <1>5, PadTouched
<1>7. Homed(s, t)
  <2>1. Defined(s) \subseteq Names
    BY DEF Defined
  <2> QED BY <1>2, <1>3, <1>4, <2>1 DEF Homed
<1>8. Acted(s, t, L)
  BY <1>6, <1>7, AlikeActed
<1> QED BY <1>2, <1>3, <1>4, <1>6, <1>8 DEF t

\* summon, called for a pad that is in order.
LEMMA SummonActed ==
  ASSUME NEW L, NEW s, Sound(s, L, {}, {}), s.wins.focus \in s.wins.mapped \cup {None}, NEW p \in Defined(s),
         Members(s, p) # {}, NEW o \in L, NEW member \in Members(s, p) \cup {None}
  PROVE  /\ Acted(s, Summon(s, p, o, member), L) /\ Alike(s, Summon(s, p, o, member))
         /\ Summons(s, Summon(s, p, o, member), L, {}, {}, p, o)
<1> DEFINE t == Summon(s, p, o, member)
<1>1. Ready(s, p) /\ Switched(s, p) /\ o # None
  BY NoneFacts DEF Ready, Sound, Switched
<1>2. Summons(s, t, L, {}, {}, p, o)
  BY <1>1, SummonSound
<1> HIDE DEF t
<1>3. {} \ {p} = {}
  OBVIOUS
<1>4. Alike(s, t) /\ Sound(t, L, {}, {}) /\ Settled(s, t, p)
  BY <1>2, <1>3 DEF Summons, Brings
<1>5. Homed(s, t)
  <2>1. \/ t.pads[p].output = s.pads[p].output /\ t.pads[p].home = s.pads[p].home
        \/ t.pads[p].output # None /\ t.pads[p].home = None
    BY <1>1, <1>2 DEF Summons, Brings
  <2> QED BY <1>4, <2>1, SettledHomed
<1>6. Acted(s, t, L)
  BY <1>4, <1>5, AlikeActed
<1> QED BY <1>2, <1>4, <1>6 DEF t

\* What comes after admit may change the display only.
LEMMA AdmitsActed ==
  ASSUME NEW L, NEW s, NEW t, NEW u, NEW v, NEW p, Admits(s, t, L, v, p), Acted(t, u, L), Alike(t, u)
  PROVE  Admits(s, u, L, v, p)
<1>1. Acted(s, u, L)
  BY ActedTransitive DEF Admits
<1> QED BY <1>1, AlikeMembers DEF Admits

\* assignByWindowRule, whatever becomes of the launch it answers.
LEMMA AssignByRuleSound ==
  ASSUME NEW L, NEW s, Sound(s, L, {}, {}), s.wins.focus \in s.wins.mapped \cup {None},
         NEW v \in s.wins.mapped, NEW p \in Defined(s), NEW o \in L,
         NEW t \in AssignByRule(s, v, p, o)
  PROVE  Admits(s, t, L, v, p)
<1>1. PICK no \in BOOLEAN : no = FALSE
  OBVIOUS
<1>2. PICK a \in Admit(s, v, p, o, no) :
        LET spawn == a.pads[p].spawn
            u     == WithSpawn(a, p, None)
        IN t = IF spawn = None THEN a
               ELSE IF spawn.live /\ spawn.shown THEN Summon(u, p, spawn.output, None) ELSE u
  <2>1. AssignByRule(s, v, p, o) =
          {LET spawn == a.pads[p].spawn
               u     == WithSpawn(a, p, None)
           IN IF spawn = None THEN a
              ELSE IF spawn.live /\ spawn.shown THEN Summon(u, p, spawn.output, None) ELSE u :
             a \in Admit(s, v, p, o, FALSE)}
    BY DEF AssignByRule, WithSpawn
  <2> QED BY <1>1, <2>1
<1>3. Admits(s, a, L, v, p)
  BY <1>2, AdmitSound
<1>4. /\ Sound(a, L, {}, {}) /\ a.wins.focus \in a.wins.mapped \cup {None} /\ p \in Defined(a) /\ v \in Members(a, p)
      /\ a \in State(L) /\ L \in SUBSET Outputs
  BY <1>3 DEF Admits, Acted, Sound
<1> DEFINE u == WithSpawn(a, p, None)
<1>5. Acted(a, u, L) /\ Alike(a, u)
  BY <1>4, SpawnChanged
<1>6. Admits(s, u, L, v, p)
  BY <1>3, <1>5, AdmitsActed
<1> HIDE DEF u
<1>7. CASE a.pads[p].spawn = None
  BY <1>2, <1>3, <1>7
<1>8. CASE a.pads[p].spawn # None
  <2> DEFINE o2 == a.pads[p].spawn.output
             z == Summon(u, p, o2, None)
  <2>1. o2 \in L
    BY <1>4, <1>8, PadFields DEF SpawnOn
  <2>2. t = z \/ t = u
    BY <1>2, <1>8 DEF u
  <2>3. /\ Sound(u, L, {}, {}) /\ u.wins.focus \in u.wins.mapped \cup {None} /\ p \in Defined(u) /\ Members(u, p) # {}
    BY <1>4, <1>5, AlikeMembers DEF Acted
  <2> HIDE DEF o2
  <2>4. Acted(u, z, L) /\ Alike(u, z)
    BY <2>1, <2>3, SummonActed
  <2> HIDE DEF z
  <2>5. Admits(s, z, L, v, p)
    BY <1>6, <2>4, AdmitsActed
  <2> QED BY <1>6, <2>2, <2>5
<1> QED BY <1>7, <1>8

\* assignFromParent
LEMMA InheritSound ==
  ASSUME NEW L, NEW s, Sound(s, L, {}, {}), s.wins.focus \in s.wins.mapped \cup {None},
         NEW v \in s.wins.mapped, NEW inherits, NEW t \in Inherit(s, v, inherits)
  PROVE  Acted(s, t, L) /\ t.wins.mapped = s.wins.mapped /\ t.wins.parent = s.wins.parent
<1> DEFINE parent == s.wins.parent[v]
           p == s.wins.pad[parent]
           o == s.pads[p].output
<1>0. s \in State(L) /\ L \in SUBSET Outputs /\ Roster(s)
  BY DEF Sound
<1>1. CASE v \notin Entries(s) /\ Adopts(s, parent) /\ inherits
  <2>1. PICK no \in BOOLEAN : no = FALSE
    OBVIOUS
  <2>2. t \in Admit(s, v, p, o, no)
    BY <1>1, <2>1 DEF Inherit
  <2>3. parent \in Entries(s) /\ p \in Defined(s) /\ o # None
    BY <1>0, <1>1 DEF Adopts, Roster
  <2>4. o \in L
    BY <1>0, <2>3, PadFields
  <2> HIDE DEF parent, p, o
  <2>5. Admits(s, t, L, v, p)
    BY <2>2, <2>3, <2>4, AdmitSound
  <2> QED BY <2>5 DEF Admits
<1>2. CASE ~(v \notin Entries(s) /\ Adopts(s, parent) /\ inherits)
  <2>1. t = s
    BY <1>2 DEF Inherit
  <2> QED BY <2>1, StaysReflexive, StaysActed
<1> QED BY <1>1, <1>2

-----------------------------------------------------------------------------
(* Lists.                                                                  *)

KeptStep(S, kept, x) == IF x \in S THEN Append(kept, x) ELSE kept

KeptFold == INSTANCE FoldLemmas WITH Op <- LAMBDA a, b, kept, x : KeptStep(a, kept, x)

\* std::erase_if and std::copy_if keep the order and invent nothing.
LEMMA KeptFacts ==
  ASSUME NEW A, NEW q \in Seq(A), NEW S
  PROVE  /\ Kept(q, S) \in Seq(A) /\ ToSet(Kept(q, S)) = ToSet(q) \cap S
         /\ IsInjective(q) => IsInjective(Kept(q, S))
<1>wellordered. KeptFold!WellOrdered
  BY NatLeast DEF KeptFold!WellOrdered
<1>1. PICK after :
        /\ after[0] = <<>>
        /\ \A i \in 1 .. Len(q) : after[i] = KeptStep(S, after[i - 1], q[i])
        /\ KeptFold!Result(S, S, <<>>, q) = after[Len(q)]
  BY <1>wellordered, KeptFold!Folded
<1>2. Kept(q, S) = KeptFold!Result(S, S, <<>>, q)
  BY DEF Kept, KeptStep, FoldLeft, MapThenFoldSet, Max, KeptFold!MapThenFoldSet, KeptFold!Greatest,
         KeptFold!Result
<1> DEFINE Past(i) == {q[j] : j \in 1 .. i}
           Right(i) == /\ after[i] \in Seq(A) /\ ToSet(after[i]) = Past(i) \cap S
                       /\ IsInjective(q) => IsInjective(after[i])
           T == {i \in 0 .. Len(q) : Right(i)}
<1>3. Len(q) \in Nat /\ DOMAIN q = 1 .. Len(q) /\ \A i \in 1 .. Len(q) : q[i] \in A
  OBVIOUS
<1>4. Right(0)
  <2>1. ToSet(<<>>) = {} /\ Past(0) = {}
    BY DEF ToSet
  <2>2. IsInjective(<<>>)
    BY DEF IsInjective
  <2> QED BY <1>1, <2>1, <2>2
<1>5. ASSUME NEW i \in 1 .. Len(q), Right(i - 1) PROVE Right(i)
  <2>1. after[i] = KeptStep(S, after[i - 1], q[i]) /\ i - 1 \in Nat /\ q[i] \in A
    BY <1>1, <1>3
  <2>2. Past(i) = Past(i - 1) \cup {q[i]}
    <3>1. \A j : j \in 1 .. i <=> j \in 1 .. (i - 1) \/ j = i
      BY <1>3
    <3> QED BY <3>1
  <2>3. IsInjective(q) => q[i] \notin Past(i - 1)
    <3> SUFFICES ASSUME IsInjective(q), NEW j \in 1 .. (i - 1), q[i] = q[j] PROVE FALSE
      OBVIOUS
    <3>1. j \in 1 .. Len(q) /\ j # i
      BY <1>3
    <3> QED BY <1>3, <3>1 DEF IsInjective
  <2> HIDE DEF Past
  <2>4. CASE q[i] \in S
    <3>1. after[i] = Append(after[i - 1], q[i])
      BY <2>1, <2>4 DEF KeptStep
    <3>2. /\ Append(after[i - 1], q[i]) \in Seq(A)
          /\ ToSet(Append(after[i - 1], q[i])) = ToSet(after[i - 1]) \cup {q[i]}
          /\ IsInjective(after[i - 1]) /\ q[i] \notin ToSet(after[i - 1]) => IsInjective(Append(after[i - 1], q[i]))
      BY <1>5, <2>1, AppendFacts
    <3> QED BY <1>5, <2>2, <2>3, <2>4, <3>1, <3>2
  <2>5. CASE q[i] \notin S
    <3>1. after[i] = after[i - 1]
      BY <2>1, <2>5 DEF KeptStep
    <3> QED BY <1>5, <2>2, <2>5, <3>1
  <2> QED BY <2>4, <2>5
<1>6. Len(q) \in T
  <2> HIDE DEF Right
  <2>1. 0 \in T /\ \A i \in 1 .. Len(q) : i - 1 \in T => i \in T
    BY <1>3, <1>4, <1>5
  <2> HIDE DEF T
  <2>2. PICK n \in Nat : n = Len(q)
    BY <1>3
  <2>3. \A i \in 1 .. n : i - 1 \in T => i \in T
    BY <2>1, <2>2
  <2>4. \A i \in 0 .. n : i \in T
    BY <2>1, <2>3, LoopInvariant
  <2> QED BY <2>2, <2>4
<1>7. Past(Len(q)) = ToSet(q)
  BY <1>3 DEF ToSet
<1> QED BY <1>1, <1>2, <1>6, <1>7

-----------------------------------------------------------------------------
(* Leaving the pads.                                                       *)

\* A window is in no pad any more; whether it is on screen is not settled.
Departs(s, t, L, W, v) ==
  /\ Sound(t, L, {}, W) /\ Defined(t) = Defined(s) /\ Entries(t) = Entries(s) \ {v}
  /\ \A q \in Names : Members(t, q) = Members(s, q) \ {v}
  /\ \A q \in Defined(s) : t.pads[q].output = s.pads[q].output /\ t.pads[q].home = s.pads[q].home
  /\ t.wins.mapped = s.wins.mapped /\ t.wins.parent = s.wins.parent /\ t.wins.focus = s.wins.focus

\* restoreView and remove: nobody points at the window any more, whatever
\* the pad showed, and only the window owes being on screen.
LEMMA LeavesSound ==
  ASSUME NEW L, NEW s, Sound(s, L, {}, {}), NEW v \in Entries(s)
  PROVE  Departs(s, Leaves(s, v), L, {v}, v)
<1> DEFINE p == s.wins.pad[v]
           t == ForgetLast(s, p, v)
           entries == Kept(s.wins.entries, Views \ {v})
           noted == IF s.wins.noted = v THEN None ELSE s.wins.noted
           w == [s.wins EXCEPT !.entries = entries, !.pad[v] = None, !.noted = noted, !.hiding = s.wins.hiding \ {v}]
           u == [t EXCEPT !.wins.entries = Kept(@, Views \ {v}), !.wins.pad[v] = None,
                          !.wins.noted = IF @ = v THEN None ELSE @, !.wins.hiding = @ \ {v}]
<1>0. s \in State(L) /\ L \in SUBSET Outputs /\ Roster(s) /\ Screen(s, {}) /\ Alone(s)
  BY DEF Sound
<1>1. v \in Views /\ p \in Defined(s) /\ p \in Names /\ p # None
  BY <1>0, EntriesFacts DEF Roster, Defined
<1>2. Forgets(s, t, L, {}, {}, p, v)
  BY <1>1, ForgetLastSound
<1>3. Leaves(s, v) = IF u.pads[p].visible THEN Leave(u, p, u.pads[p].solo = v, TRUE) ELSE u
  BY DEF Leaves
<1> HIDE DEF t
<1>4. /\ Stays(s, t) /\ Sound(t, L, {}, {}) /\ t.wins = s.wins /\ t.pads[p].last # v
      /\ t \in State(L) /\ Roster(t) /\ Defined(t) = Defined(s)
  BY <1>2 DEF Forgets, Stays, Sound
<1>5. entries \in Seq(Views) /\ ToSet(entries) = Entries(s) \ {v} /\ IsInjective(entries)
  <2>1. s.wins.entries \in Seq(Views) /\ IsInjective(s.wins.entries) /\ Entries(s) \subseteq Views
    BY <1>0, WinFields, EntriesFacts DEF Roster
  <2>2. ToSet(entries) = ToSet(s.wins.entries) \cap (Views \ {v})
    BY <2>1, KeptFacts
  <2> QED BY <2>1, <2>2, KeptFacts DEF Entries
<1>6. u = [t EXCEPT !.wins = w]
  BY <1>4
<1> HIDE DEF entries
<1>7. w \in Windows /\ w.mapped = s.wins.mapped /\ w.parent = s.wins.parent /\ w.entries = entries
      /\ w.shown = s.wins.shown /\ w.hiding = s.wins.hiding \ {v} /\ w.focus = s.wins.focus /\ w.noted = noted
      /\ \A x \in Views : w.pad[x] = IF x = v THEN None ELSE s.wins.pad[x]
  BY <1>0, <1>1, <1>5, WinFields DEF Windows
<1> HIDE DEF u, w
<1>8. u.wins = w /\ u.pads = t.pads /\ u \in State(L)
  BY <1>4, <1>6, <1>7 DEF State
<1>9. Defined(u) = Defined(s) /\ Entries(u) = Entries(s) \ {v} /\ Entries(s) \subseteq Views /\ Defined(s) \subseteq Names
  BY <1>0, <1>4, <1>5, <1>7, <1>8, EntriesFacts DEF Defined, Entries
<1>10. \A q \in Names : Members(u, q) = Members(s, q) \ {v}
  <2>1. ASSUME NEW q \in Names PROVE Members(u, q) = Members(s, q) \ {v}
    <3>1. q # None
      BY NoneFacts
    <3>2. Members(u, q) = {x \in Entries(s) \ {v} : (IF x = v THEN None ELSE s.wins.pad[x]) = q}
      BY <1>7, <1>8, <1>9 DEF Members
    <3> QED BY <3>1, <3>2 DEF Members
  <2> QED BY <2>1
<1>11. \A q \in Defined(s) :
         /\ u.pads[q].output = s.pads[q].output /\ u.pads[q].home = s.pads[q].home
         /\ u.pads[q].visible = s.pads[q].visible /\ u.pads[q].solo = s.pads[q].solo
  BY <1>4, <1>8 DEF Stays
<1>12. \A q \in Defined(s) : u.pads[q].last \in Members(u, q) \cup {None}
  <2>1. \A q : Members(t, q) = Members(s, q)
    BY <1>4, StaysMembers
  <2>2. \A q \in Defined(s) : t.pads[q].last \in Members(s, q) \cup {None}
    BY <1>4, <2>1 DEF Roster
  <2>3. \A q \in Defined(s) : q # p => v \notin Members(s, q)
    BY <1>1 DEF Members
  <2>4. \A q \in Defined(s) : t.pads[q].last # v \/ v = None
    BY <1>4, <2>2, <2>3
  <2>5. v # None
    BY <1>1, NoneFacts
  <2> QED BY <1>8, <1>9, <1>10, <2>2, <2>4, <2>5
<1>13. Roster(u)
  <2>1. IsInjective(u.wins.entries) /\ Entries(u) \subseteq u.wins.mapped
        /\ \A x \in Views : u.wins.parent[x] \in {None, Owner[x]} \cap (u.wins.mapped \cup {None})
    BY <1>0, <1>5, <1>7, <1>8, <1>9 DEF Roster
  <2>2. u.wins.noted \in Entries(u) \cup {None}
    BY <1>0, <1>7, <1>8, <1>9 DEF Roster
  <2>3. \A x \in Views : u.wins.pad[x] # None <=> x \in Entries(u)
    BY <1>0, <1>1, <1>7, <1>8, <1>9 DEF Roster
  <2>4. \A x \in Entries(u) : u.wins.pad[x] \in Defined(u)
    BY <1>0, <1>1, <1>7, <1>8, <1>9 DEF Roster
  <2> QED BY <1>9, <1>12, <2>1, <2>2, <2>3, <2>4 DEF Roster
<1>14. Screen(u, {v})
  BY <1>0, <1>7, <1>8, <1>9 DEF Screen
<1>15. Alone(u)
  BY <1>0, <1>9, <1>11 DEF Alone
<1>16. \A q \in Defined(s) : q # p => Switched(u, q) /\ Displayed(u, q)
  <2> SUFFICES ASSUME NEW q \in Defined(s), q # p PROVE Switched(u, q) /\ Displayed(u, q)
    OBVIOUS
  <2>1. Switched(s, q) /\ Displayed(s, q)
    BY DEF Sound
  <2>2. Members(u, q) = Members(s, q)
    <3>1. v \notin Members(s, q)
      BY <1>1 DEF Members
    <3> QED BY SMTT(30), <1>9, <1>10, <3>1
  <2> QED BY <1>7, <1>8, <1>11, <2>1, <2>2 DEF Switched, Displayed, Up
<1>17. ~s.pads[p].visible \/ (s.pads[p].solo # v /\ Members(u, p) # {}) => Switched(u, p) /\ Displayed(u, p)
  <2> SUFFICES ASSUME ~s.pads[p].visible \/ (s.pads[p].solo # v /\ Members(u, p) # {})
               PROVE  Switched(u, p) /\ Displayed(u, p)
    OBVIOUS
  <2>1. Switched(s, p) /\ Displayed(s, p)
    BY <1>1 DEF Sound
  <2>2. Members(u, p) = Members(s, p) \ {v}
    BY <1>1, <1>10
  <2>3. v # None
    BY <1>1, NoneFacts
  <2> QED BY Zenon, <1>1, <1>7, <1>8, <1>11, <2>1, <2>2, <2>3 DEF Switched, Displayed, Up
<1>18. PICK lost \in BOOLEAN : lost <=> u.pads[p].solo = v
  <2>1. (u.pads[p].solo = v) \in BOOLEAN
    OBVIOUS
  <2> QED BY <2>1
<1>19. PICK yes \in BOOLEAN : yes = TRUE
  OBVIOUS
<1> DEFINE X == IF s.pads[p].visible /\ (lost \/ Members(u, p) = {}) THEN {p} ELSE {}
           z == Leave(u, p, lost, yes)
<1>20. Sound(u, L, X, {v})
  <2>1. \A q \in Defined(u) \ X : Switched(u, q) /\ Displayed(u, q)
    <3>1. p \notin X => ~s.pads[p].visible \/ (s.pads[p].solo # v /\ Members(u, p) # {})
      BY <1>1, <1>11, <1>18
    <3> QED BY <1>9, <1>16, <1>17, <3>1
  <2> QED BY <1>0, <1>8, <1>13, <1>14, <1>15, <2>1 DEF Sound
<1>21. p \in X => lost \/ Members(u, p) = {}
  OBVIOUS
<1>22. X \ {p} = {} /\ (~s.pads[p].visible => X = {})
  OBVIOUS
<1> HIDE DEF X, p
<1>23. CASE s.pads[p].visible
  <2>1. Leaves(s, v) = z
    BY <1>1, <1>3, <1>11, <1>18, <1>19, <1>23
  <2>2. Offers(u, z, L, X, {v}, p)
    BY <1>1, <1>9, <1>20, <1>21, LeaveSound
  <2> HIDE DEF z
  <2>3. /\ Alike(u, z) /\ Sound(z, L, {}, {v})
        /\ \A q \in Defined(u) : z.pads[q].output = u.pads[q].output /\ z.pads[q].home = u.pads[q].home
    BY <1>22, <2>2 DEF Offers
  <2>4. /\ Entries(z) = Entries(u) /\ Defined(z) = Defined(u) /\ \A q : Members(z, q) = Members(u, q)
        /\ z.wins.mapped = u.wins.mapped /\ z.wins.parent = u.wins.parent /\ z.wins.focus = u.wins.focus
    BY <2>3, AlikeMembers
  <2>5. Departs(s, z, L, {v}, v)
    BY <1>7, <1>8, <1>9, <1>10, <1>11, <2>3, <2>4 DEF Departs
  <2> QED BY <2>1, <2>5
<1>24. CASE ~s.pads[p].visible
  <2>1. Leaves(s, v) = u
    BY <1>1, <1>3, <1>11, <1>24
  <2>2. Departs(s, u, L, {v}, v)
    BY <1>7, <1>8, <1>9, <1>10, <1>11, <1>20, <1>22, <1>24 DEF Departs
  <2> QED BY <2>1, <2>2
<1> QED BY <1>23, <1>24

\* restoreView: the window is on screen, on a workspace.
LEMMA RestoreViewSound ==
  ASSUME NEW L, NEW s, Sound(s, L, {}, {}), NEW v \in Entries(s)
  PROVE  Departs(s, RestoreView(s, v), L, {}, v) /\ v \in RestoreView(s, v).wins.shown
<1> DEFINE t == Leaves(s, v)
           w == [t.wins EXCEPT !.shown = t.wins.shown \cup {v}]
           u == RestoreView(s, v)
<1>1. Departs(s, t, L, {v}, v)
  BY LeavesSound
<1>2. u = [t EXCEPT !.wins = w]
  BY DEF RestoreView
<1> HIDE DEF t
<1>3. /\ Sound(t, L, {}, {v}) /\ t \in State(L) /\ L \in SUBSET Outputs /\ Roster(t) /\ Screen(t, {v}) /\ Alone(t)
      /\ Entries(t) = Entries(s) \ {v} /\ Defined(t) = Defined(s) /\ v \in s.wins.mapped
      /\ t.wins.mapped = s.wins.mapped
  BY <1>1 DEF Departs, Sound, Roster
<1>4. w \in Windows /\ w.mapped = t.wins.mapped /\ w.parent = t.wins.parent /\ w.entries = t.wins.entries
      /\ w.shown = t.wins.shown \cup {v} /\ w.hiding = t.wins.hiding /\ w.focus = t.wins.focus
      /\ w.noted = t.wins.noted /\ w.pad = t.wins.pad
  BY <1>3, WinFields DEF Windows
<1> HIDE DEF u, w
<1>5. u.wins = w /\ u.pads = t.pads /\ u \in State(L)
  BY <1>2, <1>3, <1>4 DEF State
<1>6. Entries(u) = Entries(t) /\ Defined(u) = Defined(t) /\ \A q : Members(u, q) = Members(t, q)
  BY <1>4, <1>5 DEF Entries, Defined, Members
<1>7. Roster(u)
  BY <1>3, <1>4, <1>5, <1>6 DEF Roster
<1>8. Screen(u, {})
  BY <1>3, <1>4, <1>5, <1>6 DEF Screen
<1>9. Alone(u)
  BY <1>3, <1>5, <1>6 DEF Alone
<1>10. ASSUME NEW q \in Defined(t) PROVE Switched(u, q) /\ Displayed(u, q)
  <2>1. Switched(t, q) /\ Displayed(t, q)
    BY <1>3 DEF Sound
  <2>2. v \notin Members(t, q)
    BY <1>3 DEF Members
  <2> QED BY <1>4, <1>5, <1>6, <2>1, <2>2 DEF Switched, Displayed, Up
<1>11. Sound(u, L, {}, {})
  BY <1>3, <1>5, <1>6, <1>7, <1>8, <1>9, <1>10 DEF Sound
<1>12. Departs(s, u, L, {}, v) /\ v \in u.wins.shown
  BY <1>1, <1>4, <1>5, <1>6, <1>11 DEF Departs
<1> QED BY <1>12 DEF u

Increasing(q) == \A i, j \in DOMAIN q : i < j => q[i] < q[j]

\* Any set of names can be listed in the order of the map.
LEMMA Ordering ==
  ASSUME NEW P \in SUBSET Names
  PROVE  \E q \in [1 .. Cardinality(P) -> P] : Increasing(q)
<1> DEFINE Sorted(S) == \E q \in [1 .. Cardinality(S) -> S] : Increasing(q)
           T == {n \in Nat : \A S \in SUBSET Names : Cardinality(S) = n => Sorted(S)}
<1>0. \A S \in SUBSET Names : IsFiniteSet(S) /\ Cardinality(S) \in Nat /\ S \in SUBSET Nat
  BY PadsAssumption, FS_Subset, FS_CardinalityType
<1>1. 0 \in T
  <2> SUFFICES ASSUME NEW S \in SUBSET Names, Cardinality(S) = 0 PROVE Sorted(S)
    BY Zenon
  <2>1. <<>> \in [1 .. 0 -> S] /\ Increasing(<<>>)
    BY DEF Increasing
  <2> QED BY <2>1
<1>2. ASSUME NEW n \in Nat \ {0}, n - 1 \in T PROVE n \in T
  <2> SUFFICES ASSUME NEW S \in SUBSET Names, Cardinality(S) = n PROVE Sorted(S)
    BY <1>2
  <2>1. S # {} /\ IsFiniteSet(S) /\ S \in SUBSET Nat
    BY <1>0, FS_EmptySet
  <2> DEFINE m == Min(S)
             R == S \ {m}
  <2>2. m \in S /\ \A y \in S : m <= y
    BY <2>1, LeastOfNat
  <2> HIDE DEF m
  <2>3. Cardinality(R) = n - 1 /\ R \in SUBSET Names
    BY <2>1, <2>2, FS_RemoveElement
  <2>4. Sorted(R)
    BY <1>2, <2>3
  <2>5. PICK r \in [1 .. (n - 1) -> R] : Increasing(r)
    BY <2>3, <2>4
  <2> DEFINE q == [i \in 1 .. n |-> IF i = 1 THEN m ELSE r[i - 1]]
  <2>6. \A i \in 1 .. n : i # 1 => i - 1 \in 1 .. (n - 1)
    OBVIOUS
  <2>7. q \in [1 .. n -> S]
    BY <2>2, <2>5, <2>6
  <2>8. Increasing(q)
    <3> SUFFICES ASSUME NEW i \in 1 .. n, NEW j \in 1 .. n, i < j PROVE q[i] < q[j]
      BY DEF Increasing
    <3>1. j # 1 /\ j - 1 \in 1 .. (n - 1) /\ q[j] = r[j - 1] /\ r[j - 1] \in R
      BY <2>5, <2>6
    <3>2. CASE i = 1
      <4>1. r[j - 1] \in S /\ r[j - 1] # m
        BY <3>1
      <4>2. m <= r[j - 1] /\ m \in Nat /\ r[j - 1] \in Nat
        BY <2>1, <2>2, <4>1
      <4>3. m < r[j - 1]
        BY <4>1, <4>2
      <4> QED BY <3>1, <3>2, <4>3
    <3>3. CASE i # 1
      <4>1. i - 1 \in 1 .. (n - 1) /\ q[i] = r[i - 1] /\ i - 1 < j - 1
        BY <2>6, <3>3
      <4>2. DOMAIN r = 1 .. (n - 1)
        BY <2>5
      <4> QED BY <2>5, <3>1, <4>1, <4>2 DEF Increasing
    <3> QED BY <3>2, <3>3
  <2> HIDE DEF q
  <2> QED BY <2>7, <2>8
<1>3. Cardinality(P) \in T
  <2>1. PICK n \in Nat : n = Cardinality(P)
    BY <1>0
  <2> HIDE DEF T
  <2>2. \A i \in 1 .. n : i - 1 \in T => i \in T
    BY <1>2
  <2>3. \A i \in 0 .. n : i \in T
    BY <1>1, <2>2, LoopInvariant
  <2> QED BY <2>1, <2>3
<1> QED BY <1>3

\* That order lists each name of the set once.
LEMMA InOrderFacts ==
  ASSUME NEW P \in SUBSET Names
  PROVE  InOrder(P) \in Seq(P) /\ IsInjective(InOrder(P)) /\ ToSet(InOrder(P)) = P
<1> DEFINE q == InOrder(P)
           n == Cardinality(P)
<1>0. IsFiniteSet(P) /\ n \in Nat /\ P \in SUBSET Nat
  BY PadsAssumption, FS_Subset, FS_CardinalityType
<1>1. q \in [1 .. n -> P] /\ \A i, j \in DOMAIN q : i < j => q[i] < q[j]
  <2>1. \E r \in [1 .. n -> P] : \A i, j \in DOMAIN r : i < j => r[i] < r[j]
    BY Ordering DEF Increasing
  <2>2. q = CHOOSE r \in [1 .. n -> P] : \A i, j \in DOMAIN r : i < j => r[i] < r[j]
    BY DEF InOrder
  <2> HIDE DEF q, n
  <2> QED BY <2>1, <2>2, Zenon
<1> HIDE DEF q
<1>2. IsInjective(q)
  <2> SUFFICES ASSUME NEW i \in 1 .. n, NEW j \in 1 .. n, i # j PROVE q[i] # q[j]
    BY <1>1 DEF IsInjective
  <2>1. q[i] \in P /\ q[j] \in P /\ i \in Int /\ j \in Int
    BY <1>0, <1>1
  <2>1a. q[i] \in Nat /\ q[j] \in Nat
    BY <1>0, <2>1
  <2>2. CASE i < j
    <3>1. q[i] < q[j]
      BY <1>1, <2>2
    <3> QED BY <2>1a, <3>1
  <2>3. CASE j < i
    <3>1. q[j] < q[i]
      BY <1>1, <2>3
    <3> QED BY <2>1a, <3>1
  <2> QED BY <2>1, <2>2, <2>3
<1>3. q \in Seq(P) /\ ToSet(q) = P
  BY <1>0, <1>1, <1>2, Listing
<1> QED BY <1>2, <1>3 DEF q

-----------------------------------------------------------------------------
(* The loops of the overview and of a reload.                              *)

\* Leaving a pad is an act like another.
LEMMA DepartsActed ==
  ASSUME NEW L, NEW s, NEW t, NEW v, Departs(s, t, L, {}, v), s.wins.focus \in s.wins.mapped \cup {None}
  PROVE  Acted(s, t, L)
<1>1. Homed(s, t)
  BY DEF Departs, Homed
<1>2. Defined(t) \subseteq Names
  BY DEF Defined
<1>3. Housed(s, t)
  BY <1>2 DEF Departs, Housed
<1> QED BY <1>1, <1>3 DEF Departs, Acted

\* So is hiding one.
LEMMA HidesActed ==
  ASSUME NEW L, NEW s, Sound(s, L, {}, {}), s.wins.focus \in s.wins.mapped \cup {None}, NEW p \in Defined(s),
         NEW animate \in BOOLEAN
  PROVE  Acted(s, SetVisible(s, p, FALSE, animate), L) /\ Hides(s, SetVisible(s, p, FALSE, animate), L, {}, {}, p)
<1> DEFINE t == SetVisible(s, p, FALSE, animate)
<1>1. Hides(s, t, L, {}, {}, p)
  BY SetHiddenSound
<1> HIDE DEF t
<1>2. Defined(s) \subseteq Names /\ p # None /\ {} \ {p} = {}
  BY NoneFacts DEF Defined
<1>3. Alike(s, t) /\ Sound(t, L, {}, {}) /\ Homed(s, t)
  BY <1>1, <1>2 DEF Hides, Homed
<1>4. Acted(s, t, L)
  BY <1>3, AlikeActed
<1> QED BY <1>1, <1>4 DEF t

HideStep(s, p) == SetVisible(s, p, FALSE, FALSE)

HideFold == INSTANCE FoldLemmas WITH Op <- LAMBDA a, b, s, p : HideStep(s, p)

\* And doing nothing.
LEMMA ActedReflexive ==
  ASSUME NEW L, NEW s, Sound(s, L, {}, {}), s.wins.focus \in s.wins.mapped \cup {None} PROVE Acted(s, s, L)
BY StaysReflexive, StaysActed

\* Pads hidden one after the other.
LEMMA HideAllActed ==
  ASSUME NEW L, NEW s, Sound(s, L, {}, {}), s.wins.focus \in s.wins.mapped \cup {None},
         NEW q \in Seq(Defined(s))
  PROVE  Acted(s, FoldLeft(LAMBDA t, p : SetVisible(t, p, FALSE, FALSE), s, q), L)
<1>wellordered. HideFold!WellOrdered
  BY NatLeast DEF HideFold!WellOrdered
<1>1. PICK after :
        /\ after[0] = s
        /\ \A i \in 1 .. Len(q) : after[i] = HideStep(after[i - 1], q[i])
        /\ HideFold!Result(None, None, s, q) = after[Len(q)]
  BY <1>wellordered, HideFold!Folded
<1>2. FoldLeft(LAMBDA t, p : SetVisible(t, p, FALSE, FALSE), s, q) = HideFold!Result(None, None, s, q)
  BY Zenon DEF HideStep, FoldLeft, MapThenFoldSet, Max, HideFold!MapThenFoldSet, HideFold!Greatest,
               HideFold!Result
<1> SUFFICES Acted(s, after[Len(q)], L)
  BY <1>1, <1>2, Zenon
<1> DEFINE T == {i \in 0 .. Len(q) : Acted(s, after[i], L)}
<1>3. Len(q) \in Nat /\ \A i \in 1 .. Len(q) : q[i] \in Defined(s)
  OBVIOUS
<1>4. 0 \in T
  BY <1>1, <1>3, ActedReflexive
<1>5. ASSUME NEW i \in 1 .. Len(q), i - 1 \in T PROVE i \in T
  <2>1. Acted(s, after[i - 1], L) /\ q[i] \in Defined(s)
    BY <1>3, <1>5
  <2>2. PICK a, p, b : a = after[i - 1] /\ p = q[i] /\ b = after[i]
    OBVIOUS
  <2>3. /\ Sound(a, L, {}, {}) /\ a.wins.focus \in a.wins.mapped \cup {None} /\ p \in Defined(a) /\ Acted(s, a, L)
    BY <2>1, <2>2 DEF Acted
  <2>4. PICK n \in BOOLEAN : n = FALSE
    OBVIOUS
  <2>5. b = SetVisible(a, p, FALSE, n)
    BY <1>1, <2>2, <2>4 DEF HideStep
  <2>6. Acted(a, SetVisible(a, p, FALSE, n), L)
    BY <2>3, HidesActed
  <2>7. Acted(a, b, L)
    BY <2>5, <2>6
  <2>8. Acted(s, b, L)
    BY <2>3, <2>7, ActedTransitive
  <2> QED BY <2>2, <2>8
<1>6. Len(q) \in T
  <2> HIDE DEF T
  <2>1. PICK n \in Nat : n = Len(q)
    BY <1>3
  <2>2. \A i \in 0 .. n : i \in T
    BY <1>4, <1>5, <2>1, LoopInvariant
  <2> QED BY <2>1, <2>2
<1> QED BY <1>6

\* Windows that have gone back to a workspace, one after the other.
Empties(s, t, L, P) ==
  /\ Sound(t, L, {}, {}) /\ Defined(t) = Defined(s) /\ \A r \in Names : Members(t, r) = Members(s, r) \ P
  /\ \A r \in Defined(s) : t.pads[r].output = s.pads[r].output /\ t.pads[r].home = s.pads[r].home
  /\ t.wins.mapped = s.wins.mapped /\ t.wins.focus = s.wins.focus

RestoreFold == INSTANCE FoldLemmas WITH Op <- LAMBDA a, b, s, v : RestoreView(s, v)

\* All members leave a pad that goes away, one after the other.
LEMMA RestoredSound ==
  ASSUME NEW L, NEW s, Sound(s, L, {}, {}), NEW p \in Defined(s)
  PROVE  /\ Empties(s, FoldLeft(RestoreView, s, MembersInOrder(s, p)), L, Members(s, p))
         /\ Members(s, p) = {} => FoldLeft(RestoreView, s, MembersInOrder(s, p)) = s
<1> DEFINE q == MembersInOrder(s, p)
<1>0. s \in State(L) /\ L \in SUBSET Outputs /\ Roster(s)
  BY DEF Sound
<1>1. q \in Seq(Views) /\ ToSet(q) = Members(s, p) /\ IsInjective(q)
  <2>1. s.wins.entries \in Seq(Views) /\ Members(s, p) \subseteq ToSet(s.wins.entries)
    BY <1>0, EntriesFacts DEF Entries
  <2>2. IsInjective(s.wins.entries)
    BY <1>0 DEF Roster
  <2>3. q = Kept(s.wins.entries, Members(s, p))
    BY DEF MembersInOrder
  <2> HIDE DEF q
  <2>4. q \in Seq(Views) /\ ToSet(q) = ToSet(s.wins.entries) \cap Members(s, p) /\ IsInjective(q)
    BY <2>1, <2>2, <2>3, KeptFacts
  <2> QED BY <2>1, <2>4
<1>wellordered. RestoreFold!WellOrdered
  BY NatLeast DEF RestoreFold!WellOrdered
<1>2. PICK after :
        /\ after[0] = s
        /\ \A i \in 1 .. Len(q) : after[i] = RestoreView(after[i - 1], q[i])
        /\ RestoreFold!Result(None, None, s, q) = after[Len(q)]
  <2> HIDE DEF q
  <2> QED BY <1>1, <1>wellordered, RestoreFold!Folded
<1>3. FoldLeft(RestoreView, s, q) = RestoreFold!Result(None, None, s, q)
  BY Zenon DEF FoldLeft, MapThenFoldSet, Max, RestoreFold!MapThenFoldSet, RestoreFold!Greatest,
               RestoreFold!Result
<1> SUFFICES Empties(s, after[Len(q)], L, Members(s, p)) /\ (Members(s, p) = {} => after[Len(q)] = s)
  BY <1>2, <1>3
<1> HIDE DEF q
<1> DEFINE Past(i) == {q[j] : j \in 1 .. i}
           T == {i \in 0 .. Len(q) : Empties(s, after[i], L, Past(i))}
<1>4. Len(q) \in Nat /\ DOMAIN q = 1 .. Len(q) /\ \A i \in 1 .. Len(q) : q[i] \in Members(s, p)
  BY <1>1 DEF ToSet
<1>5. 0 \in T
  <2>1. Past(0) = {}
    OBVIOUS
  <2>2. Empties(s, s, L, {})
    BY DEF Empties
  <2> HIDE DEF Past
  <2>3. Empties(s, after[0], L, Past(0))
    BY <1>2, <2>1, <2>2, Zenon
  <2> QED BY <1>4, <2>3
<1>6. ASSUME NEW i \in 1 .. Len(q), i - 1 \in T PROVE i \in T
  <2>1. Empties(s, after[i - 1], L, Past(i - 1))
    BY <1>6
  <2>2. PICK a, v, b : a = after[i - 1] /\ v = q[i] /\ b = after[i]
    OBVIOUS
  <2>3. Past(i) = Past(i - 1) \cup {v} /\ v \notin Past(i - 1) /\ v \in Members(s, p)
    <3>1. 1 .. i = (1 .. (i - 1)) \cup {i}
      BY <1>4
    <3>2. \A j \in 1 .. (i - 1) : j \in 1 .. Len(q) /\ j # i
      BY <1>4
    <3>3. \A j \in 1 .. (i - 1) : q[j] # q[i]
      BY <1>1, <1>4, <3>2 DEF IsInjective
    <3> QED BY <1>4, <2>2, <3>1, <3>3
  <2> HIDE DEF Past
  <2>4. Empties(s, a, L, Past(i - 1)) /\ p \in Names
    BY <2>1, <2>2 DEF Defined
  <2>5. Sound(a, L, {}, {}) /\ v \in Entries(a)
    <3>1. Sound(a, L, {}, {}) /\ v \in Members(a, p)
      BY <2>3, <2>4 DEF Empties
    <3> QED BY <3>1 DEF Members
  <2>6. Departs(a, RestoreView(a, v), L, {}, v)
    BY <2>5, RestoreViewSound
  <2>7. Departs(a, b, L, {}, v)
    BY <1>2, <2>2, <2>6
  <2>8. Empties(s, b, L, Past(i - 1) \cup {v})
    BY <2>4, <2>7 DEF Empties, Departs
  <2>9. Empties(s, after[i], L, Past(i))
    BY <2>2, <2>3, <2>8, Zenon
  <2> QED BY <2>9
<1>7. Len(q) \in T
  <2> HIDE DEF T
  <2>1. PICK n \in Nat : n = Len(q)
    BY <1>4
  <2>2. \A i \in 0 .. n : i \in T
    BY <1>5, <1>6, <2>1, LoopInvariant
  <2> QED BY <2>1, <2>2
<1>8. Past(Len(q)) = Members(s, p)
  BY <1>1, <1>4 DEF ToSet
<1>9. Members(s, p) = {} => Len(q) = 0
  BY <1>4
<1> HIDE DEF Past
<1> QED BY <1>2, <1>7, <1>8, <1>9

\* A pad that a reload took away: its windows are on a workspace, and nobody
\* else noticed.
Undefines(s, t, L, P) ==
  /\ Sound(t, L, {}, {}) /\ t.wins.focus \in t.wins.mapped \cup {None} /\ Defined(t) = Defined(s) \ P
  /\ \A r \in Defined(t) : /\ t.pads[r].output = s.pads[r].output /\ t.pads[r].home = s.pads[r].home
                           /\ Members(t, r) = Members(s, r)
  /\ (\A r \in P : Members(s, r) = {}) => t.wins = s.wins

\* reconcileConfig takes one pad away.
LEMMA UndefineSound ==
  ASSUME NEW L, NEW s, Sound(s, L, {}, {}), s.wins.focus \in s.wins.mapped \cup {None}, NEW p \in Defined(s)
  PROVE  Undefines(s, Undefine(s, p), L, {p})
<1> DEFINE h == IF s.pads[p].visible THEN SetVisible(s, p, FALSE, FALSE) ELSE s
           t == FoldLeft(RestoreView, h, MembersInOrder(h, p))
           u == [t EXCEPT !.pads[p] = None]
<1>0. Undefine(s, p) = u
  BY DEF Undefine
<1>1. /\ Alike(s, h) /\ Sound(h, L, {}, {})
      /\ \A q \in Defined(s) : h.pads[q].output = s.pads[q].output /\ h.pads[q].home = s.pads[q].home
      /\ ~s.pads[p].visible => h = s
  <2>1. CASE s.pads[p].visible
    <3>1. PICK no \in BOOLEAN : no = FALSE
      OBVIOUS
    <3> DEFINE g == SetVisible(s, p, FALSE, no)
    <3>2. h = g
      BY <2>1, <3>1
    <3>3. Hides(s, g, L, {}, {}, p)
      BY HidesActed
    <3> HIDE DEF g
    <3>4. Defined(s) \subseteq Names /\ p # None /\ {} \ {p} = {}
      BY NoneFacts DEF Defined
    <3>5. /\ Alike(s, g) /\ Sound(g, L, {}, {})
          /\ \A q \in Defined(s) : g.pads[q].output = s.pads[q].output /\ g.pads[q].home = s.pads[q].home
      BY <3>3, <3>4 DEF Hides
    <3> QED BY <2>1, <3>2, <3>5
  <2>2. CASE ~s.pads[p].visible
    BY <2>2, AlikeReflexive
  <2> QED BY <2>1, <2>2
<1> HIDE DEF h
<1>2. Defined(h) = Defined(s) /\ (\A q : Members(h, q) = Members(s, q)) /\ h.wins.focus = s.wins.focus
      /\ h.wins.mapped = s.wins.mapped
  BY <1>1, AlikeMembers
<1>3. Empties(h, t, L, Members(h, p)) /\ (Members(h, p) = {} => t = h)
  BY <1>1, <1>2, RestoredSound
<1> HIDE DEF t
<1>4. /\ Sound(t, L, {}, {}) /\ t.wins.focus \in t.wins.mapped \cup {None} /\ Defined(t) = Defined(s)
      /\ Members(t, p) = {} /\ \A r \in Names \ {p} : Members(t, r) = Members(s, r)
      /\ \A r \in Defined(s) : t.pads[r].output = s.pads[r].output /\ t.pads[r].home = s.pads[r].home
  <2>1. /\ Sound(t, L, {}, {}) /\ t.wins.focus \in t.wins.mapped \cup {None} /\ Defined(t) = Defined(s)
        /\ \A r \in Names : Members(t, r) = Members(s, r) \ Members(s, p)
        /\ \A r \in Defined(s) : t.pads[r].output = s.pads[r].output /\ t.pads[r].home = s.pads[r].home
    BY <1>1, <1>2, <1>3 DEF Empties
  <2>2. \A r \in Names \ {p} : Members(s, r) \cap Members(s, p) = {}
    BY DEF Members
  <2>3. p \in Names
    BY DEF Defined
  <2> QED BY <2>1, <2>2, <2>3
<1>5. Members(s, p) = {} => t.wins = s.wins
  <2>1. Members(s, p) = {} => ~s.pads[p].visible
    BY DEF Sound, Switched
  <2> QED BY <1>1, <1>2, <1>3, <2>1
<1>6. t \in State(L) /\ L \in SUBSET Outputs /\ Roster(t) /\ Screen(t, {}) /\ Alone(t)
  BY <1>4 DEF Sound
<1>7. u \in State(L) /\ u.wins = t.wins /\ \A r \in Names : u.pads[r] = IF r = p THEN None ELSE t.pads[r]
  BY <1>6 DEF State
<1> HIDE DEF u
<1>8. /\ Entries(u) = Entries(t) /\ (\A q : Members(u, q) = Members(t, q)) /\ Defined(u) = Defined(t) \ {p}
      /\ \A r \in Defined(u) : u.pads[r] = t.pads[r]
  BY <1>7 DEF Entries, Members, Defined
<1>9. Roster(u)
  <2>1. \A v \in Entries(t) : t.wins.pad[v] \in Defined(t) \ {p}
    BY <1>4, <1>6 DEF Roster, Members
  <2> QED BY <1>6, <1>7, <1>8, <2>1 DEF Roster
<1>10. Screen(u, {}) /\ Alone(u)
  BY <1>6, <1>7, <1>8 DEF Screen, Alone
<1>11. \A r \in Defined(u) : Switched(u, r) /\ Displayed(u, r)
  <2>1. \A r \in Defined(t) : Switched(t, r) /\ Displayed(t, r)
    BY <1>4 DEF Sound
  <2> QED BY <1>7, <1>8, <2>1 DEF Switched, Displayed, Up
<1>12. Sound(u, L, {}, {})
  BY <1>6, <1>7, <1>9, <1>10, <1>11 DEF Sound
<1>13. Defined(u) \subseteq Names \ {p}
  BY <1>8 DEF Defined
<1>14. Undefines(s, u, L, {p})
  BY <1>4, <1>5, <1>7, <1>8, <1>12, <1>13 DEF Undefines
<1> QED BY <1>0, <1>14

UndefineFold == INSTANCE FoldLemmas WITH Op <- LAMBDA a, b, s, p : Undefine(s, p)

\* reconcileConfig takes all pads away that are not declared any more.
LEMMA AllUndefined ==
  ASSUME NEW L, NEW s, Sound(s, L, {}, {}), s.wins.focus \in s.wins.mapped \cup {None}, NEW P \in SUBSET Defined(s)
  PROVE  Undefines(s, FoldLeft(Undefine, s, InOrder(P)), L, P)
<1> DEFINE q == InOrder(P)
<1>1. q \in Seq(P) /\ ToSet(q) = P /\ IsInjective(q)
  <2>1. P \in SUBSET Names
    BY DEF Defined
  <2> QED BY <2>1, InOrderFacts
<1>wellordered. UndefineFold!WellOrdered
  BY NatLeast DEF UndefineFold!WellOrdered
<1>2. PICK after :
        /\ after[0] = s
        /\ \A i \in 1 .. Len(q) : after[i] = Undefine(after[i - 1], q[i])
        /\ UndefineFold!Result(None, None, s, q) = after[Len(q)]
  <2> HIDE DEF q
  <2> QED BY <1>1, <1>wellordered, UndefineFold!Folded
<1>3. FoldLeft(Undefine, s, q) = UndefineFold!Result(None, None, s, q)
  BY Zenon DEF FoldLeft, MapThenFoldSet, Max, UndefineFold!MapThenFoldSet, UndefineFold!Greatest,
               UndefineFold!Result
<1> SUFFICES Undefines(s, after[Len(q)], L, P)
  BY <1>2, <1>3, Zenon
<1> HIDE DEF q
<1> DEFINE Past(i) == {q[j] : j \in 1 .. i}
           T == {i \in 0 .. Len(q) : Undefines(s, after[i], L, Past(i))}
<1>4. Len(q) \in Nat /\ DOMAIN q = 1 .. Len(q) /\ \A i \in 1 .. Len(q) : q[i] \in P
  BY <1>1
<1>5. 0 \in T
  <2>1. Past(0) = {}
    OBVIOUS
  <2>2. Undefines(s, s, L, {})
    BY DEF Undefines
  <2> HIDE DEF Past
  <2>3. Undefines(s, after[0], L, Past(0))
    BY <1>2, <2>1, <2>2, Zenon
  <2> QED BY <1>4, <2>3
<1>6. ASSUME NEW i \in 1 .. Len(q), i - 1 \in T PROVE i \in T
  <2>1. Undefines(s, after[i - 1], L, Past(i - 1))
    BY <1>6
  <2>2. PICK a, p, b : a = after[i - 1] /\ p = q[i] /\ b = after[i]
    OBVIOUS
  <2>3. Past(i) = Past(i - 1) \cup {p} /\ p \notin Past(i - 1) /\ p \in Defined(s) /\ Past(i - 1) \subseteq P
    <3>1. 1 .. i = (1 .. (i - 1)) \cup {i}
      BY <1>4
    <3>2. \A j \in 1 .. (i - 1) : j \in 1 .. Len(q) /\ j # i
      BY <1>4
    <3>3. \A j \in 1 .. (i - 1) : q[j] # q[i]
      BY <1>1, <1>4, <3>2 DEF IsInjective
    <3> QED BY <1>4, <2>2, <3>1, <3>2, <3>3
  <2> HIDE DEF Past
  <2>4. Undefines(s, a, L, Past(i - 1))
    BY <2>1, <2>2
  <2>5. Sound(a, L, {}, {}) /\ a.wins.focus \in a.wins.mapped \cup {None} /\ p \in Defined(a)
    BY <2>3, <2>4 DEF Undefines
  <2>6. Undefines(a, Undefine(a, p), L, {p})
    BY <2>5, UndefineSound
  <2>7. Undefines(a, b, L, {p})
    BY <1>2, <2>2, <2>6
  <2>8. Undefines(s, b, L, Past(i - 1) \cup {p})
    <3>1. Members(a, p) = Members(s, p)
      BY <2>4, <2>5 DEF Undefines
    <3> QED BY <2>4, <2>5, <2>7, <3>1 DEF Undefines
  <2>9. Undefines(s, after[i], L, Past(i))
    BY <2>2, <2>3, <2>8, Zenon
  <2> QED BY <2>9
<1>7. Len(q) \in T
  <2> HIDE DEF T
  <2>1. PICK n \in Nat : n = Len(q)
    BY <1>4
  <2>2. \A i \in 0 .. n : i \in T
    BY <1>5, <1>6, <2>1, LoopInvariant
  <2> QED BY SMTT(30), <2>1, <2>2
<1>8. Past(Len(q)) = P
  BY <1>1, <1>4 DEF ToSet
<1>9. Undefines(s, after[Len(q)], L, Past(Len(q)))
  BY <1>7
<1> HIDE DEF Past
<1> QED BY <1>8, <1>9, Zenon

\* The pads of the new configuration, those it adds included.
Reconciled(s, names) ==
  LET t == FoldLeft(Undefine, s, InOrder(Defined(s) \ names))
  IN [t EXCEPT !.pads = [p \in Names |-> IF p \in names /\ @[p] = None THEN Fresh ELSE @[p]]]

Reconciles(s, u, L, names) ==
  /\ Sound(u, L, {}, {}) /\ u.wins.focus \in u.wins.mapped \cup {None} /\ Defined(u) = names
  /\ \A r \in names \cap Defined(s) : /\ u.pads[r].output = s.pads[r].output /\ u.pads[r].home = s.pads[r].home
                                      /\ Members(u, r) = Members(s, r)
  /\ \A r \in names \ Defined(s) : u.pads[r] = Fresh /\ Members(u, r) = {}
  /\ (\A r \in Defined(s) \ names : Members(s, r) = {}) => u.wins = s.wins

\* reconcileConfig: those that are declared are there, as they were or fresh.
LEMMA ReconciledSound ==
  ASSUME NEW L, NEW s, Sound(s, L, {}, {}), s.wins.focus \in s.wins.mapped \cup {None}, NEW names \in SUBSET Names
  PROVE  Reconciles(s, Reconciled(s, names), L, names)
<1> DEFINE gone == Defined(s) \ names
           t == FoldLeft(Undefine, s, InOrder(gone))
           u == [t EXCEPT !.pads = [p \in Names |-> IF p \in names /\ @[p] = None THEN Fresh ELSE @[p]]]
<1>0. Reconciled(s, names) = u
  BY DEF Reconciled
<1>1. Undefines(s, t, L, gone)
  BY AllUndefined
<1> HIDE DEF t
<1>2. /\ Sound(t, L, {}, {}) /\ t.wins.focus \in t.wins.mapped \cup {None} /\ Defined(t) = Defined(s) \cap names
      /\ \A r \in Defined(t) : /\ t.pads[r].output = s.pads[r].output /\ t.pads[r].home = s.pads[r].home
                               /\ Members(t, r) = Members(s, r)
      /\ (\A r \in gone : Members(s, r) = {}) => t.wins = s.wins
  BY <1>1 DEF Undefines
<1>3. t \in State(L) /\ L \in SUBSET Outputs /\ Roster(t) /\ Screen(t, {}) /\ Alone(t)
  BY <1>2 DEF Sound
<1>4. Fresh \in PadOn(L) /\ Fresh # None
  <2>1. Fresh \in PadOn(L)
    BY DEF Fresh, PadOn
  <2> QED BY <1>3, <2>1, PadOnFacts
<1>5. /\ u.wins = t.wins
      /\ \A r \in Names : u.pads[r] = IF r \in names /\ t.pads[r] = None THEN Fresh ELSE t.pads[r]
  BY <1>3 DEF State
<1>6. u \in State(L)
  BY <1>3, <1>4 DEF State
<1> HIDE DEF u
<1>7. /\ Entries(u) = Entries(t) /\ (\A r : Members(u, r) = Members(t, r))
      /\ Defined(u) = names
      /\ \A r \in Defined(t) : u.pads[r] = t.pads[r]
      /\ \A r \in names \ Defined(t) : u.pads[r] = Fresh
  BY <1>2, <1>4, <1>5 DEF Entries, Members, Defined
<1>8. \A r \in names \ Defined(t) : Members(t, r) = {}
  BY <1>3 DEF Roster, Members
<1>9. Roster(u)
  <2>1. Fresh.last = None
    BY DEF Fresh
  <2> QED BY <1>2, <1>3, <1>5, <1>7, <2>1 DEF Roster
<1>10. Screen(u, {})
  BY <1>3, <1>5, <1>7 DEF Screen
<1>11. Alone(u)
  <2>1. ~Fresh.visible
    BY DEF Fresh
  <2> QED BY <1>2, <1>3, <1>7, <2>1 DEF Alone
<1>12. ASSUME NEW r \in names PROVE Switched(u, r) /\ Displayed(u, r)
  <2>1. CASE r \in Defined(t)
    <3>1. Switched(t, r) /\ Displayed(t, r)
      BY <1>2, <2>1 DEF Sound
    <3> QED BY <1>5, <1>7, <2>1, <3>1 DEF Switched, Displayed, Up
  <2>2. CASE r \notin Defined(t)
    <3>1. u.pads[r] = Fresh /\ Members(u, r) = {}
      BY <1>7, <1>8, <2>2
    <3> QED BY <3>1 DEF Switched, Displayed, Fresh
  <2> QED BY <2>1, <2>2
<1>13. Sound(u, L, {}, {})
  BY <1>3, <1>6, <1>7, <1>9, <1>10, <1>11, <1>12 DEF Sound
<1>14. Reconciles(s, u, L, names)
  BY <1>2, <1>5, <1>7, <1>8, <1>13 DEF Reconciles
<1> QED BY <1>0, <1>14

-----------------------------------------------------------------------------
(* Outputs that come and go.                                               *)

\* The pads of P went from one output to another, and remember where they
\* were first.
Displaces(s, t, L, P, from, to) ==
  /\ Sound(t, L, {}, {}) /\ Alike(s, t)
  /\ \A r \in Defined(s) :
       /\ t.pads[r].output = IF r \in P THEN to ELSE s.pads[r].output
       /\ t.pads[r].home = IF r \in P /\ s.pads[r].home = None THEN from ELSE s.pads[r].home

WithHome(s, p, home) == [s EXCEPT !.pads[p].home = home]

\* Where a pad came from is nobody's display.
LEMMA HomeChanged ==
  ASSUME NEW L, NEW s, Sound(s, L, {}, {}), NEW p \in Defined(s), NEW home \in Outputs \cup {None}
  PROVE  LET t == WithHome(s, p, home)
         IN /\ Alike(s, t) /\ Sound(t, L, {}, {}) /\ t.wins = s.wins
            /\ \A q \in Names \ {p} : t.pads[q] = s.pads[q]
            /\ t.pads[p].output = s.pads[p].output /\ t.pads[p].home = home
<1> DEFINE pad == s.pads[p]
           r == [pad EXCEPT !.home = home]
           t == WithHome(s, p, home)
<1>0. s \in State(L) /\ L \in SUBSET Outputs /\ Roster(s)
  BY DEF Sound
<1>1. pad \in PadOn(L) /\ p \in Names /\ pad.last \in Members(s, p) \cup {None}
  BY <1>0, PadFields DEF Roster
<1>2. r \in PadOn(L) /\ r.visible = pad.visible /\ r.output = pad.output /\ r.last = pad.last
      /\ r.solo = pad.solo /\ r.spawn = pad.spawn /\ r.home = home
  BY <1>1 DEF PadOn
<1>3. t.wins = s.wins /\ \A q \in Names \ {p} : t.pads[q] = s.pads[q]
  BY <1>0, <1>1 DEF State, WithHome
<1>4. t.pads[p] = r
  BY <1>0, <1>1 DEF State, PadOn, WithHome
<1>5. t \in State(L) /\ r # None
  BY <1>0, <1>2, <1>4, PadOnFacts DEF State, WithHome
<1> HIDE DEF r, t
<1>6. Alike(s, t) /\ Sound(t, L, {}, {})
  BY <1>1, <1>2, <1>3, <1>4, <1>5, PadTouched
<1> QED BY <1>2, <1>3, <1>4, <1>6 DEF t

\* One turn of the loop of moveOutput.
Displace(s, p, from, to) ==
  MoveScratchpad([s EXCEPT !.pads[p].home = IF @ = None THEN from ELSE @], p, to, FALSE)

\* moveOutput moves one pad: where it was first is its home.
LEMMA DisplaceSound ==
  ASSUME NEW L, NEW s, Sound(s, L, {}, {}), NEW p \in Defined(s), NEW from \in Outputs, NEW to \in L \cup {None}
  PROVE  Displaces(s, Displace(s, p, from, to), L, {p}, from, to)
<1> DEFINE home == IF s.pads[p].home = None THEN from ELSE s.pads[p].home
           u == WithHome(s, p, home)
<1>0. home \in Outputs \cup {None}
  BY PadFields DEF Sound
<1>1. PICK no \in BOOLEAN : no = FALSE
  OBVIOUS
<1> DEFINE t == MoveScratchpad(u, p, to, no)
<1>2. Displace(s, p, from, to) = t
  BY <1>1 DEF Displace, WithHome
<1>3. /\ Alike(s, u) /\ Sound(u, L, {}, {}) /\ (\A q \in Names \ {p} : u.pads[q] = s.pads[q])
      /\ u.pads[p].output = s.pads[p].output /\ u.pads[p].home = home
  <2> HIDE DEF home
  <2> QED BY <1>0, HomeChanged
<1> HIDE DEF u
<1>4. p \in Defined(u) /\ Switched(u, p)
  BY <1>3, AlikeMembers DEF Sound
<1>5. Moves(u, t, L, {}, {}, p, to, no)
  BY <1>3, <1>4, MoveSound
<1> HIDE DEF t
<1>6. /\ Alike(s, t) /\ Sound(t, L, {}, {}) /\ t.pads[p].output = to /\ t.pads[p].home = home
      /\ Settled(u, t, p)
  BY <1>1, <1>3, <1>5, AlikeTransitive DEF Moves
<1>7. Settled(s, t, p)
  BY <1>3, <1>6, OthersSettled, SettledTransitive
<1>8. Displaces(s, t, L, {p}, from, to)
  BY <1>6, <1>7 DEF Displaces, Settled
<1> QED BY <1>2, <1>8

DisplaceFold == INSTANCE FoldLemmas WITH Op <- LAMBDA a, b, s, p : Displace(s, p, a, b)

\* moveOutput moves all pads of an output, one after the other.
LEMMA MoveOutputSound ==
  ASSUME NEW L, NEW s, Sound(s, L, {}, {}), NEW from \in Outputs, NEW to \in L \cup {None}
  PROVE  Displaces(s, MoveOutput(s, from, to), L, {p \in Defined(s) : s.pads[p].output = from}, from, to)
<1> DEFINE P == {p \in Defined(s) : s.pads[p].output = from}
           q == InOrder(P)
<1>1. q \in Seq(P) /\ ToSet(q) = P /\ IsInjective(q)
  <2>1. P \in SUBSET Names
    BY DEF Defined
  <2> HIDE DEF P
  <2> QED BY <2>1, InOrderFacts
<1>wellordered. DisplaceFold!WellOrdered
  BY NatLeast DEF DisplaceFold!WellOrdered
<1>2. PICK after :
        /\ after[0] = s
        /\ \A i \in 1 .. Len(q) : after[i] = Displace(after[i - 1], q[i], from, to)
        /\ DisplaceFold!Result(from, to, s, q) = after[Len(q)]
  <2> HIDE DEF q
  <2> QED BY <1>1, <1>wellordered, DisplaceFold!Folded
<1>3. MoveOutput(s, from, to) = DisplaceFold!Result(from, to, s, q)
  BY Zenon DEF MoveOutput, Displace, FoldLeft, MapThenFoldSet, Max, DisplaceFold!MapThenFoldSet,
               DisplaceFold!Greatest, DisplaceFold!Result
<1> SUFFICES Displaces(s, after[Len(q)], L, P, from, to)
  BY <1>2, <1>3, Zenon
<1> HIDE DEF q
<1> DEFINE Past(i) == {q[j] : j \in 1 .. i}
           T == {i \in 0 .. Len(q) : Displaces(s, after[i], L, Past(i), from, to)}
<1>4. Len(q) \in Nat /\ DOMAIN q = 1 .. Len(q) /\ (\A i \in 1 .. Len(q) : q[i] \in P) /\ P \subseteq Defined(s)
  BY <1>1
<1> HIDE DEF P
<1>5. 0 \in T
  <2>1. Past(0) = {}
    OBVIOUS
  <2>2. Displaces(s, s, L, {}, from, to)
    BY AlikeReflexive DEF Displaces
  <2> HIDE DEF Past
  <2>3. Displaces(s, after[0], L, Past(0), from, to)
    BY <1>2, <2>1, <2>2, Zenon
  <2> QED BY <1>4, <2>3
<1>6. ASSUME NEW i \in 1 .. Len(q), i - 1 \in T PROVE i \in T
  <2>1. Displaces(s, after[i - 1], L, Past(i - 1), from, to)
    BY <1>6
  <2>2. PICK a, p, b : a = after[i - 1] /\ p = q[i] /\ b = after[i]
    OBVIOUS
  <2>3. Past(i) = Past(i - 1) \cup {p} /\ p \notin Past(i - 1) /\ p \in Defined(s)
    <3>1. 1 .. i = (1 .. (i - 1)) \cup {i}
      BY <1>4
    <3>2. \A j \in 1 .. (i - 1) : j \in 1 .. Len(q) /\ j # i
      BY <1>4
    <3>3. \A j \in 1 .. (i - 1) : q[j] # q[i]
      BY <1>1, <1>4, <3>2 DEF IsInjective
    <3> QED BY <1>4, <2>2, <3>1, <3>2, <3>3
  <2> HIDE DEF Past
  <2>4. Displaces(s, a, L, Past(i - 1), from, to)
    BY <2>1, <2>2
  <2>5. Sound(a, L, {}, {}) /\ p \in Defined(a)
    BY <2>3, <2>4 DEF Displaces, Alike
  <2>6. Displaces(a, Displace(a, p, from, to), L, {p}, from, to)
    BY <2>5, DisplaceSound
  <2>7. Displaces(a, b, L, {p}, from, to)
    BY <1>2, <2>2, <2>6
  <2>8. Displaces(s, b, L, Past(i - 1) \cup {p}, from, to)
    <3>1. Alike(s, b) /\ Defined(a) = Defined(s)
      BY <2>4, <2>7, AlikeTransitive, AlikeMembers DEF Displaces
    <3> QED BY <2>3, <2>4, <2>7, <3>1 DEF Displaces
  <2>9. Displaces(s, after[i], L, Past(i), from, to)
    BY <2>2, <2>3, <2>8, Zenon
  <2> QED BY <2>9
<1>7. Len(q) \in T
  <2> HIDE DEF T
  <2>1. PICK n \in Nat : n = Len(q)
    BY <1>4
  <2>2. \A i \in 0 .. n : i \in T
    BY <1>5, <1>6, <2>1, LoopInvariant
  <2> QED BY <2>1, <2>2
<1>8. Past(Len(q)) = P
  BY <1>1, <1>4 DEF ToSet
<1>9. Displaces(s, after[Len(q)], L, Past(Len(q)), from, to)
  BY <1>7
<1> HIDE DEF Past
<1> QED BY <1>8, <1>9, Zenon

ReleaseStep(s, p) == MoveScratchpad(s, p, None, FALSE)

ReleaseFold == INSTANCE FoldLemmas WITH Op <- LAMBDA a, b, s, p : ReleaseStep(s, p)

\* releaseOutput, once the pads have left: nothing points at the output.
Releases(s, t, L) ==
  /\ Sound(t, L, {}, {}) /\ Alike(s, t) /\ t.wins = s.wins
  /\ \A r \in Defined(s) : t.pads[r].output = s.pads[r].output /\ t.pads[r].home = s.pads[r].home

\* releaseOutput forgets the output, if moveOutput left no pad on it.
LEMMA ReleaseSound ==
  ASSUME NEW L, NEW s, Sound(s, L, {}, {}), NEW o, \A p \in Defined(s) : s.pads[p].output # o
  PROVE  Releases(s, ReleaseOutput(s, o), L \ {o})
<1> DEFINE f == [p \in Names |-> IF s.pads[p] # None /\ s.pads[p].spawn # None /\ s.pads[p].spawn.output = o
                                 THEN [s.pads[p] EXCEPT !.spawn = None] ELSE s.pads[p]]
           t == [s EXCEPT !.pads = [p \in Names |->
                   IF @[p] # None /\ @[p].spawn # None /\ @[p].spawn.output = o
                   THEN [@[p] EXCEPT !.spawn = None] ELSE @[p]]]
           P == {p \in Defined(s) : s.pads[p].output = o}
           q == InOrder(P)
<1>0. s \in State(L) /\ L \in SUBSET Outputs /\ Roster(s) /\ Screen(s, {}) /\ Alone(s)
  BY DEF Sound
<1>1. ReleaseOutput(s, o) = FoldLeft(LAMBDA u, p : MoveScratchpad(u, p, None, FALSE), t, q)
  BY DEF ReleaseOutput
<1>2. t.wins = s.wins /\ t.pads = f
  BY <1>0 DEF State
<1> DEFINE M == L \ {o}
<1>3. ASSUME NEW p \in Names
      PROVE  f[p] \in PadOn(M) \cup {None} /\ (f[p] = None <=> s.pads[p] = None)
             /\ (p \in Defined(s) => /\ f[p].output = s.pads[p].output /\ f[p].home = s.pads[p].home
                                     /\ f[p].visible = s.pads[p].visible /\ f[p].last = s.pads[p].last
                                     /\ f[p].solo = s.pads[p].solo)
  <2>1. CASE s.pads[p] = None
    BY <2>1 DEF Defined
  <2>2. CASE s.pads[p] # None
    <3>1. p \in Defined(s)
      BY <2>2 DEF Defined
    <3>2. s.pads[p] \in PadOn(L) /\ s.pads[p].output \in M \cup {None} /\ s.pads[p].spawn \in SpawnOn(L) \cup {None}
      BY <1>0, <3>1, PadFields
    <3> DEFINE spawn == IF s.pads[p].spawn # None /\ s.pads[p].spawn.output = o THEN None ELSE s.pads[p].spawn
    <3>3. spawn \in SpawnOn(M) \cup {None}
      BY <3>2 DEF SpawnOn
    <3>4. f[p] = [s.pads[p] EXCEPT !.spawn = spawn]
      <4>1. [s.pads[p] EXCEPT !.spawn = s.pads[p].spawn] = s.pads[p]
        BY <3>2 DEF PadOn
      <4> QED BY <2>2, <4>1
    <3> HIDE DEF spawn, f
    <3>5. f[p] \in PadOn(M)
      BY <3>2, <3>3, <3>4 DEF PadOn
    <3>6. /\ f[p].output = s.pads[p].output /\ f[p].home = s.pads[p].home
          /\ f[p].visible = s.pads[p].visible /\ f[p].last = s.pads[p].last /\ f[p].solo = s.pads[p].solo
      BY <3>2, <3>4 DEF PadOn
    <3>7. f[p] # None
      <4>1. M \in SUBSET Outputs
        BY <1>0
      <4> HIDE DEF M
      <4> QED BY <3>5, <4>1, PadOnFacts
    <3> QED BY <2>2, <3>5, <3>6, <3>7
  <2> QED BY <2>1, <2>2
<1>4. t \in State(M)
  <2>1. f \in [Names -> PadOn(M) \cup {None}]
    BY <1>3
  <2>2. t = [pads |-> f, wins |-> s.wins]
    BY <1>0 DEF State
  <2> HIDE DEF f, t, M
  <2> QED BY <1>0, <2>1, <2>2 DEF State
<1> HIDE DEF t
<1>5. Entries(t) = Entries(s) /\ (\A r : Members(t, r) = Members(s, r)) /\ Defined(t) = Defined(s)
  BY <1>2, <1>3 DEF Entries, Members, Defined
<1> HIDE DEF f
<1>6. \A r \in Defined(s) :
        /\ t.pads[r].output = s.pads[r].output /\ t.pads[r].home = s.pads[r].home
        /\ t.pads[r].visible = s.pads[r].visible /\ t.pads[r].last = s.pads[r].last /\ t.pads[r].solo = s.pads[r].solo
  BY <1>2, <1>3 DEF Defined
<1>7. Alike(s, t) /\ Roster(t) /\ Screen(t, {}) /\ Alone(t)
  BY <1>0, <1>2, <1>5, <1>6 DEF Alike, Roster, Screen, Alone
<1>8. ASSUME NEW r \in Defined(t) PROVE Switched(t, r) /\ Displayed(t, r)
  <2>1. Switched(s, r) /\ Displayed(s, r)
    BY <1>5 DEF Sound
  <2> QED BY <1>2, <1>5, <1>6, <2>1 DEF Switched, Displayed, Up
<1>9. Sound(t, M, {}, {})
  <2>1. M \in SUBSET Outputs
    BY <1>0
  <2> HIDE DEF M
  <2> QED BY <1>4, <1>7, <1>8, <2>1 DEF Sound
<1>10. Releases(s, t, M)
  BY <1>2, <1>6, <1>7, <1>9 DEF Releases
<1>11. FoldLeft(LAMBDA u, p : MoveScratchpad(u, p, None, FALSE), t, q) = t
  <2>1. q \in Seq(P) /\ P = {}
    <3>1. P = {}
      OBVIOUS
    <3> HIDE DEF P
    <3>2. P \in SUBSET Names
      BY <3>1
    <3> QED BY <3>1, <3>2, InOrderFacts
  <2>2. Len(q) = 0
    <3> HIDE DEF q, P
    <3> QED BY <2>1
  <2>wellordered. ReleaseFold!WellOrdered
    BY NatLeast DEF ReleaseFold!WellOrdered
  <2>3. PICK after :
          /\ after[0] = t
          /\ ReleaseFold!Result(None, None, t, q) = after[Len(q)]
    <3> HIDE DEF q, P
    <3> QED BY <2>1, <2>wellordered, ReleaseFold!Folded
  <2>4. FoldLeft(LAMBDA u, p : MoveScratchpad(u, p, None, FALSE), t, q) = ReleaseFold!Result(None, None, t, q)
    <3> HIDE DEF q
    <3> QED BY Zenon DEF ReleaseStep, FoldLeft, MapThenFoldSet, Max, ReleaseFold!MapThenFoldSet,
                         ReleaseFold!Greatest, ReleaseFold!Result
  <2> QED BY <2>2, <2>3, <2>4, Zenon
<1> QED BY <1>1, <1>10, <1>11, Zenon

\* preferredOutput, or the first output that is left.
FirstOf(listed, lit, o) ==
  LET found == Kept(listed, lit \ {o}) IN IF found = <<>> THEN None ELSE Head(found)

\* The first enabled output is another one than the one that goes, and
\* there is one if any other is enabled.
LEMMA FirstOfFacts ==
  ASSUME NEW listed \in Seq(Outputs), NEW lit \in SUBSET ToSet(listed), NEW o
  PROVE  /\ FirstOf(listed, lit, o) \in (lit \ {o}) \cup {None}
         /\ lit \ {o} # {} => FirstOf(listed, lit, o) # None
<1> DEFINE found == Kept(listed, lit \ {o})
<1>1. found \in Seq(Outputs) /\ ToSet(found) = ToSet(listed) \cap (lit \ {o})
  BY KeptFacts
<1>2. FirstOf(listed, lit, o) = IF found = <<>> THEN None ELSE Head(found)
  BY DEF FirstOf
<1> HIDE DEF found
<1>3. ToSet(found) = lit \ {o}
  BY <1>1
<1>4. CASE found = <<>>
  <2>1. ToSet(found) = {}
    BY <1>4 DEF ToSet
  <2> QED BY <1>2, <1>3, <1>4, <2>1
<1>5. CASE found # <<>>
  <2>1. Head(found) = found[1] /\ 1 \in DOMAIN found
    BY <1>1, <1>5
  <2>2. Head(found) \in lit \ {o} /\ Head(found) \in Outputs
    BY <1>1, <1>3, <2>1 DEF ToSet
  <2> QED BY <1>2, <1>5, <2>2, NoneFacts
<1> QED BY <1>4, <1>5

\* Where a pad is, or was before it was displaced.
Place(s, p) == IF s.pads[p].home = None THEN s.pads[p].output ELSE s.pads[p].home

\* However often a pad is displaced, the place it goes back to is the same.
Evacuates(s, t, L) ==
  Sound(t, L, {}, {}) /\ Alike(s, t) /\ \A r \in Defined(s) : Place(t, r) = Place(s, r)

\* However often a pad is displaced, the place it returns to is the same.
LEMMA DisplacesEvacuates ==
  ASSUME NEW L, NEW s, NEW t, NEW from \in Outputs, NEW to,
         Displaces(s, t, L, {p \in Defined(s) : s.pads[p].output = from}, from, to)
  PROVE  Evacuates(s, t, L)
BY NoneFacts DEF Displaces, Evacuates, Place

EvacuateStep(listed, lit, s, o) == MoveOutput(s, o, FirstOf(listed, lit, o))

EvacuateFold == INSTANCE FoldLemmas WITH Op <- LAMBDA a, b, s, o : EvacuateStep(a, b, s, o)

\* The outputs of a transaction are evacuated one after the other, some
\* of them onto others that go as well.
LEMMA EvacuatedSound ==
  ASSUME NEW L, NEW s, Sound(s, L, {}, {}), NEW listed \in Seq(Outputs), L = ToSet(listed), NEW lit \in SUBSET L,
         NEW q \in Seq(Outputs)
  PROVE  Evacuates(s, FoldLeft(LAMBDA t, o : MoveOutput(t, o, FirstOf(listed, lit, o)), s, q), L)
<1>wellordered. EvacuateFold!WellOrdered
  BY NatLeast DEF EvacuateFold!WellOrdered
<1>1. PICK after :
        /\ after[0] = s
        /\ \A i \in 1 .. Len(q) : after[i] = EvacuateStep(listed, lit, after[i - 1], q[i])
        /\ EvacuateFold!Result(listed, lit, s, q) = after[Len(q)]
  BY <1>wellordered, EvacuateFold!Folded
<1>2. FoldLeft(LAMBDA t, o : MoveOutput(t, o, FirstOf(listed, lit, o)), s, q) = EvacuateFold!Result(listed, lit, s, q)
  BY Zenon DEF EvacuateStep, FoldLeft, MapThenFoldSet, Max, EvacuateFold!MapThenFoldSet,
               EvacuateFold!Greatest, EvacuateFold!Result
<1> SUFFICES Evacuates(s, after[Len(q)], L)
  BY <1>1, <1>2, Zenon
<1> DEFINE T == {i \in 0 .. Len(q) : Evacuates(s, after[i], L)}
<1>3. Len(q) \in Nat /\ \A i \in 1 .. Len(q) : q[i] \in Outputs
  OBVIOUS
<1>4. 0 \in T
  <2>1. Evacuates(s, s, L)
    BY AlikeReflexive DEF Evacuates
  <2> QED BY <1>1, <1>3, <2>1
<1>5. ASSUME NEW i \in 1 .. Len(q), i - 1 \in T PROVE i \in T
  <2>1. Evacuates(s, after[i - 1], L) /\ q[i] \in Outputs
    BY <1>3, <1>5
  <2>2. PICK a, o, b : a = after[i - 1] /\ o = q[i] /\ b = after[i]
    OBVIOUS
  <2> DEFINE to == FirstOf(listed, lit, o)
             c == MoveOutput(a, o, to)
  <2>3. Sound(a, L, {}, {}) /\ Evacuates(s, a, L) /\ o \in Outputs
    BY <2>1, <2>2 DEF Evacuates
  <2>4. to \in L \cup {None}
    BY FirstOfFacts
  <2> HIDE DEF to
  <2>5. Displaces(a, c, L, {p \in Defined(a) : a.pads[p].output = o}, o, to)
    BY <2>3, <2>4, MoveOutputSound
  <2> HIDE DEF c
  <2>6. Evacuates(a, c, L)
    BY <2>3, <2>5, DisplacesEvacuates
  <2>7. b = c
    BY <1>1, <2>2 DEF EvacuateStep, c, to
  <2>8. Evacuates(s, c, L)
    BY <2>3, <2>6, AlikeTransitive, AlikeMembers DEF Evacuates
  <2>9. Evacuates(s, after[i], L)
    BY <2>2, <2>7, <2>8, Zenon
  <2> QED BY <1>3, <2>9
<1>6. Len(q) \in T
  <2> HIDE DEF T
  <2>1. PICK n \in Nat : n = Len(q)
    BY <1>3
  <2>2. \A i \in 0 .. n : i \in T
    BY <1>4, <1>5, <2>1, LoopInvariant
  <2> QED BY <2>1, <2>2
<1> QED BY <1>6

\* restorePresentation shows or hides windows itself, behind the pad's back,
\* and yet agrees with it.
LEMMA RepresentSound ==
  ASSUME NEW L, NEW t, Sound(t, L, {}, {}), NEW p \in Defined(t), NEW W \in SUBSET Members(t, p)
  PROVE  LET u == Represent(t, p, W) IN Alike(t, u) /\ Sound(u, L, {}, {}) /\ u.pads = t.pads
<1> DEFINE on == {v \in W : Presents(t, p, v)}
           shown == (t.wins.shown \ W) \cup on
           w == [t.wins EXCEPT !.shown = shown]
           u == Represent(t, p, W)
<1>0. t \in State(L) /\ L \in SUBSET Outputs /\ Roster(t) /\ Screen(t, {}) /\ Alone(t) /\ t.wins \in Windows
  BY WinFields DEF Sound
<1>1. CASE t.pads[p].output = None
  BY <1>1, AlikeReflexive DEF Represent
<1>2. CASE t.pads[p].output # None
  <2>1. u = [t EXCEPT !.wins.shown = (@ \ W) \cup on]
    BY <1>2 DEF Represent
  <2>2. W \subseteq Entries(t) /\ W \subseteq Views /\ W \subseteq t.wins.mapped /\ shown \in SUBSET Views
    BY <1>0, EntriesFacts, WinFields DEF Members, Roster
  <2>3. u.pads = t.pads /\ u.wins = w /\ u = [pads |-> u.pads, wins |-> u.wins]
    BY <1>0, <2>1 DEF State
  <2> HIDE DEF u, shown
  <2>5. /\ w \in Windows /\ w.shown = shown
        /\ \A x \in {"mapped", "parent", "entries", "pad", "focus", "noted", "hiding"} : w[x] = t.wins[x]
    BY <1>0, <2>2 DEF Windows
  <2> HIDE DEF w
  <2>6. u \in State(L)
    BY <1>0, <2>3, <2>5 DEF State
  <2>7. Alike(t, u) /\ u.wins.hiding = t.wins.hiding /\ u.wins.shown = shown
    BY <2>3, <2>5 DEF Alike, Defined
  <2>8. /\ Entries(u) = Entries(t) /\ Defined(u) = Defined(t) /\ (\A r : Members(u, r) = Members(t, r))
        /\ u.wins.mapped = t.wins.mapped /\ u.wins.parent = t.wins.parent
        /\ u.wins.noted = t.wins.noted /\ u.wins.pad = t.wins.pad /\ u.wins.entries = t.wins.entries
    BY <2>7, AlikeMembers
  <2>9. Roster(u) /\ Alone(u)
    BY <1>0, <2>3, <2>8 DEF Roster, Alone
  <2>10. \A q \in Defined(t) : Switched(t, q) /\ Displayed(t, q)
    BY DEF Sound
  <2>11. \A v \in W : t.wins.parent[v] \in {None, Owner[v]}
    BY <1>0, <2>2 DEF Roster
  <2>12. \A v \in W :
           /\ Presents(t, p, v) => Up(t, p) /\ t.pads[p].solo \in {None, v, t.wins.parent[v]}
           /\ Up(t, p) /\ t.pads[p].solo \in {None, v} => Presents(t, p, v)
           /\ v \in shown <=> Presents(t, p, v)
    BY DEF Presents, Up, shown
  <2>13. Screen(u, {})
    <3>1. ASSUME NEW v \in W, v \in t.wins.hiding, Presents(t, p, v) PROVE Owner[v] # None
      <4>1. Up(t, p) /\ t.pads[p].solo \in {None, v} => v \in t.wins.shown
        BY <2>10 DEF Displayed
      <4>2. v \in t.wins.shown => Owner[v] # None
        BY <1>0, <3>1 DEF Screen
      <4> QED BY <2>11, <2>12, <3>1, <4>1, <4>2
    <3>2. shown \subseteq t.wins.mapped /\ t.wins.mapped \ Entries(t) \subseteq shown
      BY <1>0, <2>2 DEF Screen, shown
    <3>3. \A v \in t.wins.hiding \cap shown : Owner[v] # None
      BY <1>0, <3>1 DEF Screen, shown
    <3> QED BY <1>0, <2>7, <2>8, <3>2, <3>3 DEF Screen
  <2>14. ASSUME NEW q \in Defined(t) PROVE Switched(u, q) /\ Displayed(u, q)
    <3>1. Switched(u, q)
      BY <2>3, <2>8, <2>10 DEF Switched
    <3>2. \A x : x \notin W => (x \in u.wins.shown <=> x \in t.wins.shown)
      BY <2>7 DEF shown
    <3>3. \A x \in W : x \in Members(t, q) => q = p
      BY DEF Members
    <3>5. Displayed(t, q)
      BY <2>10
    <3>6. \A x \in Members(t, q) \cap W :
            /\ x \in u.wins.shown => Up(t, q) /\ (t.pads[q].solo \in {None, x} \/ Owner[x] # None)
            /\ Up(t, q) /\ t.pads[q].solo \in {None, x} => x \in u.wins.shown
      BY <2>7, <2>11, <2>12, <3>3
    <3>7. Up(u, q) <=> Up(t, q)
      BY <2>3 DEF Up
    <3>8. Displayed(u, q)
      BY <2>3, <2>8, <3>2, <3>5, <3>6, <3>7 DEF Displayed
    <3> QED BY <3>1, <3>8
  <2>15. Sound(u, L, {}, {})
    BY <1>0, <2>6, <2>8, <2>9, <2>13, <2>14 DEF Sound
  <2> QED BY <2>3, <2>7, <2>15 DEF u
<1> QED BY <1>1, <1>2

\* restoreDisplaced, for the pads of P.
Target(s, p, lit, fallback) ==
  CASE s.pads[p].home \in lit -> s.pads[p].home
    [] s.pads[p].home \notin lit /\ s.pads[p].output = None -> fallback
    [] OTHER -> s.pads[p].output

Restores(s, t, L, P, lit, fallback) ==
  /\ Sound(t, L, {}, {}) /\ Alike(s, t)
  /\ \A r \in Defined(s) :
       /\ t.pads[r].output = IF r \in P THEN Target(s, r, lit, fallback) ELSE s.pads[r].output
       /\ t.pads[r].home = IF r \in P /\ s.pads[r].home \in lit THEN None ELSE s.pads[r].home

RestoreStep(lit, fallback, back, s, p) ==
  LET home   == s.pads[p].home
      target == CASE home \in lit -> home
                  [] home \notin lit /\ s.pads[p].output = None -> fallback
                  [] OTHER -> s.pads[p].output
      moved  == IF target = s.pads[p].output THEN s ELSE MoveScratchpad(s, p, target, FALSE)
      again  == IF home \in lit /\ moved.pads[p].visible
                THEN Represent(moved, p, Members(moved, p) \cap back) ELSE moved
  IN [again EXCEPT !.pads[p].home = IF home \in lit THEN None ELSE @]

\* restoreDisplaced restores one pad.
LEMMA RestorePadSound ==
  ASSUME NEW L, NEW s, Sound(s, L, {}, {}), NEW p \in Defined(s), NEW lit \in SUBSET L, NEW fallback \in L \cup {None}, NEW back
  PROVE  Restores(s, RestoreStep(lit, fallback, back, s, p), L, {p}, lit, fallback)
<1> DEFINE target == Target(s, p, lit, fallback)
           home == IF s.pads[p].home \in lit THEN None ELSE s.pads[p].home
<1>0. s \in State(L) /\ L \in SUBSET Outputs /\ s.pads[p].output \in L \cup {None} /\ Switched(s, p)
      /\ home \in Outputs \cup {None} /\ target \in L \cup {None}
  <2>1. s \in State(L) /\ L \in SUBSET Outputs /\ Switched(s, p)
    BY DEF Sound
  <2>2. s.pads[p].output \in L \cup {None} /\ s.pads[p].home \in Outputs \cup {None}
    BY <2>1, PadFields
  <2> QED BY <2>1, <2>2 DEF Target
<1>1. PICK no \in BOOLEAN : no = FALSE
  OBVIOUS
<1> DEFINE moved == IF target = s.pads[p].output THEN s ELSE MoveScratchpad(s, p, target, no)
           again == IF s.pads[p].home \in lit /\ moved.pads[p].visible
                    THEN Represent(moved, p, Members(moved, p) \cap back) ELSE moved
           t == WithHome(again, p, home)
<1>2. /\ Alike(s, moved) /\ Sound(moved, L, {}, {}) /\ moved.pads[p].output = target
      /\ moved.pads[p].home = s.pads[p].home /\ Settled(s, moved, p)
  <2>1. CASE target = s.pads[p].output
    BY <2>1, AlikeReflexive DEF Settled
  <2>2. CASE target # s.pads[p].output
    <3> HIDE DEF target
    <3>1. Moves(s, MoveScratchpad(s, p, target, no), L, {}, {}, p, target, no)
      BY <1>0, MoveSound
    <3> QED BY <1>1, <2>2, <3>1 DEF Moves
  <2> QED BY <2>1, <2>2
<1>3. RestoreStep(lit, fallback, back, s, p) = t
  <2> DEFINE m == IF target = s.pads[p].output THEN s ELSE MoveScratchpad(s, p, target, FALSE)
             n == IF s.pads[p].home \in lit /\ m.pads[p].visible
                  THEN Represent(m, p, Members(m, p) \cap back) ELSE m
  <2>1. RestoreStep(lit, fallback, back, s, p) = [n EXCEPT !.pads[p].home = IF s.pads[p].home \in lit THEN None ELSE @]
    BY Zenon DEF RestoreStep, Target
  <2>2. n = again
    <3>1. m = moved
      BY <1>1
    <3> HIDE DEF m, moved
    <3> QED BY <3>1
  <2> HIDE DEF n, again, moved
  <2>3. again.pads[p].home = s.pads[p].home
    <3>1. again.pads = moved.pads
      <4>1. Represent(moved, p, Members(moved, p) \cap back).pads = moved.pads
        <5>1. p \in Defined(moved) /\ Members(moved, p) \cap back \in SUBSET Members(moved, p)
          BY <1>2, AlikeMembers
        <5> QED BY <1>2, <5>1, RepresentSound
      <4> QED BY <4>1 DEF again
    <3> QED BY <1>2, <3>1
  <2> QED BY <2>1, <2>2, <2>3 DEF WithHome
<1> HIDE DEF moved, target, home
<1>4. p \in Defined(moved)
  BY <1>2, AlikeMembers
<1>5. /\ Alike(moved, again) /\ Sound(again, L, {}, {}) /\ again.pads = moved.pads /\ p \in Defined(again)
  <2>1. Members(moved, p) \cap back \in SUBSET Members(moved, p)
    OBVIOUS
  <2>2. LET u == Represent(moved, p, Members(moved, p) \cap back)
        IN Alike(moved, u) /\ Sound(u, L, {}, {}) /\ u.pads = moved.pads
    BY <1>2, <1>4, <2>1, RepresentSound
  <2>3. Alike(moved, again) /\ Sound(again, L, {}, {}) /\ again.pads = moved.pads
    BY <1>2, <2>2, AlikeReflexive
  <2> HIDE DEF again
  <2> QED BY <1>4, <2>3, AlikeMembers
<1> HIDE DEF again
<1>6. /\ Alike(again, t) /\ Sound(t, L, {}, {}) /\ (\A q \in Names \ {p} : t.pads[q] = again.pads[q])
      /\ t.pads[p].output = again.pads[p].output /\ t.pads[p].home = home
  BY <1>0, <1>5, HomeChanged
<1> HIDE DEF t
<1>7. Alike(moved, t) /\ (\A q \in Names \ {p} : t.pads[q] = moved.pads[q]) /\ t.pads[p].output = moved.pads[p].output
  BY <1>5, <1>6, AlikeTransitive
<1>8. Alike(s, t) /\ Settled(s, t, p)
  BY <1>2, <1>7, AlikeTransitive, OthersSettled, SettledTransitive
<1>9. Restores(s, t, L, {p}, lit, fallback)
  BY <1>2, <1>6, <1>7, <1>8 DEF Restores, Settled, target, home
<1> QED BY <1>3, <1>9

RestoreWith(lit, with, s, p) == RestoreStep(lit, with.fallback, with.back, s, p)

RestorePadFold == INSTANCE FoldLemmas WITH Op <- LAMBDA a, b, s, p : RestoreWith(a, b, s, p)

RestoredAll(s, P, lit, fallback, back) ==
  FoldLeft(LAMBDA t, p : RestoreStep(lit, fallback, back, t, p), s, InOrder(P))

\* restoreDisplaced restores them all, one after the other.
LEMMA AllRestored ==
  ASSUME NEW L, NEW s, Sound(s, L, {}, {}), NEW P \in SUBSET Defined(s), NEW lit \in SUBSET L,
         NEW fallback \in L \cup {None}, NEW back
  PROVE  Restores(s, RestoredAll(s, P, lit, fallback, back), L, P, lit, fallback)
<1> DEFINE q == InOrder(P)
           with == [fallback |-> fallback, back |-> back]
<1>1. q \in Seq(P) /\ ToSet(q) = P /\ IsInjective(q)
  <2>1. P \in SUBSET Names
    BY DEF Defined
  <2> QED BY <2>1, InOrderFacts
<1>wellordered. RestorePadFold!WellOrdered
  BY NatLeast DEF RestorePadFold!WellOrdered
<1>2. PICK after :
        /\ after[0] = s
        /\ \A i \in 1 .. Len(q) : after[i] = RestoreStep(lit, fallback, back, after[i - 1], q[i])
        /\ RestorePadFold!Result(lit, with, s, q) = after[Len(q)]
  <2> HIDE DEF q, with
  <2>1. with.fallback = fallback /\ with.back = back
    BY DEF with
  <2>2. \E after : /\ after[0] = s
                   /\ \A i \in 1 .. Len(q) : after[i] = RestoreWith(lit, with, after[i - 1], q[i])
                   /\ RestorePadFold!Result(lit, with, s, q) = after[Len(q)]
    BY <1>1, <1>wellordered, RestorePadFold!Folded
  <2>3. \A t, p : RestoreWith(lit, with, t, p) = RestoreStep(lit, fallback, back, t, p)
    BY <2>1 DEF RestoreWith
  <2> QED BY <2>2, <2>3
<1>3. RestoredAll(s, P, lit, fallback, back) = RestorePadFold!Result(lit, with, s, q)
  <2>1. with.fallback = fallback /\ with.back = back
    OBVIOUS
  <2> HIDE DEF q, with
  <2> QED BY <2>1, Zenon DEF q, RestoredAll, RestoreWith, FoldLeft, MapThenFoldSet, Max, RestorePadFold!MapThenFoldSet,
               RestorePadFold!Greatest, RestorePadFold!Result
<1> SUFFICES Restores(s, after[Len(q)], L, P, lit, fallback)
  BY <1>2, <1>3, Zenon
<1> HIDE DEF q
<1> DEFINE Past(i) == {q[j] : j \in 1 .. i}
           T == {i \in 0 .. Len(q) : Restores(s, after[i], L, Past(i), lit, fallback)}
<1>4. Len(q) \in Nat /\ DOMAIN q = 1 .. Len(q) /\ (\A i \in 1 .. Len(q) : q[i] \in P) /\ P \subseteq Defined(s)
  BY <1>1
<1>5. 0 \in T
  <2>1. Past(0) = {}
    OBVIOUS
  <2>2. Restores(s, s, L, {}, lit, fallback)
    BY AlikeReflexive DEF Restores
  <2> HIDE DEF Past
  <2>3. Restores(s, after[0], L, Past(0), lit, fallback)
    BY <1>2, <2>1, <2>2, Zenon
  <2> QED BY <1>4, <2>3
<1>6. ASSUME NEW i \in 1 .. Len(q), i - 1 \in T PROVE i \in T
  <2>1. Restores(s, after[i - 1], L, Past(i - 1), lit, fallback)
    BY <1>6
  <2>2. PICK a, p, b : a = after[i - 1] /\ p = q[i] /\ b = after[i]
    OBVIOUS
  <2>3. Past(i) = Past(i - 1) \cup {p} /\ p \notin Past(i - 1) /\ p \in Defined(s)
    <3>1. 1 .. i = (1 .. (i - 1)) \cup {i}
      BY <1>4
    <3>2. \A j \in 1 .. (i - 1) : j \in 1 .. Len(q) /\ j # i
      BY <1>4
    <3>3. \A j \in 1 .. (i - 1) : q[j] # q[i]
      BY <1>1, <1>4, <3>2 DEF IsInjective
    <3> QED BY <1>4, <2>2, <3>1, <3>3
  <2> HIDE DEF Past
  <2>4. Restores(s, a, L, Past(i - 1), lit, fallback)
    BY <2>1, <2>2
  <2>5. Sound(a, L, {}, {}) /\ p \in Defined(a)
    BY <2>3, <2>4 DEF Restores, Alike
  <2>6. Restores(a, RestoreStep(lit, fallback, back, a, p), L, {p}, lit, fallback)
    BY <2>5, RestorePadSound
  <2>7. Restores(a, b, L, {p}, lit, fallback)
    BY <1>2, <2>2, <2>6
  <2>8. Restores(s, b, L, Past(i - 1) \cup {p}, lit, fallback)
    <3>1. Alike(s, b) /\ Defined(a) = Defined(s)
      BY <2>4, <2>7, AlikeTransitive, AlikeMembers DEF Restores
    <3>2. a.pads[p].output = s.pads[p].output /\ a.pads[p].home = s.pads[p].home
      BY <2>3, <2>4 DEF Restores
    <3>3. Target(a, p, lit, fallback) = Target(s, p, lit, fallback)
      BY <3>2 DEF Target
    <3> QED BY <2>3, <2>4, <2>7, <3>1, <3>2, <3>3 DEF Restores
  <2>9. Restores(s, after[i], L, Past(i), lit, fallback)
    BY <2>2, <2>3, <2>8, Zenon
  <2> QED BY <2>9
<1>7. Len(q) \in T
  <2> HIDE DEF T
  <2>1. PICK n \in Nat : n = Len(q)
    BY <1>4
  <2>2. \A i \in 0 .. n : i \in T
    BY <1>5, <1>6, <2>1, LoopInvariant
  <2> QED BY SMTT(30), <2>1, <2>2
<1>8. Past(Len(q)) = P
  BY <1>1, <1>4 DEF ToSet
<1>9. Restores(s, after[Len(q)], L, Past(Len(q)), lit, fallback)
  BY <1>7
<1> HIDE DEF Past
<1> QED BY <1>8, <1>9, Zenon

-----------------------------------------------------------------------------
(* The handlers.                                                           *)

\* Whoever was asked for has the keyboard, if it is on screen.
LEMMA FocusActed ==
  ASSUME NEW L, NEW s, Sound(s, L, {}, {}), s.wins.focus \in s.wins.mapped \cup {None}, NEW v
  PROVE  /\ Acted(s, FocusView(s, v), L)
         /\ v \in s.wins.shown => FocusView(s, v).wins.focus \in FocusView(s, v).wins.shown
<1>1. Focuses(s, FocusView(s, v), L, {}, {}, v)
  BY FocusViewSound
<1> DEFINE t == FocusView(s, v)
<1> HIDE DEF t
<1>2. Stays(s, t) /\ Sound(t, L, {}, {}) /\ t.wins.focus = IF v \in s.wins.shown THEN v ELSE s.wins.focus
  BY <1>1 DEF Focuses, t
<1>3. t.wins.mapped = s.wins.mapped /\ t.wins.shown = s.wins.shown /\ s.wins.shown \subseteq s.wins.mapped
  BY <1>2 DEF Stays, Sound, Screen
<1>4. Acted(s, t, L)
  BY <1>2, <1>3, StaysActed
<1> QED BY <1>2, <1>3, <1>4 DEF t

\* focused: a member, and if the pad is up one that is on screen.
LEMMA FocusedFacts ==
  ASSUME NEW L, NEW s, Sound(s, L, {}, {}), NEW p \in Defined(s)
  PROVE  /\ Focused(s, p) \in Members(s, p) \cup {None}
         /\ Up(s, p) /\ Exact(s, p) => Focused(s, p) \in s.wins.shown
<1> DEFINE pad == s.pads[p]
           M == Members(s, p)
<1>0. s \in State(L) /\ L \in SUBSET Outputs /\ Switched(s, p) /\ M \subseteq Views
  BY EntriesFacts DEF Sound
<1>1. M # {} => Head(MembersInOrder(s, p)) \in M
  <2> DEFINE q == MembersInOrder(s, p)
  <2>1. s.wins.entries \in Seq(Views) /\ M \subseteq ToSet(s.wins.entries)
    BY <1>0, EntriesFacts DEF Entries
  <2>2. q = Kept(s.wins.entries, M)
    BY DEF MembersInOrder
  <2> HIDE DEF q, M
  <2>3. q \in Seq(Views) /\ ToSet(q) = ToSet(s.wins.entries) \cap M
    BY <2>1, <2>2, KeptFacts
  <2>4. M # {} => q # <<>>
    BY <2>1, <2>3 DEF ToSet
  <2>5. q # <<>> => Head(q) = q[1] /\ 1 \in DOMAIN q
    BY <2>3
  <2>6. M # {} => Head(q) \in M
    BY <2>1, <2>3, <2>4, <2>5 DEF ToSet
  <2> QED BY <2>6 DEF q
<1>2. pad.solo \in M \cup {None} /\ (pad.visible => M # {})
  BY <1>0 DEF Switched
<1>3. None \notin M
  BY <1>0, NoneFacts
<1> DEFINE f == Focused(s, p)
<1> DEFINE up   == Up(s, p)
           last == pad.last \in M /\ Presents(s, p, pad.last)
<1>4. f = CASE up /\ last -> pad.last
            [] up /\ ~last /\ pad.solo # None -> pad.solo
            [] up /\ ~last /\ pad.solo = None /\ M # {} -> Head(MembersInOrder(s, p))
            [] OTHER -> None
  BY DEF Focused, Up
<1>4a. up <=> pad.visible /\ pad.output # None
  BY DEF Up
<1>4b. up \in BOOLEAN /\ last \in BOOLEAN
  BY DEF Up, Presents
<1> HIDE DEF f, M, up, last
<1>5. CASE ~up
  <2>1. f = None
    BY <1>4, <1>5
  <2> QED BY <1>5, <2>1 DEF up, f
<1>6. CASE up /\ last
  <2>1. f = pad.last
    BY <1>4, <1>6
  <2> QED BY <1>6, <2>1 DEF Exact, f, M, last
<1>7. CASE up /\ ~last /\ pad.solo # None
  <2>1. f = pad.solo /\ f \in M
    BY <1>2, <1>4, <1>7
  <2>2. Presents(s, p, f)
    BY <1>4a, <1>7, <2>1 DEF Presents
  <2> QED BY <2>1, <2>2 DEF Exact, f, M
<1>8. CASE up /\ ~last /\ pad.solo = None
  <2>1. f = Head(MembersInOrder(s, p)) /\ f \in M
    BY <1>1, <1>2, <1>4, <1>4a, <1>8
  <2>2. Presents(s, p, f)
    BY <1>4a, <1>8, <2>1 DEF Presents
  <2> QED BY <2>1, <2>2 DEF Exact, f, M
<1> QED BY <1>5, <1>6, <1>7, <1>8

\* Where the keyboard may be after an act of the user.
Lands(s, t) == t.wins.focus \in t.wins.shown \cup {None} \/ t.wins = s.wins

\* What Toggle makes of a pad with members that is not up where it is asked for.
LEMMA RaisedActed ==
  ASSUME NEW L, NEW s, Sound(s, L, {}, {}), s.wins.focus \in s.wins.mapped \cup {None}, NEW p \in Defined(s),
         Members(s, p) # {}, NEW o \in L, ~(s.pads[p].visible /\ s.pads[p].output = o)
  PROVE  LET t == FocusPad(Summon(s, p, o, None), p) IN Acted(s, t, L) /\ Lands(s, t)
<1>1. PICK nobody \in Members(s, p) \cup {None} : nobody = None
  OBVIOUS
<1> DEFINE m == Summon(s, p, o, nobody)
           v == Focused(m, p)
           t == FocusPad(m, p)
<1>2. /\ Acted(s, m, L) /\ Alike(s, m) /\ Summons(s, m, L, {}, {}, p, o)
  BY SummonActed
<1>3. Summon(s, p, o, None) = m
  BY <1>1
<1> SUFFICES Acted(s, t, L) /\ Lands(s, t)
  BY <1>3
<1> HIDE DEF m
<1>4. /\ Sound(m, L, {}, {}) /\ m.wins.focus \in m.wins.mapped \cup {None} /\ p \in Defined(m)
      /\ Exact(m, p) /\ m.pads[p].visible /\ m.pads[p].output = o
  BY <1>2, AlikeMembers DEF Acted, Summons, Brings
<1>5. o # None
  BY NoneFacts DEF Sound
<1>6. v \in m.wins.shown
  BY <1>4, <1>5, FocusedFacts DEF Up
<1> HIDE DEF v
<1>7. v # None
  <2>1. m.wins.shown \subseteq Views
    BY <1>4, WinFields DEF Sound
  <2> QED BY <1>6, <2>1, NoneFacts
<1>8. t = FocusView(m, v)
  BY <1>7 DEF FocusPad, v
<1>9. Acted(m, FocusView(m, v), L) /\ FocusView(m, v).wins.focus \in FocusView(m, v).wins.shown
  BY <1>4, <1>6, FocusActed
<1> QED BY <1>2, <1>8, <1>9, ActedTransitive DEF Lands

\* A pad that shows one of its windows and nothing else.
StepTo(s, p, o, target) ==
  LET t == WithSolo(s, p, target)
  IN FocusView(IF s.pads[p].visible /\ s.pads[p].output = o THEN SetVisible(t, p, TRUE, TRUE) ELSE Summon(t, p, o, None),
               target)

\* showStep, to whatever member it picks: that member has the keyboard.
LEMMA StepToActed ==
  ASSUME NEW L, NEW s, Sound(s, L, {}, {}), s.wins.focus \in s.wins.mapped \cup {None}, NEW p \in Defined(s),
         NEW o \in L, NEW target \in Members(s, p)
  PROVE  Acted(s, StepTo(s, p, o, target), L) /\ Lands(s, StepTo(s, p, o, target))
<1> DEFINE t == WithSolo(s, p, target)
           here == s.pads[p].visible /\ s.pads[p].output = o
<1>0. PICK yes \in BOOLEAN : yes = TRUE
  OBVIOUS
<1>1. PICK nobody \in Members(s, p) \cup {None} : nobody = None
  OBVIOUS
<1>2. Turned(s, t, L, {}, {}, p, target)
  BY SoloChanged
<1> DEFINE u == IF here THEN SetVisible(t, p, yes, yes) ELSE Summon(t, p, o, nobody)
<1>3. StepTo(s, p, o, target) = FocusView(u, target)
  BY <1>0, <1>1 DEF StepTo
<1> HIDE DEF t
<1>4. /\ Alike(s, t) /\ Sound(t, L, {} \cup {p}, {}) /\ Settled(s, t, p) /\ t.wins = s.wins
      /\ t.pads[p].solo = target /\ t.pads[p].output = s.pads[p].output /\ t.pads[p].visible = s.pads[p].visible
      /\ t.pads[p].home = s.pads[p].home
  BY <1>2 DEF Turned
<1>5. p \in Defined(t) /\ Members(t, p) = Members(s, p) /\ {} \cup {p} = {p} /\ {p} \ {p} = {} /\ o # None
  BY <1>4, AlikeMembers, NoneFacts DEF Sound
<1>6. Sound(t, L, {p}, {}) /\ Ready(t, p) /\ Alone(t)
  <2>1. Sound(t, L, {p}, {})
    BY <1>4, <1>5, Zenon
  <2> QED BY <1>4, <1>5, <2>1 DEF Ready, Sound
<1>7. /\ Brings(t, u, L, {p}, {}, p, o) /\ Exact(u, p) /\ u.pads[p].solo = target
  <2>1. CASE here
    <3>1. Free(t, p, t.pads[p].output)
      BY <1>4, <1>5, <1>6, <2>1 DEF Free, Alone
    <3>2. Shows(t, SetVisible(t, p, yes, yes), L, {p}, {}, p)
      BY <1>0, <1>5, <1>6, <3>1, ShownSound
    <3>3. u = SetVisible(t, p, yes, yes) /\ t.pads[p].output = o
      BY <1>4, <2>1
    <3> HIDE DEF u
    <3> QED BY <1>4, <3>2, <3>3 DEF Shows
  <2>2. CASE ~here
    <3>1. nobody \in Members(t, p) \cup {None} /\ (nobody # None => Switched(t, p))
          /\ ~(t.pads[p].visible /\ t.pads[p].output = o)
      BY <1>1, <1>4, <2>2
    <3>2. /\ Summons(t, Summon(t, p, o, nobody), L, {p}, {}, p, o)
          /\ nobody = None => Summon(t, p, o, nobody).pads[p].solo = t.pads[p].solo
      BY <1>5, <1>6, <3>1, SummonSound
    <3>3. u = Summon(t, p, o, nobody)
      BY <2>2
    <3> HIDE DEF u, here
    <3> QED BY <1>1, <1>4, <3>1, <3>2, <3>3 DEF Summons
  <2> QED BY <2>1, <2>2
<1> HIDE DEF u
<1>8. /\ Alike(t, u) /\ Sound(u, L, {p} \ {p}, {}) /\ Settled(t, u, p) /\ u.pads[p].visible /\ u.pads[p].output = o
      /\ u.pads[p].home \in {t.pads[p].home, None} /\ (t.pads[p].output # o => u.pads[p].home = None)
  BY <1>7 DEF Brings
<1>9. /\ Alike(s, u) /\ Sound(u, L, {}, {}) /\ Settled(s, u, p)
  <2>1. Sound(u, L, {}, {})
    BY <1>5, <1>8, Zenon
  <2> QED BY <1>4, <1>8, <2>1, AlikeTransitive, SettledTransitive
<1>10. Homed(s, u)
  <2>1. \/ u.pads[p].output = s.pads[p].output /\ u.pads[p].home = s.pads[p].home
        \/ u.pads[p].output # None /\ u.pads[p].home = None
    BY <1>4, <1>5, <1>8
  <2> QED BY <1>9, <2>1, SettledHomed
<1>11. Acted(s, u, L)
  BY <1>9, <1>10, AlikeActed
<1>12. target \in u.wins.shown
  <2>1. target \in Members(u, p)
    BY <1>9, AlikeMembers
  <2>2. Presents(u, p, target)
    BY <1>5, <1>7, <1>8 DEF Presents
  <2> QED BY <1>7, <2>1, <2>2 DEF Exact
<1>13. Acted(u, FocusView(u, target), L) /\ FocusView(u, target).wins.focus \in FocusView(u, target).wins.shown
  BY <1>11, <1>12, FocusActed DEF Acted
<1> QED BY <1>3, <1>11, <1>13, ActedTransitive DEF Lands

\* showStep: a dialog is not a step, so there is one, and it is a member.
LEMMA StepActed ==
  ASSUME NEW L, NEW s, Sound(s, L, {}, {}), s.wins.focus \in s.wins.mapped \cup {None}, NEW p \in Defined(s),
         Members(s, p) # {}, NEW o \in L, NEW direction \in Int
  PROVE  Acted(s, Step(s, p, direction, o), L) /\ Lands(s, Step(s, p, direction, o))
<1> DEFINE steps == Kept(MembersInOrder(s, p), {v \in Views : ~Ride(s, v, p)})
           here  == s.pads[p].visible /\ s.pads[p].output = o
           at(v) == IF v = None THEN 0 ELSE SelectInSeq(steps, LAMBDA w : w = MemberFor(s, v, p))
           now   == IF at(Focused(s, p)) = 0 THEN 1 ELSE at(Focused(s, p))
           then  == ((now - 1 + direction + Len(steps)) % Len(steps)) + 1
           first == IF at(s.pads[p].last) = 0 THEN 1 ELSE at(s.pads[p].last)
           target == steps[IF here THEN then ELSE first]
<1>0. s \in State(L) /\ L \in SUBSET Outputs /\ Roster(s) /\ Members(s, p) \subseteq Views
  BY EntriesFacts DEF Sound
<1>1. Step(s, p, direction, o) = StepTo(s, p, o, target)
  BY DEF Step, StepTo, WithSolo
<1>2. /\ steps \in Seq(Views) /\ ToSet(steps) = {v \in Members(s, p) : ~Ride(s, v, p)}
  <2> DEFINE q == MembersInOrder(s, p)
             N == {v \in Views : ~Ride(s, v, p)}
  <2>1. s.wins.entries \in Seq(Views) /\ Members(s, p) \subseteq ToSet(s.wins.entries)
    BY <1>0, EntriesFacts DEF Entries
  <2>2. q = Kept(s.wins.entries, Members(s, p))
    BY DEF MembersInOrder
  <2> HIDE DEF q
  <2>3. q \in Seq(Views) /\ ToSet(q) = Members(s, p)
    <3>1. q \in Seq(Views) /\ ToSet(q) = ToSet(s.wins.entries) \cap Members(s, p)
      BY <2>1, <2>2, KeptFacts
    <3> QED BY <2>1, <3>1
  <2>4. steps = Kept(q, N)
    BY DEF q
  <2> HIDE DEF steps
  <2>5. steps \in Seq(Views) /\ ToSet(steps) = ToSet(q) \cap N
    <3> HIDE DEF N
    <3> QED BY <2>3, <2>4, KeptFacts
  <2> QED BY <1>0, <2>3, <2>5
<1>3. ToSet(steps) # {}
  <2> SUFFICES \E v \in Members(s, p) : ~Ride(s, v, p)
    BY <1>2
  <2>1. PICK v \in Members(s, p) : TRUE
    OBVIOUS
  <2>2. CASE ~Ride(s, v, p)
    BY <2>1, <2>2
  <2>3. CASE Ride(s, v, p)
    <3> DEFINE w == s.wins.parent[v]
    <3>1. w \in Members(s, p) /\ w # None
      BY <2>3, RideFacts
    <3>2. w = Owner[v] /\ Owner[w] = None /\ s.wins.parent[w] = None
      BY <1>0, <2>1, <3>1, PadsAssumption DEF Roster
    <3>3. ~Ride(s, w, p)
      BY <3>2 DEF Ride
    <3> QED BY <3>1, <3>3
  <2> QED BY <2>2, <2>3
<1> DEFINE n == Len(steps)
<1>4. n \in Nat \ {0} /\ \A i \in 1 .. n : steps[i] \in Members(s, p)
  <2> HIDE DEF steps
  <2>1. n \in Nat /\ DOMAIN steps = 1 .. n
    BY <1>2
  <2>2. n # 0
    BY <1>3, <2>1 DEF ToSet
  <2>3. \A i \in 1 .. n : steps[i] \in ToSet(steps)
    BY <2>1 DEF ToSet
  <2> QED BY <1>2, <2>1, <2>2, <2>3
<1>5. \A v : at(v) \in 0 .. n
  <2> HIDE DEF steps
  <2> SUFFICES ASSUME NEW v PROVE at(v) \in 0 .. n
    OBVIOUS
  <2> DEFINE I == {i \in 1 .. n : steps[i] = MemberFor(s, v, p)}
  <2>1. at(v) = IF v = None THEN 0 ELSE IF I # {} THEN Min(I) ELSE 0
    BY DEF SelectInSeq
  <2>2. I \in SUBSET Nat /\ I \subseteq 1 .. n
    BY <1>4
  <2>3. I # {} => Min(I) \in 1 .. n
    <3> HIDE DEF I
    <3> QED BY <2>2, LeastOfNat
  <2> HIDE DEF I, at
  <2> QED BY <1>4, <2>1, <2>3
<1>6. now \in 1 .. n /\ first \in 1 .. n
  <2> HIDE DEF at
  <2>1. at(Focused(s, p)) \in 0 .. n /\ at(s.pads[p].last) \in 0 .. n
    BY <1>5
  <2> QED BY <1>4, <2>1
<1> HIDE DEF now, first, at, steps
<1>7. then \in 1 .. n
  <2>1. now - 1 + direction + n \in Int
    <3> HIDE DEF n
    <3>1. now \in Int /\ n \in Int
      BY <1>4, <1>6
    <3> QED BY <3>1
  <2>2. (now - 1 + direction + n) % n \in 0 .. (n - 1)
    <3> HIDE DEF n
    <3> QED BY <1>4, <2>1
  <2> QED BY <1>4, <2>2
<1>8. target \in Members(s, p)
  <2> HIDE DEF then
  <2> QED BY <1>4, <1>6, <1>7
<1> HIDE DEF target
<1> QED BY <1>1, <1>8, StepToActed

\* finishMove shows or hides the window itself.
LEMMA RepresentActed ==
  ASSUME NEW L, NEW t, Sound(t, L, {}, {}), t.wins.focus \in t.wins.mapped \cup {None}, NEW p \in Defined(t),
         NEW v \in Members(t, p)
  PROVE  Acted(t, Represent(t, p, {v}), L)
<1> DEFINE u == Represent(t, p, {v})
<1>1. {v} \in SUBSET Members(t, p)
  OBVIOUS
<1>2. Alike(t, u) /\ Sound(u, L, {}, {}) /\ u.pads = t.pads
  BY <1>1, RepresentSound
<1> HIDE DEF u
<1>3. Homed(t, u)
  BY <1>2 DEF Homed
<1>4. Acted(t, u, L)
  BY <1>2, <1>3, AlikeActed
<1> QED BY <1>4 DEF u

\* finishFloatMove
LEMMA FinishMoveActed ==
  ASSUME NEW L, NEW s, Sound(s, L, {}, {}), s.wins.focus \in s.wins.mapped \cup {None}, NEW v \in Entries(s),
         NEW o \in L \cup {None}
  PROVE  LET p == s.wins.pad[v]
             t == IF o = None THEN s ELSE MoveTo(s, p, o)
         IN Acted(s, FocusView(Represent(t, p, {v}), v), L)
<1> DEFINE p == s.wins.pad[v]
           t == IF o = None THEN s ELSE MoveTo(s, p, o)
<1>0. p \in Defined(s) /\ v \in Members(s, p) /\ L \in SUBSET Outputs
  BY DEF Sound, Roster, Members
<1>1. Acted(s, t, L) /\ Alike(s, t)
  <2>1. CASE o = None
    BY <2>1, ActedReflexive, AlikeReflexive
  <2>2. CASE o # None
    <3>1. s.pads[p].visible => Switched(s, p)
      BY <1>0 DEF Sound
    <3> HIDE DEF p
    <3>2. MovesTo(s, MoveTo(s, p, o), L, {}, {}, p, o)
      BY <1>0, <3>1, MoveToSound
    <3> DEFINE m == MoveTo(s, p, o)
    <3> HIDE DEF m
    <3>3. /\ Alike(s, m) /\ Sound(m, L, {}, {}) /\ Settled(s, m, p) /\ m.pads[p].output = o
          /\ m.pads[p].home = IF s.pads[p].output = o THEN s.pads[p].home ELSE None
      BY <3>2 DEF m, MovesTo
    <3>4. Homed(s, m)
      BY <2>2, <3>3, SettledHomed
    <3>5. Acted(s, m, L)
      BY <3>3, <3>4, AlikeActed
    <3> QED BY <2>2, <3>3, <3>5 DEF m
  <2> QED BY <2>1, <2>2
<1> HIDE DEF t, p
<1>2. p \in Defined(t) /\ v \in Members(t, p)
  BY <1>0, <1>1, AlikeMembers
<1>3. Acted(t, Represent(t, p, {v}), L)
  BY <1>1, <1>2, RepresentActed DEF Acted
<1> DEFINE d == Represent(t, p, {v})
<1> HIDE DEF d
<1>4. Acted(s, d, L)
  BY <1>1, <1>3, ActedTransitive DEF d
<1>5. Acted(d, FocusView(d, v), L)
  BY <1>4, FocusActed DEF Acted
<1>6. Acted(s, FocusView(d, v), L)
  BY <1>4, <1>5, ActedTransitive
<1> QED BY <1>6 DEF d, t, p

\* The overview opens: nobody has the keyboard.
LEMMA AllHiddenActed ==
  ASSUME NEW L, NEW s, Sound(s, L, {}, {}), s.wins.focus \in s.wins.mapped \cup {None}, NEW P \in SUBSET Defined(s)
  PROVE  LET t == FoldLeft(LAMBDA u, p : SetVisible(u, p, FALSE, FALSE), s, InOrder(P))
         IN Acted(s, [t EXCEPT !.wins.focus = None], L)
<1> DEFINE q == InOrder(P)
           t == FoldLeft(LAMBDA u, p : SetVisible(u, p, FALSE, FALSE), s, q)
<1>1. q \in Seq(Defined(s))
  <2>1. P \in SUBSET Names
    BY DEF Defined
  <2>2. q \in Seq(P)
    BY <2>1, InOrderFacts
  <2> HIDE DEF q
  <2> QED BY <2>2
<1>2. Acted(s, t, L)
  <2> HIDE DEF q
  <2> QED BY <1>1, HideAllActed
<1> HIDE DEF t
<1> DEFINE u == [t EXCEPT !.wins.focus = None]
<1>3. u \in Fallback(t)
  BY DEF Fallback
<1> HIDE DEF u
<1>4. Rests(t, u, L, {})
  BY <1>2, <1>3, FallbackRests DEF Acted
<1>5. Acted(s, u, L)
  BY <1>2, <1>4, RestsActed, ActedTransitive
<1> QED BY <1>5 DEF t, u

\* A window that is in no pad any more goes away.
Gone(t, v) ==
  [t EXCEPT !.wins.mapped = @ \ {v}, !.wins.shown = @ \ {v},
            !.wins.parent = [w \in Views |-> IF w = v \/ @[w] = v THEN None ELSE @[w]]]

Vanishes(t, u, L, v) ==
  /\ Sound(u, L, {}, {}) /\ u.pads = t.pads /\ u.wins.focus = t.wins.focus /\ u.wins.mapped = t.wins.mapped \ {v}
  /\ \A q : Members(u, q) = Members(t, q)

\* A window that was taken out of its pad first can go away.
LEMMA GoneSound ==
  ASSUME NEW L, NEW t, NEW v \in Views, Sound(t, L, {}, {v}), v \notin Entries(t)
  PROVE  Vanishes(t, Gone(t, v), L, v)
<1> DEFINE mapped == t.wins.mapped \ {v}
           shown == t.wins.shown \ {v}
           parent == [w \in Views |-> IF w = v \/ t.wins.parent[w] = v THEN None ELSE t.wins.parent[w]]
           w == [t.wins EXCEPT !.mapped = mapped, !.shown = shown, !.parent = parent]
           u == Gone(t, v)
<1>0. t \in State(L) /\ L \in SUBSET Outputs /\ Roster(t) /\ Screen(t, {v}) /\ Alone(t) /\ t.wins \in Windows
  BY WinFields DEF Sound
<1>1. mapped \in SUBSET Views /\ shown \in SUBSET Views /\ parent \in [Views -> Views \cup {None}]
  BY <1>0, WinFields
<1>2. u.pads = t.pads /\ u.wins = w
  BY <1>0 DEF State, Gone
<1>3. u = [pads |-> u.pads, wins |-> u.wins]
  <2> DEFINE u1 == [t EXCEPT !.wins.mapped = @ \ {v}]
             u2 == [u1 EXCEPT !.wins.shown = @ \ {v}]
             u3 == [u2 EXCEPT !.wins.parent = [x \in Views |-> IF x = v \/ @[x] = v THEN None ELSE @[x]]]
  <2>1. u = u3
    BY DEF Gone
  <2>2. u1 = [pads |-> t.pads, wins |-> u1.wins]
    BY <1>0 DEF State
  <2> HIDE DEF u1
  <2>3. u2 = [pads |-> t.pads, wins |-> u2.wins]
    BY <2>2
  <2> HIDE DEF u2
  <2>4. u3 = [pads |-> t.pads, wins |-> u3.wins]
    BY <2>3
  <2> HIDE DEF u3, u
  <2> QED BY <1>2, <2>1, <2>4
<1> HIDE DEF u
<1>4. \A x \in Views : parent[x] = IF x = v \/ t.wins.parent[x] = v THEN None ELSE t.wins.parent[x]
  OBVIOUS
<1> HIDE DEF mapped, shown, parent
<1>5. /\ w \in Windows /\ w.shown = shown /\ w.mapped = mapped /\ w.parent = parent
      /\ \A x \in {"entries", "pad", "focus", "noted", "hiding"} : w[x] = t.wins[x]
  BY <1>0, <1>1 DEF Windows
<1> HIDE DEF w
<1>6. u \in State(L)
  BY <1>0, <1>2, <1>3, <1>5 DEF State
<1>7. /\ u.wins.entries = t.wins.entries /\ u.wins.pad = t.wins.pad /\ u.wins.focus = t.wins.focus
      /\ u.wins.noted = t.wins.noted /\ u.wins.hiding = t.wins.hiding
      /\ u.wins.shown = shown /\ u.wins.mapped = mapped /\ u.wins.parent = parent
  BY <1>2, <1>5
<1>8. Entries(u) = Entries(t) /\ (\A q : Members(u, q) = Members(t, q)) /\ Defined(u) = Defined(t)
  BY <1>2, <1>7 DEF Entries, Members, Defined
<1>9. Roster(u)
  <2>1. Entries(u) \subseteq u.wins.mapped
    BY <1>0, <1>7, <1>8 DEF Roster, mapped
  <2>2. \A x \in Views : parent[x] \in {None, Owner[x]} \cap (mapped \cup {None})
    BY <1>0, <1>4 DEF Roster, mapped
  <2> QED BY <1>0, <1>2, <1>7, <1>8, <2>1, <2>2 DEF Roster
<1>10. Screen(u, {}) /\ Alone(u)
  BY <1>0, <1>2, <1>7, <1>8 DEF Screen, Alone, mapped, shown
<1>11. ASSUME NEW q \in Defined(t) PROVE Switched(u, q) /\ Displayed(u, q)
  <2>1. Switched(t, q) /\ Displayed(t, q)
    BY DEF Sound
  <2>2. v \notin Members(t, q)
    BY DEF Members
  <2>3. \A x \in Members(t, q) : x \in u.wins.shown <=> x \in t.wins.shown
    BY <1>7, <2>2 DEF shown
  <2> QED BY <1>2, <1>8, <2>1, <2>3 DEF Switched, Displayed, Up
<1>12. Sound(u, L, {}, {})
  BY <1>0, <1>6, <1>8, <1>9, <1>10, <1>11 DEF Sound
<1>13. Vanishes(t, u, L, v)
  BY <1>2, <1>7, <1>8, <1>12 DEF Vanishes, mapped
<1> QED BY <1>13 DEF u

\* handleUnmap
LEMMA CloseActed ==
  ASSUME NEW L, NEW s, Sound(s, L, {}, {}), s.wins.focus \in s.wins.mapped \cup {None}, NEW v \in s.wins.mapped,
         NEW x \in LET t == IF v \in Entries(s) THEN Leaves(s, v) ELSE s
                       u == Gone(t, v)
                   IN IF s.wins.focus = v THEN Fallback(u) ELSE {u}
  PROVE  Acted(s, x, L)
<1> DEFINE t == IF v \in Entries(s) THEN Leaves(s, v) ELSE s
           u == Gone(t, v)
<1>0. v \in Views /\ L \in SUBSET Outputs
  BY WinFields DEF Sound
<1>1. /\ Sound(t, L, {}, {v}) /\ v \notin Entries(t) /\ Defined(t) = Defined(s)
      /\ \A q \in Names : Members(t, q) \subseteq Members(s, q)
      /\ \A q \in Defined(s) : t.pads[q].output = s.pads[q].output /\ t.pads[q].home = s.pads[q].home
      /\ t.wins.mapped = s.wins.mapped /\ t.wins.focus = s.wins.focus
  <2>1. CASE v \in Entries(s)
    <3>1. Departs(s, Leaves(s, v), L, {v}, v)
      BY <2>1, LeavesSound
    <3> DEFINE m == Leaves(s, v)
    <3> HIDE DEF m
    <3>2. /\ Sound(m, L, {}, {v}) /\ v \notin Entries(m) /\ Defined(m) = Defined(s)
          /\ \A q \in Names : Members(m, q) \subseteq Members(s, q)
          /\ \A q \in Defined(s) : m.pads[q].output = s.pads[q].output /\ m.pads[q].home = s.pads[q].home
          /\ m.wins.mapped = s.wins.mapped /\ m.wins.focus = s.wins.focus
      BY <3>1 DEF m, Departs
    <3> QED BY <2>1, <3>2 DEF m
  <2>2. CASE v \notin Entries(s)
    <3>1. Sound(s, L, {}, {v})
      BY DEF Sound, Screen
    <3> QED BY <2>2, <3>1
  <2> QED BY <2>1, <2>2
<1> HIDE DEF t
<1>2. Vanishes(t, u, L, v)
  BY <1>0, <1>1, GoneSound
<1>3. x \in IF s.wins.focus = v THEN Fallback(u) ELSE {u}
  BY DEF t
<1> HIDE DEF u
<1>4. /\ Sound(u, L, {}, {}) /\ u.wins.focus = s.wins.focus /\ u.wins.mapped = s.wins.mapped \ {v}
      /\ Defined(u) = Defined(s) /\ \A q \in Names : Members(u, q) \subseteq Members(s, q)
      /\ \A q \in Defined(s) : u.pads[q].output = s.pads[q].output /\ u.pads[q].home = s.pads[q].home
  BY <1>1, <1>2 DEF Vanishes, Defined
<1>5. Defined(s) \subseteq Names
  BY DEF Defined
<1>6. CASE s.wins.focus = v
  <2>1. Rests(u, x, L, {})
    BY <1>3, <1>4, <1>6, FallbackRests
  <2>2. Stays(u, x) /\ Sound(x, L, {}, {}) /\ x.wins.focus \in x.wins.shown \cup {None}
    BY <2>1 DEF Rests
  <2>3. x.wins.focus \in x.wins.mapped \cup {None}
    BY <2>2 DEF Sound, Screen
  <2>4. Defined(x) = Defined(s) /\ (\A q : Members(x, q) = Members(u, q))
    BY <1>4, <2>2, StaysMembers
  <2>5. Homed(s, x)
    BY <1>4, <2>2, <2>4 DEF Homed, Stays
  <2>6. Housed(s, x)
    BY <1>4, <1>5, <2>4 DEF Housed
  <2> QED BY <2>2, <2>3, <2>4, <2>5, <2>6 DEF Acted
<1>7. CASE s.wins.focus # v
  <2>1. x = u
    BY <1>3, <1>7
  <2>2. Homed(s, u) /\ Housed(s, u) /\ u.wins.focus \in u.wins.mapped \cup {None}
    BY <1>4, <1>5, <1>7 DEF Homed, Housed
  <2> QED BY <1>4, <2>1, <2>2 DEF Acted
<1> QED BY <1>6, <1>7

\* A window that opens, or one whose parent changes.
Opened(s, v, parent) ==
  [s EXCEPT !.wins.mapped = @ \cup {v}, !.wins.shown = @ \cup {v}, !.wins.parent[v] = parent]

\* handleMap before any pad is asked.
LEMMA OpenedActed ==
  ASSUME NEW L, NEW s, Sound(s, L, {}, {}), s.wins.focus \in s.wins.mapped \cup {None}, NEW v \in Views,
         v \notin s.wins.mapped, NEW parent \in {None, Owner[v]} \cap (s.wins.mapped \cup {None})
  PROVE  /\ Acted(s, Opened(s, v, parent), L)
         /\ v \in Opened(s, v, parent).wins.mapped
<1> DEFINE mapped == s.wins.mapped \cup {v}
           shown == s.wins.shown \cup {v}
           parents == [s.wins.parent EXCEPT ![v] = parent]
           w == [s.wins EXCEPT !.mapped = mapped, !.shown = shown, !.parent = parents]
           u == Opened(s, v, parent)
<1>0. s \in State(L) /\ L \in SUBSET Outputs /\ Roster(s) /\ Screen(s, {}) /\ Alone(s) /\ s.wins \in Windows
      /\ s.wins.parent \in [Views -> Views \cup {None}]
  BY WinFields DEF Sound
<1>1. /\ mapped \in SUBSET Views /\ shown \in SUBSET Views
      /\ parents \in [Views -> Views \cup {None}] /\ \A x \in Views : parents[x] = IF x = v THEN parent ELSE s.wins.parent[x]
  BY <1>0, WinFields
<1>2. u.pads = s.pads /\ u.wins = w
  BY <1>0 DEF State, Opened, Windows
<1>3. u = [pads |-> u.pads, wins |-> u.wins]
  <2> DEFINE u1 == [s EXCEPT !.wins.mapped = @ \cup {v}]
             u2 == [u1 EXCEPT !.wins.shown = @ \cup {v}]
             u3 == [u2 EXCEPT !.wins.parent[v] = parent]
  <2>1. u = u3
    BY DEF Opened
  <2>2. u1 = [pads |-> s.pads, wins |-> u1.wins]
    BY <1>0 DEF State
  <2> HIDE DEF u1
  <2>3. u2 = [pads |-> s.pads, wins |-> u2.wins]
    BY <2>2
  <2> HIDE DEF u2
  <2>4. u3 = [pads |-> s.pads, wins |-> u3.wins]
    BY <2>3
  <2> HIDE DEF u3, u
  <2> QED BY <1>2, <2>1, <2>4
<1> HIDE DEF u, mapped, shown, parents
<1>4. /\ w \in Windows /\ w.shown = shown /\ w.mapped = mapped /\ w.parent = parents
      /\ \A x \in {"entries", "pad", "focus", "noted", "hiding"} : w[x] = s.wins[x]
  BY <1>0, <1>1 DEF Windows
<1> HIDE DEF w
<1>5. u \in State(L)
  BY <1>0, <1>2, <1>3, <1>4 DEF State
<1>6. /\ u.wins.entries = s.wins.entries /\ u.wins.pad = s.wins.pad /\ u.wins.focus = s.wins.focus
      /\ u.wins.noted = s.wins.noted /\ u.wins.hiding = s.wins.hiding
      /\ u.wins.shown = shown /\ u.wins.mapped = mapped /\ u.wins.parent = parents
  BY <1>2, <1>4
<1>7. Entries(u) = Entries(s) /\ (\A q : Members(u, q) = Members(s, q)) /\ Defined(u) = Defined(s)
  BY <1>2, <1>6 DEF Entries, Members, Defined
<1>8. v \notin Entries(s)
  BY <1>0 DEF Roster
<1>9. Roster(u)
  <2>1. \A x \in Views : parents[x] \in {None, Owner[x]} \cap (mapped \cup {None})
    BY <1>0, <1>1 DEF Roster, mapped
  <2> QED BY <1>0, <1>2, <1>6, <1>7, <2>1 DEF Roster, mapped
<1>10. Screen(u, {}) /\ Alone(u)
  BY <1>0, <1>2, <1>6, <1>7, <1>8 DEF Screen, Alone, mapped, shown
<1>11. ASSUME NEW q \in Defined(s) PROVE Switched(u, q) /\ Displayed(u, q)
  <2>1. Switched(s, q) /\ Displayed(s, q)
    BY DEF Sound
  <2>2. v \notin Members(s, q)
    BY <1>8 DEF Members
  <2>3. \A x \in Members(s, q) : x \in u.wins.shown <=> x \in s.wins.shown
    BY <1>6, <2>2 DEF shown
  <2> QED BY <1>2, <1>7, <2>1, <2>3 DEF Switched, Displayed, Up
<1>12. Sound(u, L, {}, {})
  BY <1>0, <1>5, <1>7, <1>9, <1>10, <1>11 DEF Sound
<1>13. Homed(s, u) /\ Housed(s, u) /\ u.wins.focus \in u.wins.mapped \cup {None}
  BY <1>2, <1>6, <1>7, AlikeHoused DEF Homed, mapped
<1>14. Acted(s, u, L) /\ v \in u.wins.mapped
  BY <1>6, <1>7, <1>12, <1>13 DEF Acted, mapped
<1> QED BY <1>14 DEF u

Reparented(s, v, parent) == [s EXCEPT !.wins.parent[v] = parent]

\* handleSetParent before any pad is asked.
LEMMA ReparentedActed ==
  ASSUME NEW L, NEW s, Sound(s, L, {}, {}), s.wins.focus \in s.wins.mapped \cup {None}, NEW v \in s.wins.mapped,
         NEW parent \in {None, Owner[v]} \cap (s.wins.mapped \cup {None})
  PROVE  Acted(s, Reparented(s, v, parent), L) /\ Reparented(s, v, parent).wins.mapped = s.wins.mapped
<1> DEFINE parents == [s.wins.parent EXCEPT ![v] = parent]
           w == [s.wins EXCEPT !.parent = parents]
           u == Reparented(s, v, parent)
<1>0. s \in State(L) /\ L \in SUBSET Outputs /\ Roster(s) /\ Screen(s, {}) /\ Alone(s) /\ s.wins \in Windows
      /\ s.wins.parent \in [Views -> Views \cup {None}] /\ s.wins.mapped \in SUBSET Views
  BY WinFields DEF Sound
<1>1. parents \in [Views -> Views \cup {None}] /\ \A x \in Views : parents[x] = IF x = v THEN parent ELSE s.wins.parent[x]
  BY <1>0
<1>2. u.pads = s.pads /\ u.wins = w /\ u = [pads |-> u.pads, wins |-> u.wins]
  <2>1. u.pads = s.pads /\ u = [pads |-> u.pads, wins |-> u.wins]
    BY <1>0 DEF State, Reparented
  <2>2. u.wins = w
    BY <1>0 DEF State, Reparented
  <2> QED BY <2>1, <2>2
<1> HIDE DEF u, parents
<1>4. /\ w \in Windows /\ w.parent = parents
      /\ \A x \in {"mapped", "shown", "entries", "pad", "focus", "noted", "hiding"} : w[x] = s.wins[x]
  BY <1>0, <1>1 DEF Windows
<1> HIDE DEF w
<1>5. u \in State(L)
  BY <1>0, <1>2, <1>4 DEF State
<1>6. /\ u.wins.entries = s.wins.entries /\ u.wins.pad = s.wins.pad /\ u.wins.focus = s.wins.focus
      /\ u.wins.noted = s.wins.noted /\ u.wins.hiding = s.wins.hiding
      /\ u.wins.shown = s.wins.shown /\ u.wins.mapped = s.wins.mapped /\ u.wins.parent = parents
  BY <1>2, <1>4
<1>7. Entries(u) = Entries(s) /\ (\A q : Members(u, q) = Members(s, q)) /\ Defined(u) = Defined(s)
  BY <1>2, <1>6 DEF Entries, Members, Defined
<1>8. \A x \in Views : parents[x] \in {None, Owner[x]} \cap (s.wins.mapped \cup {None})
  BY <1>0, <1>1 DEF Roster
<1>9. Roster(u) /\ Screen(u, {}) /\ Alone(u)
  BY <1>0, <1>2, <1>6, <1>7, <1>8 DEF Roster, Screen, Alone
<1>10. \A q \in Defined(s) : Switched(u, q) /\ Displayed(u, q)
  <2>1. \A q \in Defined(s) : Switched(s, q) /\ Displayed(s, q)
    BY DEF Sound
  <2> QED BY <1>2, <1>6, <1>7, <2>1 DEF Switched, Displayed, Up
<1>11. Sound(u, L, {}, {})
  BY <1>0, <1>5, <1>7, <1>9, <1>10 DEF Sound
<1>12. Homed(s, u) /\ Housed(s, u)
  BY <1>2, <1>7, AlikeHoused DEF Homed
<1>13. Acted(s, u, L) /\ u.wins.mapped = s.wins.mapped
  BY <1>6, <1>7, <1>11, <1>12 DEF Acted
<1> QED BY <1>13 DEF u

\* The end of a fade disables the node of a window, which is hidden already.
Faded(s, v) == [s EXCEPT !.wins.hiding = @ \ {v}]

\* tickAnimations at the end of a fade.
LEMMA FadedActed ==
  ASSUME NEW L, NEW s, Sound(s, L, {}, {}), s.wins.focus \in s.wins.mapped \cup {None}, NEW v
  PROVE  /\ Acted(s, Faded(s, v), L)
         /\ Faded(s, v).pads = s.pads /\ Faded(s, v).wins = [s.wins EXCEPT !.hiding = @ \ {v}]
<1> DEFINE hiding == s.wins.hiding \ {v}
           w == [s.wins EXCEPT !.hiding = hiding]
           u == Faded(s, v)
<1>0. s \in State(L) /\ L \in SUBSET Outputs /\ Roster(s) /\ Screen(s, {}) /\ Alone(s) /\ s.wins \in Windows
      /\ s.wins.hiding \in SUBSET Views
  BY WinFields DEF Sound
<1>1. hiding \in SUBSET Views
  BY <1>0
<1>2. u.pads = s.pads /\ u.wins = w /\ u = [pads |-> u.pads, wins |-> u.wins]
  <2>1. u.pads = s.pads /\ u = [pads |-> u.pads, wins |-> u.wins]
    BY <1>0 DEF State, Faded
  <2>2. u.wins = w
    BY <1>0 DEF State, Faded
  <2> QED BY <2>1, <2>2
<1>3. u.wins = [s.wins EXCEPT !.hiding = @ \ {v}]
  BY <1>2
<1> HIDE DEF u, hiding
<1>4. /\ w \in Windows /\ w.hiding = hiding
      /\ \A x \in {"mapped", "shown", "entries", "pad", "focus", "noted", "parent"} : w[x] = s.wins[x]
  BY <1>0, <1>1 DEF Windows
<1> HIDE DEF w
<1>5. u \in State(L)
  BY <1>0, <1>2, <1>4 DEF State
<1>6. /\ u.wins.entries = s.wins.entries /\ u.wins.pad = s.wins.pad /\ u.wins.focus = s.wins.focus
      /\ u.wins.noted = s.wins.noted /\ u.wins.hiding = hiding
      /\ u.wins.shown = s.wins.shown /\ u.wins.mapped = s.wins.mapped /\ u.wins.parent = s.wins.parent
  BY <1>2, <1>4
<1>7. Entries(u) = Entries(s) /\ (\A q : Members(u, q) = Members(s, q)) /\ Defined(u) = Defined(s)
  BY <1>2, <1>6 DEF Entries, Members, Defined
<1>8. Alike(s, u)
  BY <1>6, <1>7 DEF Alike
<1>9. Roster(u) /\ Screen(u, {}) /\ Alone(u)
  BY <1>0, <1>2, <1>6, <1>7 DEF Roster, Screen, Alone, hiding
<1>10. \A q \in Defined(s) : Switched(u, q) /\ Displayed(u, q)
  <2>1. \A q \in Defined(s) : Switched(s, q) /\ Displayed(s, q)
    BY DEF Sound
  <2> QED BY <1>2, <1>6, <1>7, <2>1 DEF Switched, Displayed, Up
<1>11. Sound(u, L, {}, {})
  BY <1>0, <1>5, <1>7, <1>9, <1>10 DEF Sound
<1>12. Homed(s, u)
  BY <1>2 DEF Homed
<1>13. Acted(s, u, L)
  BY <1>8, <1>11, <1>12, AlikeActed
<1> QED BY <1>2, <1>3, <1>13 DEF u

\* What an act makes of the pads when it may also add and remove some.
Done(s, t, L) ==
  /\ Sound(t, L, {}, {}) /\ t.wins.focus \in t.wins.mapped \cup {None}
  /\ Homed(s, t) /\ Housed(s, t) /\ \A q \in Defined(t) \ Defined(s) : t.pads[q].home = None

\* An act that defines no pad and takes none away.
LEMMA ActedDone == ASSUME NEW L, NEW s, NEW t, Acted(s, t, L) PROVE Done(s, t, L)
BY DEF Acted, Done

\* What window-restore-from-scratchpad makes of the pad with the keyboard.
LEMMA RestoreFocusedActed ==
  ASSUME NEW L, NEW s, Sound(s, L, {}, {}), s.wins.focus \in s.wins.mapped \cup {None}, NEW v \in Entries(s)
  PROVE  LET t == FocusView(RestoreView(s, v), v) IN Acted(s, t, L) /\ Lands(s, t)
<1> DEFINE u == RestoreView(s, v)
<1>1. Departs(s, u, L, {}, v) /\ v \in u.wins.shown
  BY RestoreViewSound
<1> HIDE DEF u
<1>2. Acted(s, u, L)
  BY <1>1, DepartsActed
<1>3. Acted(u, FocusView(u, v), L) /\ FocusView(u, v).wins.focus \in FocusView(u, v).wins.shown
  BY <1>1, <1>2, FocusActed DEF Acted
<1>4. Acted(s, FocusView(u, v), L) /\ Lands(s, FocusView(u, v))
  BY <1>2, <1>3, ActedTransitive DEF Lands
<1> QED BY <1>4 DEF u

\* reconcileConfig
LEMMA ReconcileDone ==
  ASSUME NEW L, NEW s, Sound(s, L, {}, {}), s.wins.focus \in s.wins.mapped \cup {None}, NEW names \in SUBSET Names,
         NEW lit,
         NEW t \in LET u == Reconciled(s, names)
                   IN IF \E p \in Defined(s) \ names : Members(s, p) # {} THEN Refocus(u, lit) ELSE {u}
  PROVE  Done(s, t, L) /\ Lands(s, t)
<1> DEFINE u == Reconciled(s, names)
<1>1. Reconciles(s, u, L, names)
  BY ReconciledSound
<1>2. t \in IF \E p \in Defined(s) \ names : Members(s, p) # {} THEN Refocus(u, lit) ELSE {u}
  OBVIOUS
<1> HIDE DEF u
<1>3. /\ Sound(u, L, {}, {}) /\ u.wins.focus \in u.wins.mapped \cup {None} /\ Defined(u) = names
      /\ \A r \in names \cap Defined(s) : /\ u.pads[r].output = s.pads[r].output /\ u.pads[r].home = s.pads[r].home
                                          /\ Members(u, r) = Members(s, r)
      /\ \A r \in names \ Defined(s) : u.pads[r] = Fresh /\ Members(u, r) = {}
      /\ (\A r \in Defined(s) \ names : Members(s, r) = {}) => u.wins = s.wins
  BY <1>1 DEF Reconciles
<1>4. (t = u /\ u.wins = s.wins) \/ Rests(u, t, L, {})
  BY <1>2, <1>3, RefocusRests
<1>5. /\ Sound(t, L, {}, {}) /\ t.wins.focus \in t.wins.mapped \cup {None} /\ Stays(u, t)
  <2>1. CASE t = u
    BY <1>3, <2>1, StaysReflexive
  <2>2. CASE Rests(u, t, L, {})
    BY <2>2 DEF Rests, Sound, Screen
  <2> QED BY <1>4, <2>1, <2>2
<1>6. Defined(t) = names /\ (\A q : Members(t, q) = Members(u, q))
  BY <1>3, <1>5, StaysMembers
<1>7. Homed(s, t)
  BY <1>3, <1>5, <1>6 DEF Homed, Stays
<1>8. Housed(s, t)
  BY <1>3, <1>6 DEF Housed
<1>9. \A q \in Defined(t) \ Defined(s) : t.pads[q].home = None
  <2>1. Fresh.home = None
    BY DEF Fresh
  <2> QED BY <1>3, <1>5, <1>6, <2>1 DEF Stays
<1>10. Lands(s, t)
  BY <1>4 DEF Lands, Rests
<1> QED BY <1>5, <1>7, <1>8, <1>9, <1>10 DEF Done

-----------------------------------------------------------------------------
(* The invariant.                                                          *)

Fine == Sound(Now, Listed, {}, {}) /\ wins.focus \in wins.mapped \cup {None}

Plugged ==
  /\ desk \in Desk /\ desk.lit \subseteq desk.desktop /\ desk.desktop \subseteq Listed /\ events \in 0 .. MaxEvents

\* The home of a displaced pad is where it was last put.
Remembered == \A p \in Names : placed[p] = IF pads[p] = None THEN None ELSE Place(Now, p)

\* What is displaced and can go home, or could have an output, has a restore due.
AtHome ==
  ~desk.idle => \A p \in Defined(Now) :
    /\ pads[p].home # None => pads[p].home \notin desk.lit
    /\ Members(Now, p) # {} /\ desk.lit # {} => pads[p].output # None

Inv == Fine /\ Plugged /\ Remembered /\ AtHome

\* What the handlers may rely on.
LEMMA InvFacts ==
  ASSUME Inv
  PROVE  /\ Sound(Now, Listed, {}, {}) /\ Now.wins.focus \in Now.wins.mapped \cup {None}
         /\ Now.pads = pads /\ Now.wins = wins /\ Listed \in SUBSET Outputs
         /\ desk.listed \in Seq(Outputs) /\ desk.lit \in SUBSET Listed /\ desk.desktop \in SUBSET Listed
         /\ \A o \in Preferred : o # None => o \in Listed
<1>1. Sound(Now, Listed, {}, {}) /\ Now.wins.focus \in Now.wins.mapped \cup {None} /\ Now.pads = pads /\ Now.wins = wins
  BY DEF Inv, Fine, Now
<1>2. Listed \in SUBSET Outputs
  BY <1>1 DEF Sound
<1>3. desk.listed \in Seq(Outputs) /\ desk.lit \in SUBSET Listed /\ desk.desktop \in SUBSET Listed
  BY DEF Inv, Plugged, Desk
<1> QED BY <1>1, <1>2, <1>3 DEF Preferred

\* The next state is what the handler computed.
LEMMA Became ==
  ASSUME NEW L, NEW s \in State(L), Become(s)
  PROVE  Now' = s
BY DEF Become, Now, State

\* Whatever an act does, it keeps the invariant.
LEMMA DoneKept ==
  ASSUME Inv, NEW s, Done(Now, s, Listed), Become(s), Wished, UNCHANGED desk, Happens
  PROVE  Inv'
<1>0. s \in State(Listed)
  BY DEF Done, Sound
<1>1. Now' = s /\ pads' = s.pads /\ wins' = s.wins
  BY <1>0, Became DEF Become
<1>2. Listed' = Listed
  BY DEF Listed
<1>3. Fine'
  BY <1>1, <1>2 DEF Done, Fine
<1>4. Plugged'
  <2>1. events - 1 \in 0 .. MaxEvents
    BY PadsAssumption DEF Inv, Plugged, Happens
  <2> QED BY <1>2, <2>1 DEF Inv, Plugged, Happens
<1>5. /\ \A p \in Names : placed[p] = IF pads[p] = None THEN None ELSE Place(Now, p)
      /\ Homed(Now, s) /\ Housed(Now, s) /\ \A q \in Defined(s) \ Defined(Now) : s.pads[q].home = None
  BY DEF Inv, Remembered, Done
<1>6. /\ \A p : p \in Defined(s) <=> p \in Names /\ pads'[p] # None
      /\ \A p : p \in Defined(Now) <=> p \in Names /\ pads[p] # None
  BY <1>1 DEF Defined, Now
<1>7. Remembered'
  <2> SUFFICES ASSUME NEW p \in Names PROVE placed'[p] = IF pads'[p] = None THEN None ELSE Place(s, p)
    BY <1>1 DEF Remembered
  <2>1. placed'[p] = IF pads'[p] = None THEN None
                     ELSE IF \/ pads[p] = None \/ pads'[p].output # pads[p].output
                             \/ pads[p].home # None /\ pads'[p].home = None
                          THEN pads'[p].output ELSE placed[p]
    BY DEF Wished
  <2>2. CASE pads'[p] = None
    BY <2>1, <2>2
  <2>3. CASE pads'[p] # None /\ pads[p] = None
    <3>1. s.pads[p].home = None
      BY <1>5, <1>6, <2>3
    <3> QED BY <1>1, <2>1, <2>3, <3>1 DEF Place
  <2>4. CASE pads'[p] # None /\ pads[p] # None
    <3>1. \/ s.pads[p].output = pads[p].output /\ s.pads[p].home = pads[p].home
          \/ s.pads[p].output # None /\ s.pads[p].home = None
      BY <1>5, <1>6, <2>4 DEF Homed, Now
    <3>2. placed[p] = IF pads[p].home = None THEN pads[p].output ELSE pads[p].home
      BY <1>5, <2>4 DEF Place, Now
    <3> QED BY <1>1, <2>1, <2>4, <3>1, <3>2 DEF Place
  <2> QED BY <2>2, <2>3, <2>4
<1>8. AtHome'
  <2> SUFFICES ASSUME ~desk.idle, NEW p \in Defined(s)
               PROVE  /\ s.pads[p].home # None => s.pads[p].home \notin desk.lit
                      /\ Members(s, p) # {} /\ desk.lit # {} => s.pads[p].output # None
    BY <1>1 DEF AtHome
  <2>1. p \in Defined(Now) =>
          /\ pads[p].home # None => pads[p].home \notin desk.lit
          /\ Members(Now, p) # {} /\ desk.lit # {} => pads[p].output # None
    BY DEF Inv, AtHome
  <2>2. p \notin Defined(Now) => s.pads[p].home = None /\ Members(Now, p) = {}
    <3>1. Roster(Now)
      BY DEF Inv, Fine, Sound
    <3> QED BY <1>5, <3>1 DEF Roster, Members
  <2>3. p \in Defined(Now) =>
          \/ s.pads[p].output = pads[p].output /\ s.pads[p].home = pads[p].home
          \/ s.pads[p].output # None /\ s.pads[p].home = None
    BY <1>5 DEF Homed, Now
  <2>4. Members(s, p) # {} => Members(Now, p) # {} \/ s.pads[p].output # None
    BY <1>5 DEF Housed
  <2> QED BY <2>1, <2>2, <2>3, <2>4
<1> QED BY <1>3, <1>4, <1>7, <1>8 DEF Inv

\* An act whose every outcome is sound keeps the invariant.
LEMMA ActKept ==
  ASSUME Inv, NEW results, Act(results), \A t \in results : Done(Now, t, Listed)
  PROVE  Inv' /\ \E t \in results : Now' = t
<1>1. PICK s \in results : Become(s) /\ Wished /\ UNCHANGED desk /\ Happens
  BY DEF Act
<1>2. Done(Now, s, Listed)
  BY <1>1
<1>3. Inv'
  BY <1>1, <1>2, DoneKept
<1>4. Now' = s
  BY <1>1, <1>2, Became DEF Done, Sound
<1> QED BY <1>1, <1>3, <1>4

\* handleMap without a pad keeps the invariant.
LEMMA MapViewKept ==
  ASSUME Inv, NEW v \in Views, NEW parent, NEW focused, NEW inherits, MapView(v, parent, focused, inherits)
  PROVE  Inv'
<1> DEFINE m == Mapped(v, parent)
           R == {IF focused THEN FocusView(t, v) ELSE t : t \in Inherit(m, v, inherits)}
<1>0. Sound(Now, Listed, {}, {}) /\ Now.wins.focus \in Now.wins.mapped \cup {None} /\ Now.wins = wins
  BY InvFacts
<1>1. Act(R) /\ v \notin wins.mapped /\ parent \in {None, Owner[v]} \cap (wins.mapped \cup {None})
  BY DEF MapView, Maps
<1>2. m = Opened(Now, v, parent)
  BY DEF Mapped, Opened
<1>3. Acted(Now, m, Listed) /\ v \in m.wins.mapped
  BY <1>0, <1>1, <1>2, OpenedActed
<1>4. ASSUME NEW t \in R PROVE Done(Now, t, Listed)
  <2>1. PICK u \in Inherit(m, v, inherits) : t = IF focused THEN FocusView(u, v) ELSE u
    OBVIOUS
  <2> HIDE DEF m
  <2>2. Acted(m, u, Listed)
    BY <1>3, InheritSound DEF Acted
  <2>3. Acted(u, FocusView(u, v), Listed)
    BY <2>2, FocusActed DEF Acted
  <2>4. Acted(Now, u, Listed) /\ Acted(Now, FocusView(u, v), Listed)
    BY <1>3, <2>2, <2>3, ActedTransitive
  <2> QED BY <2>1, <2>4, ActedDone
<1> HIDE DEF R
<1> QED BY <1>1, <1>4, ActKept

\* A window that is put in a pad, which may be summoned for it.
LEMMA AskedActed ==
  ASSUME NEW L, NEW s, NEW t, NEW v, NEW p \in Defined(s), Admits(s, t, L, v, p), NEW o \in L
  PROVE  Acted(s, Summon(t, p, o, v), L)
<1>1. Acted(s, t, L) /\ v \in Members(t, p) /\ p \in Defined(t)
  BY DEF Admits, Acted
<1>2. Acted(t, Summon(t, p, o, v), L)
  BY <1>1, SummonActed DEF Acted
<1> QED BY <1>1, <1>2, ActedTransitive

\* handleMap with a pad from a window rule keeps the invariant.
LEMMA MapIntoPadKept ==
  ASSUME Inv, NEW v \in Views, NEW parent, NEW p, NEW ask, NEW o \in desk.desktop, MapIntoPad(v, parent, p, ask, o)
  PROVE  Inv'
<1> DEFINE m == Mapped(v, parent)
           asked(t) == IF ask = "yes" THEN Summon(t, p, o, v) ELSE t
           R == {IF ask = "no" THEN t ELSE FocusView(asked(t), v) : t \in AssignByRule(m, v, p, o)}
<1>0. Sound(Now, Listed, {}, {}) /\ Now.wins.focus \in Now.wins.mapped \cup {None} /\ Now.wins = wins /\ o \in Listed
  BY InvFacts
<1>1. Act(R) /\ v \notin wins.mapped /\ parent \in {None, Owner[v]} \cap (wins.mapped \cup {None}) /\ p \in Defined(Now)
  BY DEF MapIntoPad, Maps
<1>2. m = Opened(Now, v, parent)
  BY DEF Mapped, Opened
<1>3. Acted(Now, m, Listed) /\ v \in m.wins.mapped
  BY <1>0, <1>1, <1>2, OpenedActed
<1>4. ASSUME NEW t \in R PROVE Done(Now, t, Listed)
  <2>1. PICK u \in AssignByRule(m, v, p, o) : t = IF ask = "no" THEN u ELSE FocusView(asked(u), v)
    OBVIOUS
  <2> HIDE DEF m
  <2>2. p \in Defined(m)
    BY <1>1, <1>3 DEF Acted
  <2>3. Admits(m, u, Listed, v, p)
    BY <1>0, <1>3, <2>2, AssignByRuleSound DEF Acted
  <2>4. Acted(m, u, Listed) /\ Acted(m, Summon(u, p, o, v), Listed)
    BY <1>0, <2>2, <2>3, AskedActed DEF Admits
  <2>5. Acted(m, asked(u), Listed)
    BY <2>4
  <2> HIDE DEF asked
  <2>6. Acted(asked(u), FocusView(asked(u), v), Listed)
    BY <2>5, FocusActed DEF Acted
  <2>7. Acted(Now, u, Listed) /\ Acted(Now, FocusView(asked(u), v), Listed)
    BY <1>3, <2>4, <2>5, <2>6, ActedTransitive
  <2> QED BY <2>1, <2>7, ActedDone
<1> HIDE DEF R
<1> QED BY <1>1, <1>4, ActKept

\* reapplyInitialWindowRules keeps the invariant.
LEMMA LateRuleKept ==
  ASSUME Inv, NEW v \in Views, NEW p, NEW ask, NEW o \in desk.desktop, LateRule(v, p, ask, o)
  PROVE  Inv'
<1> DEFINE asked(t) == IF ask THEN Summon(t, p, o, v) ELSE t
           again(t) == IF ask /\ wins.focus = v THEN FocusView(t, v) ELSE t
           R == {again(asked(t)) : t \in AssignByRule(Now, v, p, o)}
<1>0. Sound(Now, Listed, {}, {}) /\ Now.wins.focus \in Now.wins.mapped \cup {None} /\ Now.wins = wins /\ o \in Listed
  BY InvFacts
<1>1. Act(R) /\ v \in wins.mapped /\ p \in Defined(Now)
  BY DEF LateRule
<1>2. ASSUME NEW t \in R PROVE Done(Now, t, Listed)
  <2>1. PICK u \in AssignByRule(Now, v, p, o) : t = again(asked(u))
    OBVIOUS
  <2>2. Admits(Now, u, Listed, v, p)
    BY <1>0, <1>1, AssignByRuleSound
  <2>3. Acted(Now, u, Listed) /\ Acted(Now, Summon(u, p, o, v), Listed)
    BY <1>0, <1>1, <2>2, AskedActed DEF Admits
  <2>4. Acted(Now, asked(u), Listed)
    BY <2>3
  <2> HIDE DEF asked
  <2>5. Acted(asked(u), FocusView(asked(u), v), Listed)
    BY <2>4, FocusActed DEF Acted
  <2>6. Acted(Now, FocusView(asked(u), v), Listed)
    BY <2>4, <2>5, ActedTransitive
  <2>7. Acted(Now, t, Listed)
    BY <2>1, <2>4, <2>6
  <2> QED BY <2>7, ActedDone
<1> HIDE DEF R
<1> QED BY <1>1, <1>2, ActKept

\* handleSetParent keeps the invariant.
LEMMA SetParentKept ==
  ASSUME Inv, NEW v \in Views, NEW parent, NEW inherits, SetParent(v, parent, inherits)
  PROVE  Inv'
<1> DEFINE m == Reparented(Now, v, parent)
           R == Inherit(m, v, inherits)
<1>0. Sound(Now, Listed, {}, {}) /\ Now.wins.focus \in Now.wins.mapped \cup {None} /\ Now.wins = wins
  BY InvFacts
<1>1. Act(R) /\ v \in wins.mapped /\ parent \in {None, Owner[v]} \cap (wins.mapped \cup {None})
  BY DEF SetParent, Reparented
<1>2. Acted(Now, m, Listed) /\ m.wins.mapped = wins.mapped
  BY <1>0, <1>1, ReparentedActed
<1>3. ASSUME NEW t \in R PROVE Done(Now, t, Listed)
  <2> HIDE DEF m
  <2>1. Acted(m, t, Listed)
    BY <1>1, <1>2, InheritSound DEF Acted
  <2>2. Acted(Now, t, Listed)
    BY <1>2, <2>1, ActedTransitive
  <2> QED BY <2>2, ActedDone
<1> HIDE DEF R
<1> QED BY <1>1, <1>3, ActKept

\* handleUnmap keeps the invariant.
LEMMA CloseViewKept ==
  ASSUME Inv, NEW v \in Views, CloseView(v)
  PROVE  Inv'
<1> DEFINE t == IF v \in Entries(Now) THEN Leaves(Now, v) ELSE Now
           u == Gone(t, v)
           R == IF wins.focus = v THEN Fallback(u) ELSE {u}
<1>0. Sound(Now, Listed, {}, {}) /\ Now.wins.focus \in Now.wins.mapped \cup {None} /\ Now.wins = wins
  BY InvFacts
<1>1. Act(R) /\ v \in wins.mapped
  BY DEF CloseView, Gone
<1>2. ASSUME NEW x \in R PROVE Done(Now, x, Listed)
  <2>1. Acted(Now, x, Listed)
    BY <1>0, <1>1, CloseActed
  <2> QED BY <2>1, ActedDone
<1> HIDE DEF R
<1> QED BY <1>1, <1>2, ActKept

\* A click keeps the invariant.
LEMMA FocusKept ==
  ASSUME Inv, NEW v \in Views, Focus(v)
  PROVE  Inv'
<1> DEFINE R == {FocusView(Now, v)}
<1>1. Act(R)
  BY DEF Focus
<1>2. Acted(Now, FocusView(Now, v), Listed)
  BY InvFacts, FocusActed
<1>3. \A t \in R : Done(Now, t, Listed)
  BY <1>2, ActedDone
<1> HIDE DEF R
<1> QED BY <1>1, <1>3, ActKept

\* window-focus keeps the invariant.
LEMMA FocusByIdKept ==
  ASSUME Inv, NEW v \in Views, NEW o \in Preferred, FocusById(v, o)
  PROVE  Inv'
<1> DEFINE p == wins.pad[v]
           u == IF o = None THEN Now ELSE Summon(Now, p, o, v)
           R == {FocusView(u, v)}
<1>0. /\ Sound(Now, Listed, {}, {}) /\ Now.wins.focus \in Now.wins.mapped \cup {None} /\ Now.wins = wins
      /\ o # None => o \in Listed
  BY InvFacts
<1>1. Act(R) /\ v \in Entries(Now)
  BY DEF FocusById
<1>2. p \in Defined(Now) /\ v \in Members(Now, p)
  BY <1>0, <1>1 DEF Sound, Roster, Members
<1>3. Acted(Now, u, Listed)
  <2> HIDE DEF p
  <2>1. CASE o = None
    BY <1>0, <2>1, ActedReflexive
  <2>2. CASE o # None
    BY <1>0, <1>2, <2>2, SummonActed
  <2> QED BY <2>1, <2>2
<1> HIDE DEF u
<1>4. Acted(u, FocusView(u, v), Listed)
  BY <1>3, FocusActed DEF Acted
<1>5. \A t \in R : Done(Now, t, Listed)
  BY <1>3, <1>4, ActedTransitive, ActedDone
<1> HIDE DEF R
<1> QED BY <1>1, <1>5, ActKept

\* scratchpad-focus-next keeps the invariant.
LEMMA FocusNextKept ==
  ASSUME Inv, NEW p \in Names, FocusNext(p)
  PROVE  Inv'
<1>1. PICK v : Act({FocusView(Now, v)})
  BY DEF FocusNext
<1> DEFINE R == {FocusView(Now, v)}
<1>2. Acted(Now, FocusView(Now, v), Listed)
  BY InvFacts, FocusActed
<1>3. \A t \in R : Done(Now, t, Listed)
  BY <1>2, ActedDone
<1>4. Act(R)
  BY <1>1
<1> HIDE DEF R
<1> QED BY <1>3, <1>4, ActKept

\* A wish about a pad moves the keyboard off what it took off screen.
LEMMA ActLands ==
  ASSUME Inv, NEW results, Act(results), \A t \in results : Done(Now, t, Listed) /\ Lands(Now, t)
  PROVE  Inv' /\ Lands(Now, Now')
BY ActKept

\* An empty pad launches its command.
LEMMA LaunchActed ==
  ASSUME Inv, NEW p \in Defined(Now), NEW o \in Listed
  PROVE  Done(Now, Launch(p, o), Listed) /\ Lands(Now, Launch(p, o))
<1> DEFINE shown == IF pads[p].spawn # None /\ pads[p].spawn.live THEN ~pads[p].spawn.shown ELSE TRUE
           spawn == [output |-> o, live |-> TRUE, shown |-> shown]
<1>0. /\ Sound(Now, Listed, {}, {}) /\ Now.wins.focus \in Now.wins.mapped \cup {None} /\ Now.pads = pads
      /\ Listed \in SUBSET Outputs
  BY InvFacts
<1>1. shown \in BOOLEAN
  <2>1. pads[p].spawn \in SpawnOn(Listed) \cup {None}
    BY <1>0, PadFields DEF Sound
  <2> QED BY <2>1 DEF SpawnOn
<1>2. Launch(p, o) = WithSpawn(Now, p, spawn)
  BY DEF Launch, WithSpawn
<1> HIDE DEF shown
<1>3. spawn \in SpawnOn(Listed) \cup {None}
  BY <1>1 DEF SpawnOn
<1> HIDE DEF spawn
<1>4. Acted(Now, WithSpawn(Now, p, spawn), Listed) /\ WithSpawn(Now, p, spawn).wins = Now.wins
  BY <1>0, <1>3, SpawnChanged
<1>5. Done(Now, WithSpawn(Now, p, spawn), Listed)
  BY <1>4, ActedDone
<1> QED BY <1>2, <1>4, <1>5 DEF Lands

\* scratchpad-toggle keeps the invariant, and the keyboard on screen.
LEMMA ToggleKept ==
  ASSUME Inv, NEW p \in Names, NEW o \in Preferred, Toggle(p, o)
  PROVE  Inv' /\ Lands(Now, Now')
<1>0. /\ Sound(Now, Listed, {}, {}) /\ Now.wins.focus \in Now.wins.mapped \cup {None} /\ Now.pads = pads
      /\ p \in Defined(Now) /\ o \in Listed
  BY InvFacts DEF Toggle
<1>1. CASE Members(Now, p) = {}
  <2> DEFINE R == {Launch(p, o)}
  <2>1. Act(R)
    BY <1>1 DEF Toggle
  <2>2. \A t \in R : Done(Now, t, Listed) /\ Lands(Now, t)
    BY <1>0, LaunchActed
  <2> HIDE DEF R
  <2> QED BY <2>1, <2>2, ActLands
<1>2. CASE Members(Now, p) # {} /\ pads[p].visible /\ pads[p].output = o
  <2> DEFINE h == SetVisible(Now, p, FALSE, TRUE)
             R == RefocusOn(h, o)
  <2>1. Act(R)
    BY <1>2 DEF Toggle
  <2>2. PICK yes \in BOOLEAN : yes = TRUE
    OBVIOUS
  <2>3. Acted(Now, SetVisible(Now, p, FALSE, yes), Listed)
    BY <1>0, HidesActed
  <2>4. Acted(Now, h, Listed)
    BY <2>2, <2>3
  <2> HIDE DEF h
  <2>5. ASSUME NEW t \in R PROVE Done(Now, t, Listed) /\ Lands(Now, t)
    <3>1. Rests(h, t, Listed, {})
      BY <2>4, RefocusOnRests DEF Acted
    <3>2. Acted(Now, t, Listed)
      BY <2>4, <3>1, RestsActed, ActedTransitive
    <3> QED BY <3>1, <3>2, ActedDone DEF Lands, Rests
  <2> HIDE DEF R
  <2> QED BY <2>1, <2>5, ActLands
<1>3. CASE Members(Now, p) # {} /\ ~(pads[p].visible /\ pads[p].output = o)
  <2> DEFINE R == {FocusPad(Summon(Now, p, o, None), p)}
  <2>1. Act(R)
    BY <1>3 DEF Toggle
  <2>2. LET t == FocusPad(Summon(Now, p, o, None), p) IN Acted(Now, t, Listed) /\ Lands(Now, t)
    BY <1>0, <1>3, RaisedActed
  <2>3. \A t \in R : Done(Now, t, Listed) /\ Lands(Now, t)
    BY <2>2, ActedDone
  <2> HIDE DEF R
  <2> QED BY <2>1, <2>3, ActLands
<1> QED BY <1>1, <1>2, <1>3

\* showStep keeps the invariant, and the keyboard on screen.
LEMMA ShowStepKept ==
  ASSUME Inv, NEW p \in Names, NEW o \in Preferred, NEW direction \in Int, ShowStep(p, direction, o)
  PROVE  Inv' /\ Lands(Now, Now')
<1>0. /\ Sound(Now, Listed, {}, {}) /\ Now.wins.focus \in Now.wins.mapped \cup {None}
      /\ p \in Defined(Now) /\ o \in Listed /\ Members(Now, p) # {}
  BY InvFacts DEF ShowStep
<1> DEFINE R == {Step(Now, p, direction, o)}
<1>1. Act(R)
  BY DEF ShowStep
<1>2. Acted(Now, Step(Now, p, direction, o), Listed) /\ Lands(Now, Step(Now, p, direction, o))
  BY <1>0, StepActed
<1>3. \A t \in R : Done(Now, t, Listed) /\ Lands(Now, t)
  BY <1>2, ActedDone
<1> HIDE DEF R
<1> QED BY <1>1, <1>3, ActLands

\* window-move-to-scratchpad keeps the invariant, and the keyboard on screen.
LEMMA MoveToScratchpadKept ==
  ASSUME Inv, NEW v \in Views, NEW p \in Names, NEW o \in Preferred, MoveToScratchpad(v, p, o)
  PROVE  Inv' /\ Lands(Now, Now')
<1>0. /\ Sound(Now, Listed, {}, {}) /\ Now.wins.focus \in Now.wins.mapped \cup {None} /\ Now.wins = wins
      /\ p \in Defined(Now) /\ o \in Listed /\ v \in Now.wins.mapped /\ v \notin Entries(Now)
  BY InvFacts DEF MoveToScratchpad
<1>1. Now.wins.pad[v] # p
  BY <1>0, NoneFacts DEF Sound, Roster
<1>2. PICK yes \in BOOLEAN : yes = TRUE
  OBVIOUS
<1> DEFINE R == Admit(Now, v, p, o, yes)
<1>3. Act(R)
  BY <1>2 DEF MoveToScratchpad
<1>4. ASSUME NEW t \in R PROVE Done(Now, t, Listed) /\ Lands(Now, t)
  <2>1. Admits(Now, t, Listed, v, p) /\ (yes /\ Now.wins.pad[v] # p => t.wins.focus \in t.wins.shown \cup {None})
    BY <1>0, AdmitSound
  <2> QED BY <1>1, <1>2, <2>1, ActedDone DEF Admits, Lands
<1> HIDE DEF R
<1> QED BY <1>3, <1>4, ActLands

\* window-restore-from-scratchpad keeps the invariant, and the keyboard on screen.
LEMMA RestoreFocusedKept ==
  ASSUME Inv, NEW p \in Names, RestoreFocused(p)
  PROVE  Inv' /\ Lands(Now, Now')
<1>0. /\ Sound(Now, Listed, {}, {}) /\ Now.wins.focus \in Now.wins.mapped \cup {None} /\ p \in Defined(Now)
  BY InvFacts DEF RestoreFocused
<1> DEFINE v == Focused(Now, p)
           R == {FocusView(RestoreView(Now, v), v)}
<1>1. Act(R) /\ v # None
  BY DEF RestoreFocused
<1>2. v \in Members(Now, p) \cup {None}
  BY <1>0, FocusedFacts
<1> HIDE DEF v
<1>3. v \in Entries(Now)
  BY <1>1, <1>2 DEF Members
<1>4. LET t == FocusView(RestoreView(Now, v), v) IN Acted(Now, t, Listed) /\ Lands(Now, t)
  BY <1>0, <1>3, RestoreFocusedActed
<1>5. \A t \in R : Done(Now, t, Listed) /\ Lands(Now, t)
  BY <1>4, ActedDone
<1> HIDE DEF R
<1> QED BY <1>1, <1>5, ActLands

\* reconcileConfig keeps the invariant, and the keyboard on screen.
LEMMA ReconcileConfigKept ==
  ASSUME Inv, NEW names \in Configs, ReconcileConfig(names)
  PROVE  Inv' /\ Lands(Now, Now')
<1>0. /\ Sound(Now, Listed, {}, {}) /\ Now.wins.focus \in Now.wins.mapped \cup {None} /\ names \in SUBSET Names
  BY InvFacts, PadsAssumption
<1> DEFINE u == Reconciled(Now, names)
           R == IF \E p \in Defined(Now) \ names : Members(Now, p) # {} THEN Refocus(u, desk.lit) ELSE {u}
<1>1. Act(R)
  BY DEF ReconcileConfig, Reconciled
<1>2. \A t \in R : Done(Now, t, Listed) /\ Lands(Now, t)
  BY <1>0, ReconcileDone
<1> HIDE DEF R
<1> QED BY <1>1, <1>2, ActLands

\* finishFloatMove keeps the invariant.
LEMMA FinishMoveKept ==
  ASSUME Inv, NEW v \in Views, NEW o \in desk.desktop \cup {None}, FinishMove(v, o)
  PROVE  Inv'
<1>0. /\ Sound(Now, Listed, {}, {}) /\ Now.wins.focus \in Now.wins.mapped \cup {None} /\ Now.wins = wins
      /\ v \in Entries(Now) /\ o \in Listed \cup {None}
  BY InvFacts DEF FinishMove
<1> DEFINE p == Now.wins.pad[v]
           t == IF o = None THEN Now ELSE MoveTo(Now, p, o)
           R == {FocusView(Represent(t, p, {v}), v)}
<1>1. Act(R)
  BY <1>0 DEF FinishMove
<1>2. Acted(Now, FocusView(Represent(t, p, {v}), v), Listed)
  BY <1>0, FinishMoveActed
<1>3. \A x \in R : Done(Now, x, Listed)
  BY <1>2, ActedDone
<1> HIDE DEF R
<1> QED BY <1>1, <1>3, ActKept

\* hideAll keeps the invariant.
LEMMA HideAllKept ==
  ASSUME Inv, HideAll
  PROVE  Inv'
<1> DEFINE P == {p \in Defined(Now) : pads[p].visible}
           t == FoldLeft(LAMBDA s, p : SetVisible(s, p, FALSE, FALSE), Now, InOrder(P))
           R == {[t EXCEPT !.wins.focus = None]}
<1>0. Sound(Now, Listed, {}, {}) /\ Now.wins.focus \in Now.wins.mapped \cup {None}
  BY InvFacts
<1>1. Act(R)
  BY Zenon DEF HideAll
<1>2. P \in SUBSET Defined(Now)
  OBVIOUS
<1> HIDE DEF P
<1>3. Acted(Now, [t EXCEPT !.wins.focus = None], Listed)
  BY <1>0, <1>2, AllHiddenActed, Zenon
<1> HIDE DEF t
<1>4. \A x \in R : Done(Now, x, Listed)
  BY <1>3, ActedDone
<1> HIDE DEF R
<1> QED BY <1>1, <1>4, ActKept

\* refocus() keeps the invariant.
LEMMA GiveBackFocusKept ==
  ASSUME Inv, GiveBackFocus
  PROVE  Inv'
<1> DEFINE R == Refocus(Now, desk.lit)
<1>1. Act(R)
  BY DEF GiveBackFocus
<1>2. \A t \in R : Done(Now, t, Listed)
  BY InvFacts, RefocusRests, RestsActed, ActedDone
<1> HIDE DEF R
<1> QED BY <1>1, <1>2, ActKept

\* A step that changes neither the outputs nor the place of a pad.
LEMMA QuietKept ==
  ASSUME Inv, NEW t, Sound(t, Listed, {}, {}), t.wins.focus \in t.wins.mapped \cup {None}, Become(t),
         Defined(t) = Defined(Now), \A q \in Names : Members(t, q) = Members(Now, q),
         \A q \in Defined(Now) : t.pads[q].output = pads[q].output /\ t.pads[q].home = pads[q].home,
         UNCHANGED <<desk, placed, events>>
  PROVE  Inv'
<1>1. Now' = t /\ pads' = t.pads /\ wins' = t.wins
  BY Became DEF Sound, Become
<1>2. Listed' = Listed
  BY DEF Listed
<1>3. Fine'
  BY <1>1, <1>2 DEF Fine
<1>4. Plugged'
  BY <1>2 DEF Inv, Plugged
<1>5. \A p \in Names : (pads'[p] = None <=> pads[p] = None) /\ (pads[p] # None => p \in Defined(Now))
  BY <1>1 DEF Defined, Now
<1>6. Remembered'
  BY <1>1, <1>5 DEF Inv, Remembered, Place, Now
<1>7. AtHome'
  <2>1. Defined(Now) \subseteq Names
    BY DEF Defined
  <2> QED BY <1>1, <2>1 DEF Inv, AtHome
<1> QED BY <1>3, <1>4, <1>6, <1>7 DEF Inv

\* The end of a launch's time keeps the invariant.
LEMMA SpawnExpiresKept ==
  ASSUME Inv, NEW p \in Names, SpawnExpires(p)
  PROVE  Inv'
<1>0. /\ Sound(Now, Listed, {}, {}) /\ Now.wins.focus \in Now.wins.mapped \cup {None} /\ Now.pads = pads
      /\ Now.wins = wins /\ Listed \in SUBSET Outputs /\ p \in Defined(Now) /\ pads[p].spawn # None
  BY InvFacts DEF SpawnExpires
<1> DEFINE spawn == [pads[p].spawn EXCEPT !.live = FALSE]
           t == WithSpawn(Now, p, spawn)
<1>1. spawn \in SpawnOn(Listed) \cup {None}
  <2>1. pads[p].spawn \in SpawnOn(Listed)
    BY <1>0, PadFields DEF Sound
  <2> QED BY <2>1 DEF SpawnOn
<1>2. t.pads = [pads EXCEPT ![p].spawn = spawn]
  BY <1>0 DEF WithSpawn, Now
<1>3. pads' = t.pads
  BY <1>2 DEF SpawnExpires
<1> HIDE DEF spawn
<1>4. Acted(Now, t, Listed) /\ Alike(Now, t) /\ t.wins = Now.wins
  BY <1>0, <1>1, SpawnChanged
<1>5. \A q \in Names : pads[q] # None => t.pads[q].output = pads[q].output /\ t.pads[q].home = pads[q].home
  <2>1. pads \in [Names -> PadOn(Listed) \cup {None}]
    BY <1>0 DEF Sound, State
  <2> SUFFICES ASSUME NEW q \in Names, pads[q] # None
               PROVE  t.pads[q].output = pads[q].output /\ t.pads[q].home = pads[q].home
    OBVIOUS
  <2>2. pads[q] \in PadOn(Listed)
    BY <2>1
  <2>3. t.pads[q] = IF q = p THEN [pads[q] EXCEPT !.spawn = spawn] ELSE pads[q]
    BY <1>2, <2>1
  <2> QED BY <2>2, <2>3 DEF PadOn
<1> HIDE DEF t
<1>6. \A q \in Defined(Now) : t.pads[q].output = pads[q].output /\ t.pads[q].home = pads[q].home
  BY <1>5 DEF Defined, Now
<1>7. Become(t) /\ UNCHANGED <<desk, placed, events>>
  BY <1>0, <1>3, <1>4 DEF SpawnExpires, Become
<1>8. Defined(t) = Defined(Now) /\ \A q \in Names : Members(t, q) = Members(Now, q)
  BY <1>4, AlikeMembers
<1> QED BY <1>4, <1>6, <1>7, <1>8, QuietKept DEF Acted

\* The end of a fade keeps the invariant.
LEMMA TickAnimationsKept ==
  ASSUME Inv, NEW v \in Views, TickAnimations(v)
  PROVE  Inv'
<1>0. /\ Sound(Now, Listed, {}, {}) /\ Now.wins.focus \in Now.wins.mapped \cup {None} /\ Now.pads = pads
      /\ Now.wins = wins /\ wins \in Windows
  BY InvFacts, WinFields DEF Sound
<1> DEFINE t == Faded(Now, v)
<1>1. Acted(Now, t, Listed) /\ t.pads = pads /\ t.wins = [wins EXCEPT !.hiding = @ \ {v}]
  BY <1>0, FadedActed
<1> HIDE DEF t
<1>2. Become(t) /\ UNCHANGED <<desk, placed, events>>
  BY <1>1 DEF TickAnimations, Become
<1>3. t.wins.entries = wins.entries /\ t.wins.pad = wins.pad
  BY <1>0, <1>1 DEF Windows
<1>4. \A q \in Names : Members(t, q) = Members(Now, q)
  BY <1>0, <1>3 DEF Members, Entries
<1> QED BY <1>0, <1>1, <1>2, <1>4, QuietKept DEF Acted

-----------------------------------------------------------------------------
(* The outputs.                                                            *)

\* An output more is no pad's loss.
LEMMA SoundGrows ==
  ASSUME NEW L, NEW s, NEW X, NEW W, Sound(s, L, X, W), NEW M \in SUBSET Outputs, L \subseteq M
  PROVE  Sound(s, M, X, W)
<1>1. SpawnOn(L) \subseteq SpawnOn(M)
  BY DEF SpawnOn
<1>2. PadOn(L) \subseteq PadOn(M)
  BY <1>1 DEF PadOn
<1>3. [Names -> PadOn(L) \cup {None}] \subseteq [Names -> PadOn(M) \cup {None}]
  BY <1>2
<1>4. s \in State(M)
  BY <1>3 DEF Sound, State
<1> QED BY <1>4 DEF Sound

\* The pads do not notice that the outputs change.
LEMMA DeskKept ==
  ASSUME Inv, UNCHANGED <<pads, wins, placed>>, Plugged', Listed \subseteq Listed', AtHome'
  PROVE  Inv'
<1>1. Now' = Now
  BY DEF Now
<1>2. Listed' \in SUBSET Outputs
  BY DEF Plugged, Desk, Listed, ToSet
<1>3. Fine'
  BY <1>1, <1>2, SoundGrows DEF Inv, Fine
<1>4. Remembered'
  BY <1>1 DEF Inv, Remembered
<1> QED BY <1>3, <1>4 DEF Inv

\* addOutput keeps the invariant.
LEMMA AddOutputKept ==
  ASSUME Inv, NEW o \in Outputs, NEW enabled \in BOOLEAN, AddOutput(o, enabled)
  PROVE  Inv'
<1> DEFINE on == IF enabled THEN {o} ELSE {}
<1>0. /\ desk \in Desk /\ desk.lit \subseteq desk.desktop /\ desk.desktop \subseteq Listed
      /\ desk.listed \in Seq(Outputs) /\ events \in 0 .. MaxEvents
  BY DEF Inv, Plugged, Desk
<1>1. on \in SUBSET Outputs /\ on \subseteq {o}
  OBVIOUS
<1>2. desk' = [desk EXCEPT !.listed = Append(@, o), !.desktop = @ \cup on, !.lit = @ \cup on, !.idle = TRUE]
  BY DEF AddOutput
<1>3. Append(desk.listed, o) \in Seq(Outputs) /\ ToSet(Append(desk.listed, o)) = Listed \cup {o}
  BY <1>0, AppendFacts DEF Listed
<1> HIDE DEF on
<1>4. /\ desk' \in Desk /\ desk'.listed = Append(desk.listed, o) /\ desk'.desktop = desk.desktop \cup on
      /\ desk'.lit = desk.lit \cup on /\ desk'.idle = TRUE
  <2> DEFINE listed == Append(desk.listed, o)
             desktop == desk.desktop \cup on
             lit == desk.lit \cup on
  <2>1. listed \in Seq(Outputs) /\ desktop \in SUBSET Outputs /\ lit \in SUBSET Outputs
    BY <1>0, <1>1, <1>3 DEF Desk
  <2>2. desk' = [desk EXCEPT !.listed = listed, !.desktop = desktop, !.lit = lit, !.idle = TRUE]
    BY <1>2
  <2> HIDE DEF listed, desktop, lit
  <2>3. /\ desk' \in Desk /\ desk'.listed = listed /\ desk'.desktop = desktop /\ desk'.lit = lit /\ desk'.idle = TRUE
    BY <1>0, <2>1, <2>2 DEF Desk
  <2> QED BY <2>3 DEF listed, desktop, lit
<1>5. Listed' = Listed \cup {o}
  BY <1>3, <1>4 DEF Listed
<1>6. events' \in 0 .. MaxEvents
  BY <1>0, PadsAssumption DEF AddOutput, Happens
<1>7. Plugged'
  BY <1>0, <1>1, <1>4, <1>5, <1>6 DEF Plugged
<1>8. AtHome'
  BY <1>4 DEF AtHome
<1> QED BY <1>5, <1>7, <1>8, DeskKept DEF AddOutput

\* DPMS keeps the invariant.
LEMMA SetPoweredKept ==
  ASSUME Inv, NEW o \in Outputs, NEW powered \in BOOLEAN, SetPowered(o, powered)
  PROVE  Inv'
<1> DEFINE lit == IF powered THEN desk.lit \cup {o} ELSE desk.lit \ {o}
<1>0. /\ desk \in Desk /\ desk.lit \subseteq desk.desktop /\ desk.desktop \subseteq Listed /\ events \in 0 .. MaxEvents
  BY DEF Inv, Plugged
<1>1. desk' = [desk EXCEPT !.lit = lit, !.idle = @ \/ powered] /\ o \in desk.desktop
  BY DEF SetPowered
<1>2. lit \in SUBSET Outputs /\ lit \subseteq desk.desktop /\ (~powered => lit \subseteq desk.lit)
  BY <1>0, <1>1 DEF Desk
<1> HIDE DEF lit
<1>3. /\ desk' \in Desk /\ desk'.listed = desk.listed /\ desk'.desktop = desk.desktop /\ desk'.lit = lit
  BY <1>0, <1>1, <1>2 DEF Desk
<1>4. ~desk'.idle => ~desk.idle /\ ~powered
  <2> DEFINE idle == desk.idle \/ powered
  <2>1. idle \in BOOLEAN /\ (~idle => ~desk.idle /\ ~powered)
    BY <1>0 DEF Desk
  <2>2. desk' = [desk EXCEPT !.lit = lit, !.idle = idle]
    BY <1>1, Zenon
  <2> HIDE DEF idle
  <2>3. desk'.idle = idle
    BY <1>0, <2>2 DEF Desk
  <2> QED BY <2>1, <2>3
<1>5. Listed' = Listed
  BY <1>3 DEF Listed
<1>6. events' \in 0 .. MaxEvents
  BY <1>0, PadsAssumption DEF SetPowered, Happens
<1>7. Plugged'
  BY <1>0, <1>2, <1>3, <1>5, <1>6 DEF Plugged
<1>8. Now' = Now /\ pads' = pads
  BY DEF SetPowered, Now
<1>9. AtHome'
  BY <1>2, <1>3, <1>4, <1>8 DEF Inv, AtHome
<1> QED BY <1>5, <1>7, <1>9, DeskKept DEF SetPowered

\* The first enabled output, in the order of m_outputs.
LEMMA FirstLitIsFirst == ASSUME NEW lit, NEW o PROVE FirstLit(lit, o) = FirstOf(desk.listed, lit, o)
BY Zenon DEF FirstLit, FirstOf

\* removeOutput keeps the invariant.
LEMMA RemoveOutputKept ==
  ASSUME Inv, NEW o \in Outputs, RemoveOutput(o)
  PROVE  Inv'
<1> DEFINE to == FirstLit(desk.lit, o)
           u == MoveOutput(Now, o, to)
           t == ReleaseOutput(u, o)
           P == {p \in Defined(Now) : Now.pads[p].output = o}
           rest == Kept(desk.listed, Outputs \ {o})
<1>0. /\ Sound(Now, Listed, {}, {}) /\ Now.wins.focus \in Now.wins.mapped \cup {None} /\ Now.pads = pads
      /\ desk.listed \in Seq(Outputs) /\ desk.lit \in SUBSET Listed /\ Listed \in SUBSET Outputs
      /\ desk \in Desk /\ desk.lit \subseteq desk.desktop /\ desk.desktop \subseteq Listed /\ events \in 0 .. MaxEvents
  BY InvFacts DEF Inv, Plugged
<1>1. Become(t) /\ UNCHANGED placed
  BY DEF RemoveOutput, Imposed
<1>2. to \in (desk.lit \ {o}) \cup {None} /\ (desk.lit \ {o} # {} => to # None)
  BY <1>0, FirstLitIsFirst, FirstOfFacts DEF Listed
<1>3. desk' = [desk EXCEPT !.listed = rest, !.desktop = @ \ {o}, !.lit = @ \ {o}]
  BY DEF RemoveOutput
<1>4. rest \in Seq(Outputs) /\ ToSet(rest) = Listed \ {o}
  <2>1. rest \in Seq(Outputs) /\ ToSet(rest) = ToSet(desk.listed) \cap (Outputs \ {o})
    BY <1>0, KeptFacts
  <2> HIDE DEF rest
  <2> QED BY <1>0, <2>1 DEF Listed
<1> HIDE DEF to, rest
<1>5. Displaces(Now, u, Listed, P, o, to)
  BY <1>0, <1>2, MoveOutputSound
<1>6. Evacuates(Now, u, Listed)
  BY <1>5, DisplacesEvacuates
<1> HIDE DEF u
<1>7. /\ Sound(u, Listed, {}, {}) /\ Alike(Now, u)
      /\ \A r \in Defined(Now) :
           /\ u.pads[r].output = IF r \in P THEN to ELSE pads[r].output
           /\ u.pads[r].home = IF r \in P /\ pads[r].home = None THEN o ELSE pads[r].home
  BY <1>0, <1>5 DEF Displaces
<1>8. Defined(u) = Defined(Now) /\ u.wins.focus \in u.wins.mapped \cup {None} /\ \A q : Members(u, q) = Members(Now, q)
  BY <1>0, <1>7, AlikeMembers
<1>9. \A r \in Defined(u) : u.pads[r].output # o
  <2>1. to # o
    BY <1>2, NoneFacts
  <2> QED BY <1>0, <1>7, <1>8, <2>1
<1>10. Releases(u, t, Listed \ {o})
  BY <1>7, <1>9, ReleaseSound
<1> HIDE DEF t
<1>11. /\ Sound(t, Listed \ {o}, {}, {}) /\ t.wins.focus \in t.wins.mapped \cup {None} /\ Defined(t) = Defined(Now)
       /\ \A q : Members(t, q) = Members(Now, q)
       /\ \A r \in Defined(Now) : t.pads[r].output = u.pads[r].output /\ t.pads[r].home = u.pads[r].home
  BY <1>8, <1>10, AlikeMembers DEF Releases
<1>12. Now' = t /\ pads' = t.pads /\ wins' = t.wins
  BY <1>1, <1>11, Became DEF Sound, Become
<1>13. /\ desk' \in Desk /\ desk'.listed = rest /\ desk'.desktop = desk.desktop \ {o} /\ desk'.lit = desk.lit \ {o}
       /\ desk'.idle = desk.idle
  BY <1>0, <1>3, <1>4 DEF Desk
<1>14. Listed' = Listed \ {o}
  BY <1>4, <1>13 DEF Listed
<1>15. Fine'
  BY <1>11, <1>12, <1>14 DEF Fine
<1>16. Plugged'
  <2>1. events' \in 0 .. MaxEvents
    BY <1>0, PadsAssumption DEF RemoveOutput, Happens
  <2> QED BY <1>0, <1>13, <1>14, <2>1 DEF Plugged
<1>17. \A p \in Names : /\ pads'[p] = None <=> pads[p] = None
                        /\ pads[p] # None => p \in Defined(Now) /\ Place(t, p) = Place(Now, p)
  <2>1. \A r \in Defined(Now) : Place(t, r) = Place(Now, r)
    BY <1>6, <1>11 DEF Evacuates, Place
  <2> QED BY <1>11, <1>12, <2>1 DEF Defined, Now
<1>18. Remembered'
  BY <1>1, <1>12, <1>17 DEF Inv, Remembered
<1>19. AtHome'
  <2> SUFFICES ASSUME ~desk.idle, NEW p \in Defined(Now)
               PROVE  /\ t.pads[p].home # None => t.pads[p].home \notin desk.lit \ {o}
                      /\ Members(Now, p) # {} /\ desk.lit \ {o} # {} => t.pads[p].output # None
    BY <1>11, <1>12, <1>13 DEF AtHome
  <2>1. /\ pads[p].home # None => pads[p].home \notin desk.lit
        /\ Members(Now, p) # {} /\ desk.lit # {} => pads[p].output # None
    BY DEF Inv, AtHome
  <2>2. /\ t.pads[p].output = IF p \in P THEN to ELSE pads[p].output
        /\ t.pads[p].home = IF p \in P /\ pads[p].home = None THEN o ELSE pads[p].home
    BY <1>7, <1>11
  <2> HIDE DEF P
  <2> QED BY <1>2, <2>1, <2>2
<1> QED BY <1>15, <1>16, <1>18, <1>19 DEF Inv

\* A reload or a transaction that disables outputs keeps the invariant.
LEMMA EnableOutputsKept ==
  ASSUME Inv, NEW on \in SUBSET Listed, NEW gone, EnableOutputs(on, gone)
  PROVE  Inv'
<1> DEFINE lit == (desk.lit \cap on) \cup (on \ desk.desktop)
           q == Kept(desk.listed, gone)
           u == FoldLeft(LAMBDA s, o : MoveOutput(s, o, FirstLit(lit, o)), Now, q)
           v == FoldLeft(LAMBDA s, o : MoveOutput(s, o, FirstOf(desk.listed, lit, o)), Now, q)
<1>0. /\ Sound(Now, Listed, {}, {}) /\ Now.wins.focus \in Now.wins.mapped \cup {None} /\ Now.pads = pads
      /\ desk.listed \in Seq(Outputs) /\ Listed \in SUBSET Outputs /\ desk \in Desk /\ events \in 0 .. MaxEvents
  BY InvFacts DEF Inv, Plugged
<1>1. /\ Happens /\ Imposed(Refocus(u, lit))
      /\ desk' = [desk EXCEPT !.desktop = on, !.lit = lit, !.idle = TRUE]
  BY Zenon DEF EnableOutputs
<1>2. u = v
  BY Zenon DEF FirstLit, FirstOf
<1>3. q \in Seq(Outputs)
  BY <1>0, KeptFacts
<1>4. lit \in SUBSET Listed /\ lit \subseteq on
  OBVIOUS
<1> HIDE DEF q, lit
<1>5. Evacuates(Now, v, Listed)
  BY <1>0, <1>3, <1>4, EvacuatedSound, Zenon DEF Listed
<1>6. Evacuates(Now, u, Listed)
  BY <1>2, <1>5, Zenon
<1> HIDE DEF u, v
<1>7. PICK s \in Refocus(u, lit) : Become(s) /\ UNCHANGED placed
  BY <1>1 DEF Imposed
<1>8. Rests(u, s, Listed, {})
  BY <1>6, <1>7, RefocusRests DEF Evacuates
<1>9. /\ Sound(s, Listed, {}, {}) /\ s.wins.focus \in s.wins.mapped \cup {None} /\ Defined(s) = Defined(Now)
      /\ \A r \in Defined(Now) : Place(s, r) = Place(Now, r)
  <2>1. Defined(u) = Defined(Now) /\ \A r \in Defined(Now) : Place(u, r) = Place(Now, r)
    BY <1>6 DEF Evacuates, Alike
  <2>2. Stays(u, s) /\ Sound(s, Listed, {}, {}) /\ s.wins.focus \in s.wins.shown \cup {None}
    BY <1>8 DEF Rests
  <2>3. s.wins.focus \in s.wins.mapped \cup {None}
    BY <2>2 DEF Sound, Screen
  <2> QED BY <2>1, <2>2, <2>3 DEF Stays, Place
<1>10. Now' = s /\ pads' = s.pads /\ wins' = s.wins
  BY <1>7, <1>9, Became DEF Sound, Become
<1>11. /\ desk' \in Desk /\ desk'.listed = desk.listed /\ desk'.desktop = on /\ desk'.lit = lit /\ desk'.idle = TRUE
  BY <1>0, <1>1, <1>4 DEF Desk
<1>12. Listed' = Listed
  BY <1>11 DEF Listed
<1>13. Fine'
  BY <1>9, <1>10, <1>12 DEF Fine
<1>14. Plugged'
  <2>1. events' \in 0 .. MaxEvents
    BY <1>0, <1>1, PadsAssumption DEF Happens
  <2> QED BY <1>4, <1>11, <1>12, <2>1 DEF Plugged
<1>15. \A p \in Names : /\ pads'[p] = None <=> pads[p] = None
                        /\ pads[p] # None => Place(s, p) = Place(Now, p)
  BY <1>9, <1>10 DEF Defined, Now
<1>16. Remembered'
  BY <1>7, <1>10, <1>15 DEF Inv, Remembered
<1>17. AtHome'
  BY <1>11 DEF AtHome
<1> QED BY <1>13, <1>14, <1>16, <1>17 DEF Inv

\* restoreDisplacedViews from the idle callback keeps the invariant.
LEMMA RestoreIdleKept ==
  ASSUME Inv, NEW fallback, NEW back, RestoreIdle(fallback, back)
  PROVE  Inv'
<1> DEFINE P == {p \in Defined(Now) : Now.pads[p].home # None \/ Now.pads[p].output = None}
           r == RestoreDisplaced(Now, fallback, back)
           t == IF fallback = None THEN Now ELSE r
<1>0. /\ Sound(Now, Listed, {}, {}) /\ Now.wins.focus \in Now.wins.mapped \cup {None} /\ Now.pads = pads
      /\ desk.lit \in SUBSET Listed /\ Listed \in SUBSET Outputs /\ desk \in Desk
      /\ desk.lit \subseteq desk.desktop /\ desk.desktop \subseteq Listed /\ events \in 0 .. MaxEvents
  BY InvFacts DEF Inv, Plugged
<1>1. /\ fallback \in Preferred /\ desk' = [desk EXCEPT !.idle = FALSE] /\ UNCHANGED events
      /\ placed' = [p \in Names |-> IF pads'[p] # None /\ placed[p] = None THEN pads'[p].output ELSE placed[p]]
  BY Zenon DEF RestoreIdle
<1>2. \E s : Become(s) /\ (s = t \/ (fallback # None /\ s \in Refocus(t, desk.lit)))
  BY DEF RestoreIdle
<1>3. fallback \in Listed \cup {None} /\ (fallback = None => desk.lit = {})
  BY <1>0, <1>1, NoneFacts DEF Preferred
<1>4. Restores(Now, r, Listed, P, desk.lit, fallback)
  <2>1. P \in SUBSET Defined(Now)
    OBVIOUS
  <2>2. r = RestoredAll(Now, P, desk.lit, fallback, back)
    BY Zenon DEF RestoreDisplaced, RestorePad, RestoreStep, RestoredAll
  <2> HIDE DEF P, r
  <2>3. Restores(Now, RestoredAll(Now, P, desk.lit, fallback, back), Listed, P, desk.lit, fallback)
    BY <1>0, <1>3, <2>1, AllRestored
  <2> QED BY <2>2, <2>3
<1> HIDE DEF r
<1>5. ASSUME NEW p \in Defined(Now)
      PROVE  /\ Place(t, p) = IF Place(Now, p) = None THEN t.pads[p].output ELSE Place(Now, p)
             /\ t.pads[p].home # None => t.pads[p].home \notin desk.lit
             /\ desk.lit # {} => t.pads[p].output # None
  <2>1. CASE fallback = None
    BY <1>0, <1>3, <2>1 DEF Place
  <2>2. CASE fallback # None
    <3>1. /\ t.pads[p].output = IF p \in P THEN Target(Now, p, desk.lit, fallback) ELSE pads[p].output
          /\ t.pads[p].home = IF p \in P /\ pads[p].home \in desk.lit THEN None ELSE pads[p].home
      BY <1>0, <1>4, <2>2 DEF Restores
    <3>2. p \in P <=> pads[p].home # None \/ pads[p].output = None
      BY <1>0
    <3>3. None \notin desk.lit
      BY <1>0, NoneFacts
    <3>4. /\ pads[p].home \in desk.lit => Target(Now, p, desk.lit, fallback) = pads[p].home
          /\ pads[p].home \notin desk.lit /\ pads[p].output = None => Target(Now, p, desk.lit, fallback) = fallback
          /\ pads[p].home \notin desk.lit /\ pads[p].output # None => Target(Now, p, desk.lit, fallback) = pads[p].output
      BY <1>0 DEF Target
    <3>5. Place(Now, p) = IF pads[p].home = None THEN pads[p].output ELSE pads[p].home
      BY <1>0 DEF Place
    <3> HIDE DEF P, t
    <3> QED BY <2>2, <3>1, <3>2, <3>3, <3>4, <3>5 DEF Place
  <2> QED BY <2>1, <2>2
<1>6. Sound(t, Listed, {}, {}) /\ Alike(Now, t)
  BY <1>0, <1>4, AlikeReflexive DEF Restores
<1> HIDE DEF t
<1>7. PICK s : Become(s) /\ (s = t \/ s \in Refocus(t, desk.lit))
  BY <1>2
<1>8. /\ Sound(s, Listed, {}, {}) /\ Stays(t, s) /\ s.wins.focus \in s.wins.mapped \cup {None}
  <2>1. CASE s = t
    BY <1>0, <1>6, <2>1, StaysReflexive, AlikeMembers
  <2>2. CASE s \in Refocus(t, desk.lit)
    <3>1. Rests(t, s, Listed, {})
      BY <1>6, <2>2, RefocusRests
    <3> QED BY <3>1 DEF Rests, Sound, Screen
  <2> QED BY <1>7, <2>1, <2>2
<1>9. Defined(s) = Defined(Now) /\ \A q \in Defined(Now) : s.pads[q].output = t.pads[q].output /\ s.pads[q].home = t.pads[q].home
  BY <1>6, <1>8, AlikeMembers DEF Stays
<1>10. Now' = s /\ pads' = s.pads /\ wins' = s.wins
  BY <1>7, <1>8, Became DEF Sound, Become
<1>11. desk' \in Desk /\ desk'.listed = desk.listed /\ desk'.desktop = desk.desktop /\ desk'.lit = desk.lit
  BY <1>0, <1>1 DEF Desk
<1>12. Listed' = Listed
  BY <1>11 DEF Listed
<1>13. Fine'
  BY <1>8, <1>10, <1>12 DEF Fine
<1>14. Plugged'
  BY <1>0, <1>1, <1>11, <1>12 DEF Plugged
<1>15. Remembered'
  <2> SUFFICES ASSUME NEW p \in Names PROVE placed'[p] = IF pads'[p] = None THEN None ELSE Place(s, p)
    BY <1>10 DEF Remembered
  <2>1. placed'[p] = IF pads'[p] # None /\ placed[p] = None THEN pads'[p].output ELSE placed[p]
    BY <1>1
  <2>2. placed[p] = IF pads[p] = None THEN None ELSE Place(Now, p)
    BY DEF Inv, Remembered
  <2>3. (pads'[p] = None <=> pads[p] = None) /\ (pads[p] # None => p \in Defined(Now))
    BY <1>9, <1>10 DEF Defined, Now
  <2>4. p \in Defined(Now) => Place(s, p) = Place(t, p)
    BY <1>9 DEF Place
  <2> QED BY <1>5, <1>9, <1>10, <2>1, <2>2, <2>3, <2>4
<1>16. AtHome'
  BY <1>5, <1>9, <1>10, <1>11 DEF AtHome
<1> QED BY <1>13, <1>14, <1>15, <1>16 DEF Inv

-----------------------------------------------------------------------------
(* The invariant is inductive.                                             *)

\* Any order of m_outputs lists the outputs that are there.
LEMMA Listings ==
  ASSUME NEW order \in SetToSeqs(Present)
  PROVE  order \in Seq(Outputs) /\ ToSet(order) = Present
<1>1. IsFiniteSet(Present) /\ Present \subseteq Outputs
  BY PadsAssumption, FS_Subset
<1>2. order \in [1 .. Cardinality(Present) -> Present] /\ IsInjective(order)
  BY DEF SetToSeqs, IsInjective
<1>3. order \in Seq(Present) /\ ToSet(order) = Present
  BY <1>1, <1>2, Listing
<1> QED BY <1>1, <1>3

\* The server starts in a state with the invariant.
LEMMA InitInv == Init => Inv
<1> SUFFICES ASSUME Init PROVE Inv
  OBVIOUS
<1>1. PICK names \in Configs : pads = [p \in Names |-> IF p \in names THEN Fresh ELSE None]
  BY DEF Init
<1>2. PICK open \in Sessions :
        wins = [mapped |-> open, parent |-> [v \in Views |-> IF v \in open THEN Owner[v] ELSE None],
                entries |-> <<>>, pad |-> [v \in Views |-> None], shown |-> open, hiding |-> {},
                focus |-> None, noted |-> None]
  BY DEF Init
<1>3. PICK order \in SetToSeqs(Present) :
        desk = [listed |-> order, desktop |-> Present, lit |-> Present, idle |-> FALSE]
  BY DEF Init
<1>4. placed = [p \in Names |-> None] /\ events = MaxEvents
  BY DEF Init
<1>5. /\ Listed = Present /\ desk.listed \in Seq(Outputs) /\ Present \in SUBSET Outputs /\ Listed \in SUBSET Outputs
  BY <1>3, Listings, PadsAssumption DEF Listed
<1>6. Plugged
  BY <1>3, <1>4, <1>5, PadsAssumption DEF Plugged, Desk
<1>7. Fresh \in PadOn(Listed) /\ Fresh # None
  <2>1. Fresh \in PadOn(Listed)
    BY DEF Fresh, PadOn
  <2> QED BY <1>5, <2>1, PadOnFacts
<1>8. pads \in [Names -> PadOn(Listed) \cup {None}]
  BY <1>1, <1>7
<1>9. open \subseteq Views /\ Owner \in [Views -> Views \cup {None}] /\ \A v \in open : Owner[v] \in open \cup {None}
  BY PadsAssumption
<1>10. wins \in Windows
  <2>1. [v \in Views |-> IF v \in open THEN Owner[v] ELSE None] \in [Views -> Views \cup {None}]
    BY <1>9
  <2>2. [v \in Views |-> None] \in [Views -> Names \cup {None}] /\ <<>> \in Seq(Views)
    OBVIOUS
  <2> QED BY <1>2, <1>9, <2>1, <2>2 DEF Windows
<1>11. Now \in State(Listed) /\ Now.pads = pads /\ Now.wins = wins
  BY <1>8, <1>10 DEF Now, State
<1>12. \A p \in Defined(Now) : p \in names /\ pads[p] = Fresh
  BY <1>1, <1>11 DEF Defined
<1>13. Entries(Now) = {} /\ (\A p : Members(Now, p) = {}) /\ IsInjective(wins.entries)
  BY <1>2, <1>11 DEF Entries, Members, ToSet, IsInjective
<1>14. Roster(Now)
  <2>1. \A v \in Views : wins.parent[v] \in {None, Owner[v]} \cap (wins.mapped \cup {None})
    BY <1>2, <1>9
  <2> QED BY <1>2, <1>11, <1>12, <1>13, <2>1 DEF Roster, Fresh
<1>15. Screen(Now, {})
  BY <1>2, <1>11, <1>13 DEF Screen
<1>16. Alone(Now) /\ \A p \in Defined(Now) : Switched(Now, p) /\ Displayed(Now, p)
  BY <1>11, <1>12, <1>13 DEF Alone, Switched, Displayed, Fresh
<1>17. Fine
  BY <1>2, <1>5, <1>11, <1>14, <1>15, <1>16 DEF Fine, Sound
<1>18. Remembered
  BY <1>1, <1>4, <1>11 DEF Remembered, Place, Fresh
<1>19. AtHome
  BY <1>11, <1>12, <1>13 DEF AtHome, Fresh
<1> QED BY <1>6, <1>17, <1>18, <1>19 DEF Inv

\* Whatever users, clients and the configuration do, the invariant stays.
LEMMA UserKept ==
  ASSUME Inv, UserNext
  PROVE  Inv'
<1>1. ASSUME NEW v \in Views \ wins.mapped, NEW parent \in Views \cup {None}, NEW focused \in BOOLEAN,
             NEW inherits \in BOOLEAN, MapView(v, parent, focused, inherits)
      PROVE  Inv'
  BY <1>1, MapViewKept
<1>2. ASSUME NEW v \in Views \ wins.mapped, NEW parent \in Views \cup {None}, NEW p \in Names,
             NEW ask \in {"unset", "yes", "no"}, NEW o \in desk.desktop, MapIntoPad(v, parent, p, ask, o)
      PROVE  Inv'
  BY <1>2, MapIntoPadKept
<1>3. ASSUME NEW v \in Views, NEW p \in Names, NEW ask \in BOOLEAN, NEW o \in desk.desktop, LateRule(v, p, ask, o)
      PROVE  Inv'
  BY <1>3, LateRuleKept
<1>4. ASSUME NEW v \in Views, NEW parent \in Views \cup {None}, NEW inherits \in BOOLEAN, SetParent(v, parent, inherits)
      PROVE  Inv'
  BY <1>4, SetParentKept
<1>5. ASSUME NEW v \in Views, CloseView(v) \/ Focus(v) PROVE Inv'
  BY <1>5, CloseViewKept, FocusKept
<1>6. ASSUME NEW v \in Views, NEW o \in Preferred, FocusById(v, o) PROVE Inv'
  BY <1>6, FocusByIdKept
<1>7. ASSUME NEW v \in Views, NEW p \in Names, NEW o \in Preferred, MoveToScratchpad(v, p, o) PROVE Inv'
  BY <1>7, MoveToScratchpadKept
<1>8. ASSUME NEW p \in Names, NEW o \in Preferred, Toggle(p, o) \/ ShowStep(p, 1, o) \/ ShowStep(p, -1, o)
      PROVE  Inv'
  <2>1. 1 \in Int /\ -1 \in Int
    OBVIOUS
  <2> QED BY <1>8, <2>1, ToggleKept, ShowStepKept
<1>9. ASSUME NEW p \in Names, RestoreFocused(p) \/ FocusNext(p) PROVE Inv'
  BY <1>9, RestoreFocusedKept, FocusNextKept
<1>10. ASSUME NEW v \in Views, NEW o \in desk.desktop \cup {None}, FinishMove(v, o) PROVE Inv'
  BY <1>10, FinishMoveKept
<1>11. ASSUME NEW names \in Configs, ReconcileConfig(names) PROVE Inv'
  BY <1>11, ReconcileConfigKept
<1> QED BY <1>1, <1>2, <1>3, <1>4, <1>5, <1>6, <1>7, <1>8, <1>9, <1>10, <1>11, HideAllKept, GiveBackFocusKept DEF UserNext

\* Whatever happens to the outputs, the invariant stays.
LEMMA OutputKept ==
  ASSUME Inv, OutputNext
  PROVE  Inv'
<1>1. ASSUME NEW o \in Outputs, NEW b \in BOOLEAN, AddOutput(o, b) \/ SetPowered(o, b) PROVE Inv'
  BY <1>1, AddOutputKept, SetPoweredKept
<1>2. ASSUME NEW o \in Outputs, RemoveOutput(o) PROVE Inv'
  BY <1>2, RemoveOutputKept
<1>3. ASSUME NEW on \in SUBSET Outputs, ReloadOutputs(on) \/ ManageOutputs(on) PROVE Inv'
  <2>1. on \in SUBSET Listed /\ \E gone : EnableOutputs(on, gone)
    BY <1>3 DEF ReloadOutputs, ManageOutputs
  <2> QED BY <2>1, EnableOutputsKept
<1>4. ASSUME NEW o \in Outputs \cup {None}, NEW back \in SUBSET Entries(Now), RestoreIdle(o, back) PROVE Inv'
  BY <1>4, RestoreIdleKept
<1> QED BY <1>1, <1>2, <1>3, <1>4 DEF OutputNext

\* A step of something else changes nothing here.
LEMMA StutterKept ==
  ASSUME Inv, UNCHANGED vars
  PROVE  Inv'
<1>1. Now' = Now /\ Listed' = Listed
  BY DEF vars, Now, Listed
<1>2. Fine' /\ Plugged' /\ Remembered'
  BY <1>1 DEF vars, Inv, Fine, Plugged, Remembered
<1>3. AtHome'
  BY <1>1 DEF vars, Inv, AtHome
<1> QED BY <1>2, <1>3 DEF Inv

\* Every step keeps the invariant.
LEMMA InvKept == Inv /\ [Next]_vars => Inv'
<1>1. Inv /\ UserNext => Inv'
  BY UserKept
<1>2. Inv /\ OutputNext => Inv'
  BY OutputKept
<1>3. Inv /\ ClockNext => Inv'
  BY SpawnExpiresKept DEF ClockNext
<1>4. Inv /\ FrameNext => Inv'
  BY TickAnimationsKept DEF FrameNext
<1>5. Inv /\ UNCHANGED vars => Inv'
  BY StutterKept
<1> QED BY <1>1, <1>2, <1>3, <1>4, <1>5 DEF Next

\* After every act, whether of a user, a client, a reload or an output, the
\* pads, the scene, the keyboard and the outputs agree as Inv says.
THEOREM Invariance == Spec => []Inv
<1> QED BY InitInv, InvKept, PTL DEF Spec

-----------------------------------------------------------------------------
(* What follows from it.                                                   *)

\* The invariant implies the type invariant.
LEMMA InvTypeOK == Inv => TypeOK
<1> SUFFICES ASSUME Inv PROVE TypeOK
  OBVIOUS
<1>1. /\ Sound(Now, Listed, {}, {}) /\ wins.focus \in wins.mapped \cup {None} /\ Now.pads = pads
      /\ Now.wins = wins /\ Listed \in SUBSET Outputs /\ Plugged
  BY InvFacts DEF Inv
<1>2. Roster(Now) /\ Screen(Now, {}) /\ Now \in State(Listed)
  BY <1>1 DEF Sound
<1>3. pads \in [Names -> Pad \cup {None}]
  <2>1. pads \in [Names -> PadOn(Listed) \cup {None}]
    BY <1>1, <1>2 DEF State
  <2>2. PadOn(Listed) \subseteq Pad
    BY <1>1, PadOnFacts
  <2> QED BY <2>1, <2>2
<1>4. wins \in Windows
  BY <1>1, <1>2 DEF State
<1>5. wins.parent \in [Views -> wins.mapped \cup {None}]
  <2>1. wins.parent \in [Views -> Views \cup {None}]
    BY <1>4 DEF Windows
  <2>2. \A v \in Views : wins.parent[v] \in wins.mapped \cup {None}
    BY <1>1, <1>2 DEF Roster
  <2> QED BY <2>1, <2>2
<1>6. /\ IsInjective(wins.entries) /\ Entries(Now) \subseteq wins.mapped
      /\ \A v \in Views : wins.pad[v] # None <=> v \in Entries(Now)
      /\ \A v \in Entries(Now) : wins.pad[v] \in Defined(Now)
  BY <1>1, <1>2 DEF Roster
<1>7. wins.shown \subseteq wins.mapped /\ wins.mapped \ Entries(Now) \subseteq wins.shown
  BY <1>1, <1>2 DEF Screen
<1>8. \A p \in Defined(Now) : (~pads[p].visible => pads[p].solo = None) /\ (pads[p].visible => Members(Now, p) # {})
  BY <1>1 DEF Sound, Switched
<1> QED BY <1>1, <1>3, <1>4, <1>5, <1>6, <1>7, <1>8 DEF TypeOK, Plugged

\* A window is listed once, in a pad that is defined; what is in no pad is
\* on screen; a pad that is visible has members.
THEOREM TypeCorrect == Spec => []TypeOK
BY Invariance, InvTypeOK, PTL

\* The invariant implies that no pointer is left behind.
LEMMA InvPointers == Inv => PointersAreMembers
<1> SUFFICES ASSUME Inv PROVE PointersAreMembers
  OBVIOUS
<1>1. Sound(Now, Listed, {}, {}) /\ Now.pads = pads /\ Now.wins = wins
  BY InvFacts
<1> QED BY <1>1 DEF PointersAreMembers, Sound, Roster, Screen, Switched

\* Whatever order windows close, move over and are handed over in, the
\* pads, the focus manager and the fades point at members only.
THEOREM NoWildPointers == Spec => []PointersAreMembers
BY Invariance, InvPointers, PTL

\* The invariant implies that no output is left behind.
LEMMA InvOutputs == Inv => OutputsAreListed
<1> SUFFICES ASSUME Inv, NEW p \in Defined(Now)
             PROVE  pads[p].output \in Listed \cup {None} /\ (pads[p].spawn # None => pads[p].spawn.output \in Listed)
  BY DEF OutputsAreListed
<1>1. Sound(Now, Listed, {}, {}) /\ Now.pads = pads /\ Listed \in SUBSET Outputs
  BY InvFacts
<1>2. pads[p].output \in Listed \cup {None} /\ pads[p].spawn \in SpawnOn(Listed) \cup {None}
  BY <1>1, PadFields DEF Sound
<1> QED BY <1>2 DEF SpawnOn

\* No pad is on, and no launch waits for, an output that was unplugged.
THEOREM NoUnpluggedOutput == Spec => []OutputsAreListed
BY Invariance, InvOutputs, PTL

\* The invariant implies that pads do not cover one another.
LEMMA InvAlone == Inv => OnePadPerOutput
BY InvFacts DEF OnePadPerOutput, Sound, Alone

\* At most one pad is visible on an output, however pads are moved,
\* displaced, evacuated and restored.
THEOREM OneAtATime == Spec => []OnePadPerOutput
BY Invariance, InvAlone, PTL

\* The invariant implies that the scene agrees with the pads.
LEMMA InvShows == Inv => ShowsWhatItHolds
<1> SUFFICES ASSUME Inv PROVE ShowsWhatItHolds
  OBVIOUS
<1>1. Sound(Now, Listed, {}, {}) /\ Now.pads = pads /\ Now.wins = wins
  BY InvFacts
<1>2. \A p \in Defined(Now) : Displayed(Now, p)
  BY <1>1 DEF Sound
<1> QED BY <1>1, <1>2 DEF ShowsWhatItHolds, Displayed, Up

\* The members of a pad appear together, or one at a time with their
\* dialogs; of a pad that is hidden or has no output nothing is on screen.
THEOREM MembersOnScreen == Spec => []ShowsWhatItHolds
BY Invariance, InvShows, PTL

\* The invariant implies that no pad is away when no restore is due.
LEMMA InvHome == Inv => BackOnItsOutput
<1> SUFFICES ASSUME Inv, ~desk.idle, NEW p \in Defined(Now)
             PROVE  /\ placed[p] \in desk.lit => pads[p].output = placed[p]
                    /\ Members(Now, p) # {} /\ desk.lit # {} => pads[p].output # None
  BY DEF BackOnItsOutput
<1>1. Now.pads = pads /\ p \in Names /\ pads[p] # None
  BY InvFacts DEF Defined
<1>2. placed[p] = IF pads[p].home = None THEN pads[p].output ELSE pads[p].home
  BY <1>1 DEF Inv, Remembered, Place
<1>3. /\ pads[p].home # None => pads[p].home \notin desk.lit
      /\ Members(Now, p) # {} /\ desk.lit # {} => pads[p].output # None
  BY DEF Inv, AtHome
<1> QED BY <1>2, <1>3

\* A pad is where it was last put whenever that output is enabled and no
\* restore is due, and it has an output if there is one.
THEOREM DisplacedPadReturns == Spec => []BackOnItsOutput
BY Invariance, InvHome, PTL

\* The outcome of a wish about a pad.
LEMMA WishLands ==
  ASSUME Inv, ByUser
  PROVE  Lands(Now, Now')
<1>1. ASSUME NEW p \in Names, NEW o \in Preferred, Toggle(p, o) \/ ShowStep(p, 1, o) \/ ShowStep(p, -1, o)
      PROVE  Lands(Now, Now')
  <2>1. 1 \in Int /\ -1 \in Int
    OBVIOUS
  <2> QED BY <1>1, <2>1, ToggleKept, ShowStepKept
<1>2. ASSUME NEW v \in Views, NEW p \in Names, NEW o \in Preferred, MoveToScratchpad(v, p, o) PROVE Lands(Now, Now')
  BY <1>2, MoveToScratchpadKept
<1>3. ASSUME NEW p \in Names, RestoreFocused(p) PROVE Lands(Now, Now')
  BY <1>3, RestoreFocusedKept
<1>4. ASSUME NEW names \in Configs, ReconcileConfig(names) PROVE Lands(Now, Now')
  BY <1>4, ReconcileConfigKept
<1> QED BY <1>1, <1>2, <1>3, <1>4 DEF ByUser

\* After a toggle, a step, a move into a pad, a restore or a reload the
\* keyboard is on a window that is on screen, or on nothing.
THEOREM WishesMoveTheKeyboard == Spec => FocusFollows
<1>1. Inv => [wins'.focus \in wins'.shown \cup {None} \/ ~ByUser]_wins
  <2> SUFFICES ASSUME Inv, ByUser, wins' # wins PROVE wins'.focus \in wins'.shown \cup {None}
    OBVIOUS
  <2>1. Lands(Now, Now')
    BY WishLands
  <2> QED BY <2>1 DEF Lands, Now
<1> QED BY <1>1, Invariance, PTL DEF FocusFollows
=============================================================================
