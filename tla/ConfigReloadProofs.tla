-------------------------- MODULE ConfigReloadProofs --------------------------
(* Proofs about ConfigReload: what is in effect, and when it may change.     *)
EXTENDS ConfigReload, SequenceLemmas, TLAPS

StoreFields == Learned \cup {"config", "root", "explicit", "fileMissing"}
LoadFields == {"kind", "root", "found", "todo", "texts", "absent", "saved", "missed"}

\* A configuration without errors, and whole where it sets a policy.
Whole(config) ==
  \A f \in DOMAIN config :
    /\ config[f].state = "good"
    /\ config[f].drm => \A g \in DOMAIN config : Named(config[g]) \subseteq DOMAIN config

\* What is true of a load between the reading of two files: every file that a
\* text names was read, was found missing or is still to be read.
Closed(l) ==
  /\ l.todo \cap DOMAIN l.texts = {}
  /\ \A f \in DOMAIN l.texts :
       /\ l.texts[f] \in Text
       /\ Named(l.texts[f]) \subseteq DOMAIN l.texts \cup l.absent \cup l.todo

DiskOK == disk \in [Files -> Texts \cup {None}]

StoreOK == store = [f \in StoreFields |-> store[f]] /\ Whole(store.config)

LoadOK ==
  load # None =>
    /\ load = [f \in LoadFields |-> load[f]]
    /\ Closed(load)
    /\ load.kind = "load" => store.config = Defaults

IInv == DiskOK /\ StoreOK /\ LoadOK

-----------------------------------------------------------------------------

\* The configuration that is in effect before any file was read is whole.
LEMMA DefaultsWhole == Whole(Defaults)
BY DEF Whole, Defaults

\* parseConfig lets no other load succeed than one of files without errors
\* and, where one of them sets [drm], without a missing include.
LEMMA LoadedWhole ==
  ASSUME NEW l, Closed(l), l.todo = {}, Outcome(l) = "loaded"
  PROVE  Whole(l.texts)
<1>1. Holds(l, "broken") = {} /\ Holds(l, "invalid") = {} /\ ~Undecided(l)
  BY DEF Outcome
<1>2. ASSUME NEW f \in DOMAIN l.texts
      PROVE  l.texts[f].state = "good"
  <2>1. l.texts[f].state \in {"good", "invalid", "broken"}
    BY DEF Closed, Text
  <2>2. l.texts[f].state # "broken" /\ l.texts[f].state # "invalid"
    BY <1>1 DEF Holds
  <2> QED BY <2>1, <2>2
<1>3. ASSUME NEW f \in DOMAIN l.texts, l.texts[f].drm, NEW g \in DOMAIN l.texts
      PROVE  Named(l.texts[g]) \subseteq DOMAIN l.texts
  <2>1. AsksDrm(l)
    BY <1>2, <1>3 DEF AsksDrm
  <2>2. l.absent = {}
    BY <1>1, <2>1 DEF Undecided
  <2> QED BY <2>2 DEF Closed
<1> QED BY <1>2, <1>3 DEF Whole

\* Every load begins with nothing read, and leaves what is in effect alone.
LEMMA BeginKeeps ==
  ASSUME IInv, NEW kind, NEW root, NEW paths, kind # "load", Begin(kind, root, paths)
  PROVE  StoreOK' /\ LoadOK' /\ store'.config = store.config
<1>1. store' = [f \in StoreFields |-> store'[f]] /\ store'.config = store.config
  BY DEF IInv, StoreOK, Begin, StoreFields, Learned
<1>2. load' = [f \in LoadFields |-> load'[f]] /\ load'.kind = kind /\ load'.texts = <<>>
  BY DEF Begin, LoadFields
<1>3. Closed(load')
  BY <1>2 DEF Closed
<1>4. LoadOK'
  BY <1>2, <1>3 DEF LoadOK
<1> QED BY <1>1, <1>4 DEF IInv, StoreOK

\* What a load that is over leaves in the store, committed or not.
LEMMA LearnKeeps ==
  ASSUME IInv
  PROVE  /\ Learn(store) = [f \in StoreFields |-> Learn(store)[f]]
         /\ \A f \in {"config", "root", "explicit", "fileMissing"} : Learn(store)[f] = store[f]
BY DEF IInv, StoreOK, Learn, StoreFields, Learned

\* A commit puts in effect what was read, or the defaults (ConfigStore::commit).
LEMMA CommitWhole ==
  ASSUME IInv, Loaded
  PROVE  /\ Commit(Learn(store)) = [f \in StoreFields |-> Commit(Learn(store))[f]]
         /\ Commit(Learn(store)).config = IF Outcome(load) = "loaded" THEN load.texts ELSE Defaults
         /\ Commit(Learn(store)).fileMissing = (Outcome(load) = "missing")
         /\ Whole(Commit(Learn(store)).config)
<1>1. /\ Commit(Learn(store)) = [f \in StoreFields |-> Commit(Learn(store))[f]]
      /\ Commit(Learn(store)).config = IF Outcome(load) = "loaded" THEN load.texts ELSE Defaults
      /\ Commit(Learn(store)).fileMissing = (Outcome(load) = "missing")
  BY LearnKeeps DEF Commit, StoreFields, Learned
<1>2. Whole(Commit(Learn(store)).config)
  <2>1. CASE Outcome(load) = "loaded"
    BY <1>1, <2>1, LoadedWhole DEF IInv, LoadOK, Loaded
  <2>2. CASE Outcome(load) # "loaded"
    BY <1>1, <2>2, DefaultsWhole
  <2> QED BY <2>1, <2>2
<1> QED BY <1>1, <1>2

\* A step that leaves disk and store alone, and puts a closed load in the place
\* of the one under way, keeps the invariant.
LEMMA SameStore ==
  ASSUME IInv, UNCHANGED <<disk, store>>, LoadOK'
  PROVE  IInv' /\ store'.config = store.config
BY DEF IInv, DiskOK, StoreOK, Whole

\* Others change what the files hold, never what is in effect or being read.
LEMMA OthersKeep ==
  ASSUME IInv, UNCHANGED <<store, load>>, DiskOK'
  PROVE  IInv' /\ store'.config = store.config
BY DEF IInv, StoreOK, LoadOK, Closed, Whole

\* A file is read whole (configmerge::loadAndExpand), and those it names are to come.
LEMMA ReadFileKeeps ==
  ASSUME IInv, NEW f \in Files, ReadFile(f)
  PROVE  LoadOK'
<1> DEFINE read == DOMAIN load.texts \cup {g \in {f} : disk[g] # None}
           texts == [g \in read |-> IF g = f THEN disk[g] ELSE load.texts[g]]
           absent == load.absent \cup ({f} \ read)
           more == IF disk[f] = None THEN {} ELSE Named(disk[f])
<1>1. load # None /\ load = [x \in LoadFields |-> load[x]] /\ Closed(load) /\ f \in load.todo
  BY DEF IInv, LoadOK, ReadFile
<1>2. /\ load' = [x \in LoadFields |-> load'[x]]
      /\ load'.texts = texts /\ load'.kind = load.kind /\ load'.absent = absent
      /\ load'.todo = (load.todo \cup more) \ (read \cup absent)
  BY <1>1 DEF ReadFile, LoadFields
<1>3. disk[f] = None \/ disk[f] \in Text
  BY ConfigAssumption DEF IInv, DiskOK
<1>4. ASSUME NEW g \in read
      PROVE  texts[g] \in Text /\ Named(texts[g]) \subseteq read \cup absent \cup load'.todo
  <2>1. CASE g = f /\ disk[f] # None
    BY <1>2, <1>3, <2>1
  <2>2. CASE ~(g = f /\ disk[f] # None)
    <3>1. g \in DOMAIN load.texts
      BY <2>2
    <3>2. g # f
      BY <1>1, <3>1 DEF Closed
    <3> QED BY <1>1, <1>2, <3>1, <3>2 DEF Closed
  <2> QED BY <2>1, <2>2
<1>5. Closed(load')
  BY <1>2, <1>4 DEF Closed
<1> QED BY <1>1, <1>2, <1>5 DEF IInv, LoadOK, ReadFile

\* Of the commands and the timer, each begins a load (reload, replace).
LEMMA BeginsKeep ==
  ASSUME IInv, \/ TimerExpires \/ ReloadAction \/ \E f \in Files : ReplaceAction(f)
  PROVE  IInv' /\ store'.config = store.config
<1>1. disk' = disk
  BY DEF TimerExpires, ReloadAction, ReplaceAction
<1>2. \E kind, root, paths : kind # "load" /\ Begin(kind, root, paths)
  <2>1. ASSUME BeginReload
        PROVE  \E kind, root, paths : kind # "load" /\ Begin(kind, root, paths)
    BY <2>1 DEF BeginReload
  <2>2. ASSUME NEW f \in Files, ReplaceAction(f)
        PROVE  \E kind, root, paths : kind # "load" /\ Begin(kind, root, paths)
    BY <2>2 DEF ReplaceAction
  <2> QED BY <2>1, <2>2 DEF TimerExpires, ReloadAction
<1> QED BY <1>1, <1>2, BeginKeeps DEF IInv, DiskOK

\* What PreviousIsKept allows of one step.
Kept ==
  store'.config # store.config =>
    \/ Outcome(load) = "loaded" /\ store'.config = load.texts
    \/ load.kind = "reload" /\ store'.fileMissing /\ ~load.found /\ ~store.explicit

\* ConfigStore::load: the first load has the defaults to keep.
LEMMA FinishStartKeeps ==
  ASSUME IInv, FinishStart
  PROVE  IInv' /\ Kept
<1>1. /\ Loaded /\ load.kind = "load" /\ load # None /\ disk' = disk
      /\ load = [f \in LoadFields |-> load[f]] /\ Closed(load) /\ store.config = Defaults
  BY DEF FinishStart, Loaded, IInv, LoadOK
<1>2. /\ load' = [f \in LoadFields |-> load'[f]] /\ load'.kind # "load"
      /\ load'.texts = load.texts /\ load'.todo = load.todo /\ load'.absent = load.absent
  BY <1>1 DEF FinishStart, LoadFields
<1>3. LoadOK'
  BY <1>1, <1>2 DEF LoadOK, Closed
<1>4. store' = Learn(store) \/ store' = Commit(Learn(store))
  BY DEF FinishStart
<1>5. StoreOK' /\ Kept
  <2>1. CASE store' = Learn(store)
    BY <2>1, LearnKeeps DEF IInv, StoreOK, Kept, Whole
  <2>2. CASE store' = Commit(Learn(store))
    BY <1>1, <2>2, CommitWhole DEF StoreOK, Kept, Whole
  <2> QED BY <1>4, <2>1, <2>2
<1> QED BY <1>1, <1>3, <1>5 DEF IInv, DiskOK

\* ConfigStore::reload: what fails is learned and not committed.
LEMMA FinishReloadKeeps ==
  ASSUME IInv, FinishReload
  PROVE  IInv' /\ Kept
<1>1. /\ Loaded /\ load.kind = "reload" /\ load # None /\ disk' = disk
      /\ load = [f \in LoadFields |-> load[f]] /\ Closed(load)
  BY DEF FinishReload, Loaded, IInv, LoadOK
<1>2. /\ load' = [f \in LoadFields |-> load'[f]] /\ load'.kind # "load"
      /\ load'.texts = load.texts /\ load'.todo = load.todo /\ load'.absent = load.absent
  BY <1>1 DEF FinishReload, LoadFields
<1>3. LoadOK'
  BY <1>1, <1>2 DEF LoadOK, Closed
<1>4. \/ store' = Learn(store)
      \/ /\ store' = Commit(Learn(store))
         /\ Outcome(load) = "loaded" \/ (~store.explicit /\ ~load.found /\ Outcome(load) = "missing")
  BY DEF FinishReload
<1>5. StoreOK' /\ Kept
  <2>1. CASE store' = Learn(store)
    BY <2>1, LearnKeeps DEF IInv, StoreOK, Kept, Whole
  <2>2. CASE /\ store' = Commit(Learn(store))
             /\ Outcome(load) = "loaded" \/ (~store.explicit /\ ~load.found /\ Outcome(load) = "missing")
    <3>1. StoreOK'
      BY <1>1, <2>2, CommitWhole DEF StoreOK, Whole
    <3>2. Kept
      BY <1>1, <2>2, CommitWhole DEF Kept
    <3> QED BY <3>1, <3>2
  <2> QED BY <1>4, <2>1, <2>2
<1> QED BY <1>1, <1>3, <1>5 DEF IInv, DiskOK

\* ConfigStore::replace: what fails puts back what it had learned.
LEMMA FinishReplaceKeeps ==
  ASSUME IInv, FinishReplace
  PROVE  IInv' /\ Kept
<1>1. /\ Loaded /\ load.kind = "replace" /\ load # None /\ disk' = disk
      /\ load = [f \in LoadFields |-> load[f]] /\ Closed(load)
  BY DEF FinishReplace, Loaded, IInv, LoadOK
<1>2. CASE Outcome(load) = "loaded"
  <2>1. /\ load' = [f \in LoadFields |-> load'[f]] /\ load'.kind = "rearm"
        /\ load'.texts = load.texts /\ load'.todo = load.todo /\ load'.absent = load.absent
        /\ store' = [Commit(Learn(store)) EXCEPT !.explicit = TRUE]
    BY <1>1, <1>2 DEF FinishReplace, LoadFields
  <2>2. LoadOK'
    BY <1>1, <2>1 DEF LoadOK, Closed
  <2>3. /\ store' = [f \in StoreFields |-> store'[f]]
        /\ store'.config = load.texts /\ Whole(load.texts)
    BY <1>1, <1>2, <2>1, CommitWhole DEF StoreFields, Learned
  <2> QED BY <1>1, <1>2, <2>2, <2>3 DEF IInv, DiskOK, StoreOK, Kept, Whole
<1>3. CASE Outcome(load) # "loaded"
  <2>1. store' = [f \in DOMAIN store |-> IF f \in Learned THEN load.saved[f] ELSE store[f]]
        /\ load' = None
    BY <1>3 DEF FinishReplace
  <2>2. store' = [f \in StoreFields |-> store'[f]] /\ store'.config = store.config
    BY <2>1 DEF IInv, StoreOK, StoreFields, Learned
  <2> QED BY <1>1, <2>1, <2>2 DEF IInv, DiskOK, StoreOK, LoadOK, Kept, Whole
<1> QED BY <1>2, <1>3

\* Init: the first load has read nothing, and nothing is in effect yet.
LEMMA InitHolds == Init => IInv
<1> SUFFICES ASSUME Init PROVE IInv
  OBVIOUS
<1>1. DiskOK
  BY ConfigAssumption DEF Init, DiskOK
<1>2. PICK root, paths, explicit, saved, found :
        /\ store = [config |-> Defaults, root |-> root, explicit |-> explicit, fileMissing |-> FALSE,
                    diagnostics |-> {}, missingIncludes |-> FALSE, watchPaths |-> paths]
        /\ load = [kind |-> "load", root |-> root, found |-> found, todo |-> {root}, texts |-> <<>>,
                   absent |-> {}, saved |-> saved, missed |-> {}]
  <2>1. PICK explicit \in BOOLEAN :
          LET root == Selected([explicit |-> explicit, root |-> Candidates[1]], disk)
              paths == IF explicit THEN {root} ELSE ToSet(Candidates)
              blank == [config |-> Defaults, root |-> root, explicit |-> explicit, fileMissing |-> FALSE,
                        diagnostics |-> {}, missingIncludes |-> FALSE, watchPaths |-> paths]
          IN /\ store = blank
             /\ load = [kind |-> "load", root |-> root, found |-> disk[root] # None,
                        todo |-> {root}, texts |-> <<>>, absent |-> {},
                        saved |-> [f \in Learned |-> blank[f]], missed |-> {}]
    BY Zenon DEF Init
  <2> QED BY <2>1, Zenon
<1>3. store = [f \in StoreFields |-> store[f]] /\ store.config = Defaults
  BY <1>2 DEF StoreFields, Learned
<1>4. load = [f \in LoadFields |-> load[f]] /\ load.texts = <<>>
  BY <1>2 DEF LoadFields
<1>5. LoadOK
  BY <1>3, <1>4 DEF LoadOK, Closed
<1>6. StoreOK
  BY <1>3, DefaultsWhole DEF StoreOK
<1> QED BY <1>1, <1>5, <1>6 DEF IInv

\* Every step keeps the invariant, and what is in effect unless it may change it.
LEMMA StepKeeps ==
  ASSUME IInv, [Next]_vars
  PROVE  IInv' /\ Kept
<1>1. ASSUME NEW f \in Files, ReadFile(f)
      PROVE  IInv' /\ Kept
  <2>1. UNCHANGED <<disk, store>>
    BY <1>1 DEF ReadFile
  <2> QED BY <1>1, <2>1, ReadFileKeeps, SameStore DEF Kept
<1>2. ASSUME Rearm
      PROVE  IInv' /\ Kept
  <2>1. UNCHANGED <<disk, store>> /\ load' = None
    BY <1>2 DEF Rearm
  <2> QED BY <2>1, SameStore DEF LoadOK, Kept
<1>3. ASSUME Dispatch
      PROVE  IInv' /\ Kept
  <2>1. UNCHANGED <<disk, store, load>>
    BY <1>3 DEF Dispatch
  <2> QED BY <2>1, OthersKeep DEF IInv, DiskOK, Kept
<1>4. ASSUME NEW f \in Files, NEW t \in Texts \cup {None}, Edit(f, t)
      PROVE  IInv' /\ Kept
  BY <1>4, OthersKeep DEF Edit, IInv, DiskOK, Kept
<1>5. ASSUME NEW d \in Directories \ Lasting, MakeDirectory(d) \/ RemoveDirectory(d)
      PROVE  IInv' /\ Kept
  <2>1. UNCHANGED <<store, load>>
    BY <1>5 DEF MakeDirectory, RemoveDirectory
  <2>2. DiskOK'
    BY <1>5 DEF MakeDirectory, RemoveDirectory, IInv, DiskOK
  <2> QED BY <2>1, <2>2, OthersKeep DEF Kept
<1>6. ASSUME TimerExpires \/ ReloadAction \/ \E f \in Files : ReplaceAction(f)
      PROVE  IInv' /\ Kept
  BY <1>6, BeginsKeep DEF Kept
<1>7. ASSUME UNCHANGED vars
      PROVE  IInv' /\ Kept
  BY <1>7, OthersKeep DEF vars, IInv, DiskOK, Kept
<1> QED
  BY <1>1, <1>2, <1>3, <1>4, <1>5, <1>6, <1>7, FinishStartKeeps, FinishReloadKeeps, FinishReplaceKeeps
  DEF Next, LoopNext, OthersNext

\* The inductive invariant of the store, for any files and any texts.
THEOREM Invariance == Spec => []IInv
BY InitHolds, StepKeeps, PTL DEF Spec

\* The configuration in effect holds no error, and one that sets [drm] has all
\* its includes (parseConfig), whatever is written between two reads.
THEOREM PolicyStaysWhole == Spec => []PolicyIsWhole
<1>1. IInv => PolicyIsWhole
  BY DEF IInv, StoreOK, Whole, PolicyIsWhole
<1> QED BY <1>1, Invariance, PTL

\* store.h: "on failure the previous configuration is kept", and what takes
\* its place is what was read, or the defaults where nothing was found.
THEOREM PreviousStays == Spec => PreviousIsKept
<1>1. IInv /\ [Next]_vars => [Kept]_vars
  BY StepKeeps
<1>2. [][Kept]_vars => PreviousIsKept
  BY PTL DEF Kept, PreviousIsKept
<1> QED BY <1>1, <1>2, Invariance, PTL DEF Spec

-----------------------------------------------------------------------------
(* What the operators of the model return.                                 *)

\* The candidates that exist, and the first of them.
Existing(d) == {i \in 1 .. Len(Candidates) : d[Candidates[i]] # None}
There(d) == SelectInSeq(Candidates, LAMBDA f : d[f] # None)

LEMMA ThereIs ==
  ASSUME NEW d
  PROVE  There(d) = IF Existing(d) # {} THEN Min(Existing(d)) ELSE 0
BY DEF There, Existing, SelectInSeq

LEMMA CandidatesAre ==
  /\ Len(Candidates) \in Nat /\ Len(Candidates) # 0
  /\ \A i \in 1 .. Len(Candidates) : Candidates[i] \in ToSet(Candidates) /\ Candidates[i] \in Files
  /\ \A f \in ToSet(Candidates) : \E i \in 1 .. Len(Candidates) : f = Candidates[i]
<1>1. /\ Len(Candidates) \in Nat /\ Len(Candidates) # 0 /\ DOMAIN Candidates = 1 .. Len(Candidates)
      /\ \A i \in 1 .. Len(Candidates) : Candidates[i] \in Files
  BY ConfigAssumption
<1>2. \A i \in DOMAIN Candidates : Candidates[i] \in ToSet(Candidates)
  BY DEF ToSet
<1>3. \A f \in ToSet(Candidates) : \E i \in DOMAIN Candidates : f = Candidates[i]
  BY DEF ToSet
<1> QED BY <1>1, <1>2, <1>3

\* selectDefaultConfig chooses one of the candidates, by which of them exist.
LEMMA SelectedFacts ==
  ASSUME NEW s, NEW d
  PROVE  ~s.explicit => Selected(s, d) \in ToSet(Candidates)
<1>1. Existing(d) \in SUBSET Nat
  BY CandidatesAre DEF Existing
<1>2. Existing(d) # {} => Min(Existing(d)) \in Existing(d)
  BY <1>1, LeastOfNat
<1>3. There(d) # 0 => There(d) \in Existing(d)
  BY <1>2, ThereIs
<1>4. There(d) # 0 => Candidates[There(d)] \in ToSet(Candidates)
  BY <1>3, CandidatesAre DEF Existing
<1>5. Candidates[1] \in ToSet(Candidates)
  BY CandidatesAre
<1> QED BY <1>4, <1>5 DEF Selected, There

LEMMA SelectedAlike ==
  ASSUME NEW s, NEW t, NEW d, NEW e, t.explicit = s.explicit, s.explicit => t.root = s.root,
         ~s.explicit => \A f \in ToSet(Candidates) : d[f] # None <=> e[f] # None
  PROVE  Selected(t, e) = Selected(s, d)
<1>1. CASE s.explicit
  BY <1>1 DEF Selected
<1>2. CASE ~s.explicit
  <2>1. Existing(d) = Existing(e)
    BY <1>2, CandidatesAre DEF Existing
  <2>2. There(d) = There(e)
    BY <2>1, ThereIs
  <2> QED BY <1>2, <2>2 DEF Selected, There
<1> QED BY <1>1, <1>2

\* The files that the root leads to: a set closed under what its members name,
\* and no more than any such set has.
LEMMA ReachedIs ==
  ASSUME NEW root, NEW d, NEW D \in SUBSET Files, root \in D,
         \A f \in D : d[f] # None => Named(d[f]) \subseteq D,
         \A S \in SUBSET Files :
           (root \in S /\ \A f \in S \cap D : d[f] # None => Named(d[f]) \subseteq S) => D \subseteq S
  PROVE  Reached(root, d) = D
<1>1. ASSUME NEW f \in Reached(root, d)
      PROVE  f \in D
  BY DEF Reached
<1>2. ASSUME NEW f \in D
      PROVE  f \in Reached(root, d)
  BY DEF Reached
<1> QED BY <1>1, <1>2

LEMMA ReachedFacts ==
  ASSUME NEW root \in Files, NEW d,
         \A f \in Files : d[f] # None => Named(d[f]) \subseteq Files
  PROVE  /\ Reached(root, d) \subseteq Files /\ root \in Reached(root, d)
         /\ \A f \in Reached(root, d) : d[f] # None => Named(d[f]) \subseteq Reached(root, d)
<1>1. ASSUME NEW f \in Reached(root, d), d[f] # None, NEW g \in Named(d[f])
      PROVE  g \in Reached(root, d)
  <2>1. f \in Files /\ g \in Files
    BY <1>1 DEF Reached
  <2>2. ASSUME NEW S \in SUBSET Files, root \in S, \A h \in S : d[h] # None => Named(d[h]) \subseteq S
        PROVE  g \in S
    BY <1>1, <2>2 DEF Reached
  <2> QED BY <2>1, <2>2 DEF Reached
<1> QED BY <1>1 DEF Reached

\* Files that the root does not lead to do not matter.
LEMMA ReachedAlike ==
  ASSUME NEW root \in Files, NEW d, NEW e,
         \A f \in Files : d[f] # None => Named(d[f]) \subseteq Files,
         \A f \in Reached(root, d) : e[f] = d[f]
  PROVE  Reached(root, e) = Reached(root, d)
<1> DEFINE D == Reached(root, d)
<1>1. /\ D \subseteq Files /\ root \in D
      /\ \A f \in D : d[f] # None => Named(d[f]) \subseteq D
  BY ReachedFacts
<1>2. ASSUME NEW S \in SUBSET Files, root \in S,
             \A f \in S \cap D : e[f] # None => Named(e[f]) \subseteq S
      PROVE  D \subseteq S
  <2>1. \A f \in S \cap D : d[f] # None => Named(d[f]) \subseteq S \cap D
    BY <1>1, <1>2
  <2>2. S \cap D \in SUBSET Files /\ root \in S \cap D
    BY <1>1, <1>2
  <2>3. \A f \in D : f \in S \cap D
    BY <2>1, <2>2 DEF Reached
  <2> QED BY <2>3
<1>3. \A f \in D : e[f] # None => Named(e[f]) \subseteq D
  BY <1>1
<1> HIDE DEF D
<1>4. Reached(root, e) = D
  BY <1>1, <1>2, <1>3, ReachedIs
<1> QED BY <1>4 DEF D

\* What a load comes to is a matter of its root, its texts and what is absent.
LEMMA OutcomeAlike ==
  ASSUME NEW l, NEW m, m.root = l.root, m.texts = l.texts, m.absent = l.absent
  PROVE  /\ Outcome(m) = Outcome(l) /\ Required(m) = Required(l)
         /\ \A x : Diagnostics(m, x) = Diagnostics(l, x)
BY DEF Outcome, Required, Diagnostics, Holds, AsksDrm, Undecided

-----------------------------------------------------------------------------
(* Where files lie.                                                        *)

LEMMA LineageFacts ==
  ASSUME NEW f \in Files
  PROVE  /\ Lineage[f] \in Seq(Directories) /\ DOMAIN Lineage[f] = 1 .. Len(Lineage[f])
         /\ Len(Lineage[f]) \in Nat \ {0} /\ Head(Lineage[f]) = Lineage[f][1]
         /\ \A i \in 1 .. Len(Lineage[f]) :
              Lineage[f][i] \in Directories /\ (Lineage[f][i] \in Lasting <=> i = Len(Lineage[f]))
<1>1. Lineage[f] \in Seq(Directories) /\ Lineage[f] # <<>>
  BY ConfigAssumption
<1>2. DOMAIN Lineage[f] = 1 .. Len(Lineage[f]) /\ Len(Lineage[f]) \in Nat \ {0}
  BY <1>1
<1>3. \A i \in DOMAIN Lineage[f] : Lineage[f][i] \in Lasting <=> i = Len(Lineage[f])
  BY ConfigAssumption
<1> QED BY <1>1, <1>2, <1>3

\* Whoever shares a directory shares all above it.
LEMMA OneWayUp ==
  ASSUME NEW f \in Files, NEW g \in Files, NEW i \in 1 .. Len(Lineage[f]), NEW j \in 1 .. Len(Lineage[g]),
         Lineage[f][i] = Lineage[g][j]
  PROVE  /\ Len(Lineage[f]) - i = Len(Lineage[g]) - j
         /\ \A n \in 0 .. (Len(Lineage[f]) - i) : Lineage[f][i + n] = Lineage[g][j + n]
<1>1. i \in DOMAIN Lineage[f] /\ j \in DOMAIN Lineage[g]
  BY LineageFacts
<1>2. \A h, k \in Files : \A a \in DOMAIN Lineage[h], b \in DOMAIN Lineage[k] :
        Lineage[h][a] = Lineage[k][b] =>
          /\ Len(Lineage[h]) - a = Len(Lineage[k]) - b
          /\ \A n \in 0 .. (Len(Lineage[h]) - a) : Lineage[h][a + n] = Lineage[k][b + n]
  BY ConfigAssumption, Zenon
<1> QED BY <1>1, <1>2

\* From the m-th to the n-th directory of one lineage, and from the j-th on in another.
LEMMA StepsUp ==
  ASSUME NEW p \in Nat, NEW q \in Nat, NEW m \in 1 .. p, NEW n \in 1 .. p, NEW j \in 1 .. q,
         m < n, p - m = q - j
  PROVE  n - m \in 0 .. (p - m) /\ m + (n - m) = n /\ j + (n - m) \in 1 .. q /\ j < j + (n - m)
OBVIOUS

LEMMA ParentIs ==
  ASSUME NEW f \in Files, NEW k \in 1 .. (Len(Lineage[f]) - 1)
  PROVE  Parent(Lineage[f][k]) = Lineage[f][k + 1]
<1> DEFINE d == Lineage[f][k]
           Has(g) == d \in ToSet(Front(Lineage[g]))
           g == CHOOSE g \in Files : Has(g)
           At(i) == i \in DOMAIN Lineage[g] /\ Lineage[g][i] = d
           i == CHOOSE i \in DOMAIN Lineage[g] : Lineage[g][i] = d
<1>1. Parent(d) = Lineage[g][i + 1]
  BY DEF Parent
<1>2. \A h \in Files : Has(h) <=> \E n \in 1 .. (Len(Lineage[h]) - 1) : Lineage[h][n] = d
  <2> SUFFICES ASSUME NEW h \in Files
               PROVE  Has(h) <=> \E n \in 1 .. (Len(Lineage[h]) - 1) : Lineage[h][n] = d
    OBVIOUS
  <2> DEFINE q == Front(Lineage[h])
  <2>1. Lineage[h] \in Seq(Directories) /\ Len(Lineage[h]) \in Nat \ {0}
    BY LineageFacts
  <2>2. DOMAIN q = 1 .. (Len(Lineage[h]) - 1) /\ \A n \in DOMAIN q : q[n] = Lineage[h][n]
    BY <2>1 DEF Front
  <2>3. Has(h) <=> \E n \in DOMAIN q : d = q[n]
    BY DEF ToSet
  <2> HIDE DEF q, Has, d
  <2> QED BY <2>2, <2>3
<1> HIDE DEF Has
<1>3. Has(f)
  BY <1>2
<1>4. g \in Files /\ Has(g)
  BY <1>3
<1>5. PICK n \in 1 .. (Len(Lineage[g]) - 1) : Lineage[g][n] = d
  BY <1>2, <1>4
<1> HIDE DEF g
<1>6. n \in DOMAIN Lineage[g] /\ Len(Lineage[g]) \in Nat /\ Len(Lineage[f]) \in Nat
  BY <1>4, LineageFacts
<1>7. i \in 1 .. Len(Lineage[g]) /\ Lineage[g][i] = d
  BY <1>4, <1>5, <1>6, LineageFacts
<1> HIDE DEF i
<1>8. k \in 1 .. Len(Lineage[f]) /\ 1 \in 0 .. (Len(Lineage[f]) - k)
  BY <1>6
<1>9. Lineage[f][k + 1] = Lineage[g][i + 1]
  BY <1>4, <1>7, <1>8, OneWayUp
<1> QED BY <1>1, <1>9

\* The directory that is watched for a file: the nearest that exists.
At(f, ds) == CHOOSE i \in DOMAIN Lineage[f] :
  /\ Lineage[f][i] \in ds
  /\ \A j \in 1 .. (i - 1) : Lineage[f][j] \notin ds

LEMMA AtFacts ==
  ASSUME NEW f \in Files, NEW ds, Lasting \subseteq ds
  PROVE  /\ At(f, ds) \in 1 .. Len(Lineage[f]) /\ Lineage[f][At(f, ds)] \in ds
         /\ \A j \in 1 .. (At(f, ds) - 1) : Lineage[f][j] \notin ds
<1> DEFINE I == {i \in 1 .. Len(Lineage[f]) : Lineage[f][i] \in ds}
           Is(i) == Lineage[f][i] \in ds /\ \A j \in 1 .. (i - 1) : Lineage[f][j] \notin ds
<1>1. DOMAIN Lineage[f] = 1 .. Len(Lineage[f]) /\ Len(Lineage[f]) \in Nat \ {0}
  BY LineageFacts
<1>2. Len(Lineage[f]) \in I
  BY <1>1, LineageFacts
<1>3. I \in SUBSET Nat /\ I # {}
  BY <1>1, <1>2
<1>4. PICK k \in I : \A y \in I : k <= y
  <2> HIDE DEF I
  <2> QED BY <1>3, LeastOfNat
<1>5. Is(k) /\ k \in 1 .. Len(Lineage[f])
  BY <1>1, <1>4
<1>6. At(f, ds) = CHOOSE i \in 1 .. Len(Lineage[f]) : Is(i)
  BY <1>1 DEF At
<1> HIDE DEF Is, I
<1>7. At(f, ds) \in 1 .. Len(Lineage[f]) /\ Is(At(f, ds))
  BY <1>5, <1>6
<1> QED BY <1>7 DEF Is

LEMMA AtIs ==
  ASSUME NEW f \in Files, NEW ds, Lasting \subseteq ds, NEW i \in 1 .. Len(Lineage[f]),
         Lineage[f][i] \in ds, \A j \in 1 .. (i - 1) : Lineage[f][j] \notin ds
  PROVE  At(f, ds) = i
<1> DEFINE a == At(f, ds)
<1>1. /\ a \in 1 .. Len(Lineage[f]) /\ Lineage[f][a] \in ds
      /\ \A j \in 1 .. (a - 1) : Lineage[f][j] \notin ds
  BY AtFacts
<1> HIDE DEF a
<1>2. Len(Lineage[f]) \in Nat
  BY LineageFacts
<1>3. ~(a < i) /\ ~(i < a)
  BY <1>1, <1>2
<1>4. a = i
  BY <1>1, <1>2, <1>3
<1> QED BY <1>4 DEF a

\* The files and the directories fit: what exists lies in what exists.
DirOK(d, ds) ==
  /\ Lasting \subseteq ds /\ ds \subseteq Directories
  /\ \A f \in Files : \A i, j \in 1 .. Len(Lineage[f]) :
       (Lineage[f][i] \in ds /\ i <= j) => Lineage[f][j] \in ds
  /\ \A f \in Files : d[f] # None => Lineage[f][1] \in ds

LEMMA EditDir ==
  ASSUME DirOK(disk, directories), DiskOK, NEW f \in Files, NEW t \in Texts \cup {None}, Edit(f, t)
  PROVE  DirOK(disk', directories')
BY LineageFacts DEF DirOK, DiskOK, Edit

LEMMA MakeDir ==
  ASSUME DirOK(disk, directories), NEW d \in Directories \ Lasting, MakeDirectory(d)
  PROVE  DirOK(disk', directories')
<1>1. directories' = directories \cup {d} /\ disk' = disk /\ Parent(d) \in directories
  BY DEF MakeDirectory
<1>2. ASSUME NEW f \in Files, NEW i \in 1 .. Len(Lineage[f]), NEW j \in 1 .. Len(Lineage[f]),
             Lineage[f][i] \in directories', i <= j
      PROVE  Lineage[f][j] \in directories'
  <2>1. CASE Lineage[f][i] \in directories
    BY <1>1, <1>2, <2>1 DEF DirOK
  <2>2. CASE Lineage[f][i] = d /\ i = j
    BY <1>1, <2>2
  <2>3. CASE Lineage[f][i] = d /\ i # j
    <3>1. Len(Lineage[f]) \in Nat
      BY LineageFacts
    <3>2. i \in 1 .. (Len(Lineage[f]) - 1) /\ i + 1 \in 1 .. Len(Lineage[f]) /\ i + 1 <= j
      BY <1>2, <2>3, <3>1
    <3>3. Lineage[f][i + 1] \in directories
      BY <1>1, <2>3, <3>2, ParentIs
    <3>4. Lineage[f][j] \in directories
      BY <3>2, <3>3 DEF DirOK
    <3> QED BY <1>1, <3>4
  <2> QED BY <1>1, <1>2, <2>1, <2>2, <2>3
<1> QED BY <1>1, <1>2 DEF DirOK

\* A directory that goes takes along all below it.
LEMMA RemoveDir ==
  ASSUME DirOK(disk, directories), DiskOK, NEW d \in Directories \ Lasting, RemoveDirectory(d)
  PROVE  DirOK(disk', directories')
<1>1. /\ directories' = directories \ Gone(d)
      /\ disk' = [f \in Files |-> IF f \in {g \in Files : d \in ToSet(Lineage[g])} THEN None ELSE disk[f]]
  BY DEF RemoveDirectory
<1>2. \A f \in Files : \A i, j \in 1 .. Len(Lineage[f]) : (i < j /\ Lineage[f][j] = d) => Lineage[f][i] \in Gone(d)
  BY LineageFacts DEF Gone
<1>3. \A e \in Gone(d) : e = d \/ \E f \in Files : \E i, j \in 1 .. Len(Lineage[f]) :
                                    i < j /\ Lineage[f][i] = e /\ Lineage[f][j] = d
  BY LineageFacts DEF Gone
<1>4. Lasting \cap Gone(d) = {}
  <2> SUFFICES ASSUME NEW e \in Gone(d), e \in Lasting PROVE FALSE
    OBVIOUS
  <2>1. PICK f \in Files : \E i, j \in 1 .. Len(Lineage[f]) : i < j /\ Lineage[f][i] = e
    BY <1>3
  <2>2. PICK i, j \in 1 .. Len(Lineage[f]) : i < j /\ Lineage[f][i] = e
    BY <2>1
  <2>3. i = Len(Lineage[f]) /\ Len(Lineage[f]) \in Nat
    BY <2>2, LineageFacts
  <2> QED BY <2>2, <2>3
<1>5. ASSUME NEW f \in Files, NEW i \in 1 .. Len(Lineage[f]), NEW j \in 1 .. Len(Lineage[f]),
             Lineage[f][i] \in directories', i <= j
      PROVE  Lineage[f][j] \in directories'
  <2>1. Lineage[f][j] \in directories
    BY <1>1, <1>5 DEF DirOK
  <2>2. ASSUME Lineage[f][j] \in Gone(d), i < j
        PROVE  FALSE
    <3>1. CASE Lineage[f][j] = d
      BY <1>1, <1>2, <1>5, <2>2, <3>1
    <3>2. CASE Lineage[f][j] # d
      <4>0. PICK g \in Files : \E m, n \in 1 .. Len(Lineage[g]) :
              m < n /\ Lineage[g][m] = Lineage[f][j] /\ Lineage[g][n] = d
        BY <1>3, <2>2, <3>2
      <4>1. PICK m, n \in 1 .. Len(Lineage[g]) :
              m < n /\ Lineage[g][m] = Lineage[f][j] /\ Lineage[g][n] = d
        BY <4>0
      <4>2. Len(Lineage[g]) \in Nat /\ Len(Lineage[f]) \in Nat
        BY LineageFacts
      <4>3. /\ Len(Lineage[g]) - m = Len(Lineage[f]) - j
            /\ \A k \in 0 .. (Len(Lineage[g]) - m) : Lineage[g][m + k] = Lineage[f][j + k]
        BY <4>1, OneWayUp
      <4> DEFINE k == n - m
      <4>4. k \in 0 .. (Len(Lineage[g]) - m) /\ m + k = n /\ j + k \in 1 .. Len(Lineage[f]) /\ j < j + k
        BY <4>1, <4>2, <4>3, StepsUp
      <4>5. Lineage[f][j + k] = d
        BY <4>1, <4>3, <4>4
      <4> HIDE DEF k
      <4>6. i < j + k
        BY <2>2, <4>2, <4>4
      <4>7. Lineage[f][i] \in Gone(d)
        BY <1>2, <4>4, <4>5, <4>6
      <4> QED BY <1>1, <1>5, <4>7
    <3> QED BY <3>1, <3>2
  <2>3. i = j \/ i < j
    BY <1>5, LineageFacts
  <2> QED BY <1>1, <1>5, <2>1, <2>2, <2>3
<1>6. ASSUME NEW f \in Files, disk'[f] # None
      PROVE  Lineage[f][1] \in directories'
  <2>1. disk[f] # None /\ d \notin ToSet(Lineage[f]) /\ Lineage[f][1] \in directories
    BY <1>1, <1>6 DEF DirOK
  <2>2. ASSUME Lineage[f][1] \in Gone(d)
        PROVE  FALSE
    <3>1. 1 \in DOMAIN Lineage[f] /\ \A n \in DOMAIN Lineage[f] : Lineage[f][n] # d
      BY <2>1, LineageFacts DEF ToSet
    <3>0. PICK g \in Files : \E m, n \in 1 .. Len(Lineage[g]) :
            m < n /\ Lineage[g][m] = Lineage[f][1] /\ Lineage[g][n] = d
      BY <1>3, <2>2, <3>1
    <3>2. PICK m, n \in 1 .. Len(Lineage[g]) :
            m < n /\ Lineage[g][m] = Lineage[f][1] /\ Lineage[g][n] = d
      BY <3>0
    <3>3. Len(Lineage[g]) \in Nat /\ Len(Lineage[f]) \in Nat /\ 1 \in 1 .. Len(Lineage[f])
      BY LineageFacts
    <3>4. /\ Len(Lineage[g]) - m = Len(Lineage[f]) - 1
          /\ \A k \in 0 .. (Len(Lineage[g]) - m) : Lineage[g][m + k] = Lineage[f][1 + k]
      BY <3>2, <3>3, OneWayUp
    <3> DEFINE k == n - m
    <3>5. k \in 0 .. (Len(Lineage[g]) - m) /\ m + k = n /\ 1 + k \in 1 .. Len(Lineage[f])
      BY <3>2, <3>3, <3>4, StepsUp
    <3>6. Lineage[f][1 + k] = d
      BY <3>2, <3>4, <3>5
    <3> HIDE DEF k
    <3> QED BY <3>1, <3>5, <3>6, LineageFacts
  <2> QED BY <1>1, <2>1, <2>2
<1> QED BY <1>1, <1>4, <1>5, <1>6 DEF DirOK

-----------------------------------------------------------------------------
(* The shape of the store, of a load and of the watcher.                   *)

LEMMA ConfigIs ==
  ASSUME NEW c
  PROVE  c \in Config <=>
           DOMAIN c \subseteq Files /\ c = [f \in DOMAIN c |-> c[f]] /\ \A f \in DOMAIN c : c[f] \in Texts
<1>1. ASSUME c \in Config
      PROVE  DOMAIN c \subseteq Files /\ c = [f \in DOMAIN c |-> c[f]] /\ \A f \in DOMAIN c : c[f] \in Texts
  BY <1>1 DEF Config
<1>2. ASSUME DOMAIN c \subseteq Files, c = [f \in DOMAIN c |-> c[f]], \A f \in DOMAIN c : c[f] \in Texts
      PROVE  c \in Config
  <2>1. c \in [DOMAIN c -> Texts] /\ DOMAIN c \in SUBSET Files
    BY <1>2
  <2> QED BY <2>1 DEF Config
<1> QED BY <1>1, <1>2

LEMMA DefaultsConfig == Defaults \in Config
<1>1. <<>> \in [{} -> Texts]
  OBVIOUS
<1> QED BY <1>1 DEF Defaults, Config

LEMMA LoadIs ==
  ASSUME NEW l \in Load
  PROVE  /\ l # None /\ l = [f \in LoadFields |-> l[f]]
         /\ l.kind \in {"load", "reload", "replace", "rearm", "refused"}
         /\ l.root \in Files /\ l.found \in BOOLEAN /\ l.todo \subseteq Files /\ l.texts \in Config
         /\ l.absent \subseteq Files /\ l.saved \in Saved /\ l.missed \subseteq Files
<1>1. l # None
  BY ConfigAssumption
<1> QED BY <1>1 DEF Load, LoadFields

LEMMA LoadOf ==
  ASSUME NEW l, l = [f \in LoadFields |-> l[f]],
         l.kind \in {"load", "reload", "replace", "rearm", "refused"},
         l.root \in Files, l.found \in BOOLEAN, l.todo \subseteq Files, l.texts \in Config,
         l.absent \subseteq Files, l.saved \in Saved, l.missed \subseteq Files
  PROVE  l \in Load /\ l # None
<1>1. l \in Load
  BY DEF Load, LoadFields
<1> QED BY <1>1, LoadIs

StoreTyped(s) ==
  /\ s = [f \in StoreFields |-> s[f]]
  /\ s.config \in Config /\ s.root \in Files
  /\ s.diagnostics \subseteq Diagnosis /\ s.watchPaths \subseteq Files
  /\ s.explicit \in BOOLEAN /\ s.fileMissing \in BOOLEAN /\ s.missingIncludes \in BOOLEAN

LoadTyped(l) ==
  /\ l \in Load \cup {None}
  /\ l # None => l.todo \cap (l.absent \cup DOMAIN l.texts) = {}

WatcherTyped(w, ds) ==
  /\ w = [f \in {"files", "dirs", "queue", "timer"} |-> w[f]]
  /\ w.files \subseteq Files \cup Directories /\ w.dirs \subseteq ds /\ w.timer \in BOOLEAN

Typed ==
  /\ StoreTyped(store) /\ LoadTyped(load) /\ WatcherTyped(watcher, directories)
  /\ raced \subseteq Files /\ events \in 0 .. MaxEvents

LEMMA DiagnosticsTyped ==
  ASSUME NEW l \in Load, NEW x
  PROVE  Diagnostics(l, x) \subseteq Diagnosis
<1>1. l.root \in Files /\ DOMAIN l.texts \subseteq Files /\ l.absent \subseteq Files
  BY LoadIs, ConfigIs
<1> QED BY <1>1 DEF Diagnostics, Diagnosis, Holds, Required

LEMMA LearnTyped ==
  ASSUME StoreTyped(store), load \in Load
  PROVE  /\ StoreTyped(Learn(store))
         /\ Learn(store).diagnostics = Diagnostics(load, store.explicit \/ load.kind = "replace")
         /\ Learn(store).missingIncludes = (Required(load) # {})
         /\ Learn(store).watchPaths = IF load.root \in load.absent THEN store.watchPaths
                                      ELSE store.watchPaths \cup DOMAIN load.texts \cup load.absent
         /\ \A f \in {"config", "root", "explicit", "fileMissing"} : Learn(store)[f] = store[f]
<1>1. /\ Learn(store) = [f \in StoreFields |-> Learn(store)[f]]
      /\ Learn(store).diagnostics = Diagnostics(load, store.explicit \/ load.kind = "replace")
      /\ Learn(store).missingIncludes = (Required(load) # {})
      /\ Learn(store).watchPaths = IF load.root \in load.absent THEN store.watchPaths
                                   ELSE store.watchPaths \cup DOMAIN load.texts \cup load.absent
      /\ \A f \in {"config", "root", "explicit", "fileMissing"} : Learn(store)[f] = store[f]
  BY DEF StoreTyped, StoreFields, Learned, Learn
<1>2. DOMAIN load.texts \subseteq Files /\ load.absent \subseteq Files
  BY LoadIs, ConfigIs
<1>3. Learn(store).diagnostics \subseteq Diagnosis
  BY <1>1, DiagnosticsTyped
<1>4. Learn(store).watchPaths \subseteq Files
  BY <1>1, <1>2 DEF StoreTyped
<1> QED BY <1>1, <1>3, <1>4 DEF StoreTyped

LEMMA CommitTyped ==
  ASSUME NEW s, StoreTyped(s), load \in Load
  PROVE  /\ StoreTyped(Commit(s))
         /\ Commit(s).config = IF Outcome(load) = "loaded" THEN load.texts ELSE Defaults
         /\ Commit(s).root = load.root /\ Commit(s).fileMissing = (Outcome(load) = "missing")
         /\ \A f \in Learned \cup {"explicit"} : Commit(s)[f] = s[f]
<1>1. /\ Commit(s) = [f \in StoreFields |-> Commit(s)[f]]
      /\ Commit(s).config = IF Outcome(load) = "loaded" THEN load.texts ELSE Defaults
      /\ Commit(s).root = load.root /\ Commit(s).fileMissing = (Outcome(load) = "missing")
      /\ \A f \in Learned \cup {"explicit"} : Commit(s)[f] = s[f]
  BY DEF StoreTyped, StoreFields, Learned, Commit
<1>2. load.texts \in Config /\ load.root \in Files
  BY LoadIs
<1>3. Commit(s).config \in Config
  BY <1>1, <1>2, DefaultsConfig
<1>4. /\ Commit(s).diagnostics = s.diagnostics /\ Commit(s).missingIncludes = s.missingIncludes
      /\ Commit(s).watchPaths = s.watchPaths /\ Commit(s).explicit = s.explicit
  BY <1>1 DEF Learned
<1>5. Commit(s).fileMissing \in BOOLEAN /\ Commit(s).root \in Files
  BY <1>1, <1>2
<1> QED BY <1>1, <1>3, <1>4, <1>5 DEF StoreTyped

-----------------------------------------------------------------------------
(* What the steps do to the shape.                                         *)

LEMMA BeginEffect ==
  ASSUME StoreTyped(store), raced \subseteq Files,
         NEW kind \in {"reload", "replace"}, NEW root \in Files, NEW paths \in SUBSET Files,
         Begin(kind, root, paths)
  PROVE  /\ StoreTyped(store') /\ LoadTyped(load') /\ load' # None
         /\ store'.watchPaths = paths /\ store'.config = store.config /\ store'.root = store.root
         /\ store'.explicit = store.explicit /\ store'.fileMissing = store.fileMissing
         /\ load'.kind = kind /\ load'.root = root /\ load'.found = (disk[root] # None)
         /\ load'.todo = {root} /\ load'.texts = <<>> /\ load'.absent = {}
         /\ load'.saved = [f \in Learned |-> store[f]] /\ load'.missed = raced
<1>1. /\ store' = [f \in StoreFields |-> store'[f]]
      /\ store'.diagnostics = {} /\ store'.missingIncludes = FALSE
      /\ store'.watchPaths = paths /\ store'.config = store.config /\ store'.root = store.root
      /\ store'.explicit = store.explicit /\ store'.fileMissing = store.fileMissing
  BY DEF Begin, StoreTyped, StoreFields, Learned
<1>2. StoreTyped(store')
  BY <1>1 DEF StoreTyped
<1>3. /\ load' = [f \in LoadFields |-> load'[f]]
      /\ load'.kind = kind /\ load'.root = root /\ load'.found = (disk[root] # None)
      /\ load'.todo = {root} /\ load'.texts = <<>> /\ load'.absent = {}
      /\ load'.saved = [f \in Learned |-> store[f]] /\ load'.missed = raced
  BY DEF Begin, LoadFields
<1>4. [f \in Learned |-> store[f]] \in Saved
  BY DEF StoreTyped, Learned, Saved
<1>5. <<>> \in Config /\ DOMAIN <<>> = {}
  BY DefaultsConfig DEF Defaults
<1>6. /\ load'.kind \in {"load", "reload", "replace", "rearm", "refused"}
      /\ load'.found \in BOOLEAN /\ load'.todo \subseteq Files /\ load'.texts \in Config
      /\ load'.absent \subseteq Files /\ load'.saved \in Saved /\ load'.missed \subseteq Files
      /\ load'.root \in Files
  BY <1>3, <1>4, <1>5
<1>7. load' \in Load /\ load' # None
  BY <1>3, <1>6, LoadOf
<1>8. LoadTyped(load')
  BY <1>3, <1>7 DEF LoadTyped
<1> QED BY <1>1, <1>2, <1>3, <1>7, <1>8

\* Between load and rearm only the kind of a load changes.
LEMMA KindEffect ==
  ASSUME LoadTyped(load), load # None, NEW k \in {"rearm", "refused"}, load' = [load EXCEPT !.kind = k]
  PROVE  /\ LoadTyped(load') /\ load' # None /\ load'.kind = k
         /\ load'.texts = load.texts /\ load'.absent = load.absent
<1>1. load \in Load
  BY DEF LoadTyped
<1>2. /\ load' = [f \in LoadFields |-> load'[f]] /\ load'.kind = k
      /\ load'.texts = load.texts /\ load'.absent = load.absent /\ load'.todo = load.todo
      /\ load'.root = load.root /\ load'.found = load.found /\ load'.saved = load.saved
      /\ load'.missed = load.missed
  BY <1>1, LoadIs DEF LoadFields
<1>3. load' \in Load /\ load' # None
  BY <1>1, <1>2, LoadIs, LoadOf
<1> QED BY <1>2, <1>3 DEF LoadTyped

\* A file is read, or found missing.
LEMMA ReadEffect ==
  ASSUME LoadTyped(load), DiskOK, NEW f \in Files, ReadFile(f)
  PROVE  /\ LoadTyped(load') /\ load' # None /\ f \in load.todo /\ f \notin DOMAIN load.texts \cup load.absent
         /\ load'.kind = load.kind /\ load'.root = load.root /\ load'.found = load.found
         /\ load'.saved = load.saved /\ load'.missed = load.missed
         /\ DOMAIN load'.texts = DOMAIN load.texts \cup (IF disk[f] = None THEN {} ELSE {f})
         /\ load'.absent = load.absent \cup (IF disk[f] = None THEN {f} ELSE {})
         /\ \A g \in DOMAIN load'.texts : load'.texts[g] = IF g = f THEN disk[g] ELSE load.texts[g]
         /\ load'.todo = (load.todo \cup (IF disk[f] = None THEN {} ELSE Named(disk[f])))
                         \ (DOMAIN load'.texts \cup load'.absent)
<1> DEFINE read == DOMAIN load.texts \cup {g \in {f} : disk[g] # None}
           texts == [g \in read |-> IF g = f THEN disk[g] ELSE load.texts[g]]
           absent == load.absent \cup ({f} \ read)
           more == IF disk[f] = None THEN {} ELSE Named(disk[f])
           todo == (load.todo \cup more) \ (read \cup absent)
<1>1. load \in Load /\ load # None /\ f \in load.todo /\ load.todo \cap (load.absent \cup DOMAIN load.texts) = {}
  BY DEF ReadFile, LoadTyped
<1>2. /\ load' = [x \in LoadFields |-> load'[x]]
      /\ load'.texts = texts /\ load'.absent = absent /\ load'.todo = todo
      /\ load'.kind = load.kind /\ load'.root = load.root /\ load'.found = load.found
      /\ load'.saved = load.saved /\ load'.missed = load.missed
  <2>1. load = [x \in LoadFields |-> load[x]]
    BY <1>1, LoadIs
  <2>2. load' = [load EXCEPT !.texts = texts, !.absent = absent, !.todo = (@ \cup more) \ (read \cup absent)]
    BY Zenon DEF ReadFile
  <2> HIDE DEF texts, read, absent, more
  <2> QED BY <2>1, <2>2 DEF LoadFields
<1>3. DOMAIN load.texts \subseteq Files /\ (\A g \in DOMAIN load.texts : load.texts[g] \in Texts) /\ load.absent \subseteq Files
  BY <1>1, LoadIs, ConfigIs
<1>4. disk[f] # None => disk[f] \in Texts /\ Named(disk[f]) \subseteq Files
  <2>1. disk[f] # None => disk[f] \in Texts /\ disk[f] \in Text
    BY ConfigAssumption DEF DiskOK
  <2> QED BY <2>1 DEF Text, Named
<1>5. texts \in Config
  <2>1. DOMAIN texts = read /\ texts = [g \in DOMAIN texts |-> texts[g]]
    OBVIOUS
  <2>2. read \subseteq Files
    BY <1>3
  <2>3. ASSUME NEW g \in read
        PROVE  texts[g] \in Texts
    <3>1. texts[g] = IF g = f THEN disk[g] ELSE load.texts[g]
      OBVIOUS
    <3>2. (g = f /\ disk[g] # None) \/ g \in DOMAIN load.texts
      OBVIOUS
    <3>3. g = f => disk[g] \in Texts
      BY <1>1, <1>4, <3>2
    <3> HIDE DEF texts, read
    <3> QED BY <1>3, <3>1, <3>2, <3>3
  <2> HIDE DEF texts, read
  <2> QED BY <2>1, <2>2, <2>3, ConfigIs
<1>6. read = DOMAIN load.texts \cup (IF disk[f] = None THEN {} ELSE {f})
  OBVIOUS
<1>7. {f} \ read = IF disk[f] = None THEN {f} ELSE {}
  BY <1>1
<1>8. todo \subseteq Files /\ absent \subseteq Files
  BY <1>1, <1>3, <1>4, LoadIs
<1>9. DOMAIN texts = read /\ \A g \in read : texts[g] = IF g = f THEN disk[g] ELSE load.texts[g]
  OBVIOUS
<1>10. todo \cap (absent \cup read) = {} /\ absent = load.absent \cup ({f} \ read)
  OBVIOUS
<1>11. todo = (load.todo \cup (IF disk[f] = None THEN {} ELSE Named(disk[f]))) \ (read \cup absent)
  OBVIOUS
<1> HIDE DEF texts, read, absent, todo, more
<1>12. load' \in Load /\ load' # None
  <2>1. load'.texts \in Config /\ load'.todo \subseteq Files /\ load'.absent \subseteq Files
    BY <1>2, <1>5, <1>8
  <2> QED BY <1>1, <1>2, <2>1, LoadIs, LoadOf
<1>13. LoadTyped(load')
  BY <1>2, <1>9, <1>10, <1>12 DEF LoadTyped
<1>14. DOMAIN load'.texts = read /\ \A g \in read : load'.texts[g] = IF g = f THEN disk[g] ELSE load.texts[g]
  BY <1>2, <1>9
<1> QED BY <1>1, <1>2, <1>6, <1>7, <1>10, <1>11, <1>12, <1>13, <1>14

\* What a store gets back when a replacement fails.
Restored(s, l) == [f \in DOMAIN s |-> IF f \in Learned THEN l.saved[f] ELSE s[f]]

LEMMA RestoredTyped ==
  ASSUME StoreTyped(store), load \in Load
  PROVE  /\ StoreTyped(Restored(store, load))
         /\ \A f \in Learned : Restored(store, load)[f] = load.saved[f]
         /\ \A f \in {"config", "root", "explicit", "fileMissing"} : Restored(store, load)[f] = store[f]
<1> DEFINE r == Restored(store, load)
<1>1. DOMAIN store = StoreFields
  BY DEF StoreTyped
<1>2. /\ r = [f \in StoreFields |-> r[f]] /\ \A f \in Learned : r[f] = load.saved[f]
      /\ \A f \in {"config", "root", "explicit", "fileMissing"} : r[f] = store[f]
  BY <1>1 DEF Restored, StoreFields, Learned
<1>3. load.saved \in Saved
  BY LoadIs
<1>4. /\ r.diagnostics \subseteq Diagnosis /\ r.watchPaths \subseteq Files /\ r.missingIncludes \in BOOLEAN
  BY <1>2, <1>3 DEF Learned, Saved
<1> HIDE DEF r
<1>5. StoreTyped(r)
  BY <1>2, <1>4 DEF StoreTyped
<1> QED BY <1>2, <1>5 DEF r

LEMMA FinishStartTyped ==
  ASSUME Typed, FinishStart
  PROVE  Typed' /\ load' # None /\ load'.kind \in {"rearm", "refused"} /\ load'.todo = {}
<1>1. /\ load \in Load /\ load # None /\ load.todo = {}
      /\ UNCHANGED <<directories, watcher, raced, events>>
      /\ load' = [load EXCEPT !.kind = "refused"] \/ load' = [load EXCEPT !.kind = "rearm"]
      /\ store' = Learn(store) \/ store' = Commit(Learn(store))
  BY DEF FinishStart, Loaded, Typed, LoadTyped
<1>2. LoadTyped(load') /\ load' # None /\ load'.kind \in {"rearm", "refused"}
  BY <1>1, KindEffect DEF Typed
<1>3. StoreTyped(store')
  BY <1>1, LearnTyped, CommitTyped DEF Typed
<1>4. load'.todo = {}
  BY <1>1, LoadIs DEF LoadFields
<1> QED BY <1>1, <1>2, <1>3, <1>4 DEF Typed

LEMMA FinishReloadTyped ==
  ASSUME Typed, FinishReload
  PROVE  Typed' /\ load' # None /\ load'.kind = "rearm" /\ load'.todo = {}
<1>1. /\ load \in Load /\ load # None /\ load.todo = {}
      /\ UNCHANGED <<directories, watcher, raced, events>>
      /\ load' = [load EXCEPT !.kind = "rearm"]
      /\ store' = Learn(store) \/ store' = Commit(Learn(store))
  BY DEF FinishReload, Loaded, Typed, LoadTyped
<1>2. LoadTyped(load') /\ load' # None /\ load'.kind = "rearm"
  BY <1>1, KindEffect DEF Typed
<1>3. StoreTyped(store')
  BY <1>1, LearnTyped, CommitTyped DEF Typed
<1>4. load'.todo = {}
  BY <1>1, LoadIs DEF LoadFields
<1> QED BY <1>1, <1>2, <1>3, <1>4 DEF Typed

LEMMA ReplacedTyped ==
  ASSUME NEW s, StoreTyped(s), NEW t, t = [s EXCEPT !.explicit = TRUE]
  PROVE  /\ StoreTyped(t) /\ t.explicit = TRUE
         /\ \A f \in StoreFields \ {"explicit"} : t[f] = s[f]
<1>1. /\ t = [f \in StoreFields |-> t[f]] /\ t.explicit = TRUE
      /\ \A f \in StoreFields \ {"explicit"} : t[f] = s[f]
  BY DEF StoreTyped, StoreFields, Learned
<1>2. /\ t.config = s.config /\ t.root = s.root /\ t.diagnostics = s.diagnostics
      /\ t.watchPaths = s.watchPaths /\ t.fileMissing = s.fileMissing /\ t.missingIncludes = s.missingIncludes
  BY <1>1 DEF StoreFields, Learned
<1> QED BY <1>1, <1>2 DEF StoreTyped

LEMMA FinishReplaceTyped ==
  ASSUME Typed, FinishReplace
  PROVE  Typed' /\ (load' # None => load'.kind = "rearm" /\ load'.todo = {})
<1>1. load \in Load /\ load # None /\ load.todo = {} /\ UNCHANGED <<directories, watcher, events>>
  BY DEF FinishReplace, Loaded, Typed, LoadTyped
<1>2. CASE Outcome(load) = "loaded"
  <2>1. /\ load' = [load EXCEPT !.kind = "rearm"] /\ raced' = raced
        /\ store' = [Commit(Learn(store)) EXCEPT !.explicit = TRUE]
    BY <1>2 DEF FinishReplace
  <2>2. LoadTyped(load') /\ load' # None /\ load'.kind = "rearm"
    BY <1>1, <2>1, KindEffect DEF Typed
  <2>3. StoreTyped(Commit(Learn(store)))
    BY <1>1, LearnTyped, CommitTyped DEF Typed
  <2>4. StoreTyped(store')
    BY <2>1, <2>3, ReplacedTyped
  <2>5. load'.todo = {}
    BY <1>1, <2>1, LoadIs DEF LoadFields
  <2> QED BY <1>1, <2>1, <2>2, <2>4, <2>5 DEF Typed
<1>3. CASE Outcome(load) # "loaded"
  <2>1. store' = Restored(store, load) /\ load' = None /\ raced' = raced \cup load.missed
    BY <1>3 DEF FinishReplace, Restored
  <2>2. StoreTyped(store') /\ load.missed \subseteq Files
    BY <1>1, <2>1, RestoredTyped, LoadIs DEF Typed
  <2> QED BY <1>1, <2>1, <2>2 DEF Typed, LoadTyped
<1> QED BY <1>2, <1>3

\* The watcher after a step: of the fields, those that the steps below change.
LEMMA NoticeIs ==
  ASSUME NEW w, NEW ds, WatcherTyped(w, ds), NEW dir, NEW name
  PROVE  /\ WatcherTyped(Notice(w, dir, name), ds)
         /\ Notice(w, dir, name).files = w.files /\ Notice(w, dir, name).dirs = w.dirs
         /\ Notice(w, dir, name).timer = w.timer
         /\ Notice(w, dir, name).queue = IF dir \in w.dirs THEN w.queue \cup {<<dir, name>>} ELSE w.queue
<1>1. CASE dir \in w.dirs
  <2> DEFINE v == Notice(w, dir, name)
  <2>1. /\ v = [f \in {"files", "dirs", "queue", "timer"} |-> v[f]]
        /\ v.files = w.files /\ v.dirs = w.dirs /\ v.timer = w.timer /\ v.queue = w.queue \cup {<<dir, name>>}
    BY <1>1 DEF Notice, WatcherTyped
  <2> HIDE DEF v
  <2>2. WatcherTyped(v, ds)
    BY <2>1 DEF WatcherTyped
  <2> QED BY <1>1, <2>1, <2>2 DEF v
<1>2. CASE dir \notin w.dirs
  BY <1>2 DEF Notice
<1> QED BY <1>1, <1>2

LEMMA NoticeNow ==
  ASSUME Typed, NEW dir, NEW name, watcher' = Notice(watcher, dir, name)
  PROVE  /\ watcher'.files = watcher.files /\ watcher'.dirs = watcher.dirs /\ watcher'.timer = watcher.timer
         /\ watcher'.queue = IF dir \in watcher.dirs THEN watcher.queue \cup {<<dir, name>>} ELSE watcher.queue
<1>1. watcher = [f \in {"files", "dirs", "queue", "timer"} |-> watcher[f]]
  BY DEF Typed, WatcherTyped
<1> QED BY <1>1 DEF Notice

LEMMA ReadFileTyped ==
  ASSUME Typed, DiskOK, NEW f \in Files, ReadFile(f)
  PROVE  Typed' /\ load' # None
<1>1. UNCHANGED <<disk, directories, store, watcher, events>> /\ raced' \subseteq raced
  BY DEF ReadFile
<1>2. LoadTyped(load') /\ load' # None
  BY ReadEffect DEF Typed
<1> QED BY <1>1, <1>2 DEF Typed

LEMMA RearmIs ==
  ASSUME Typed, DirOK(disk, directories), Rearm
  PROVE  /\ Typed' /\ load # None /\ load.kind = "rearm" /\ load' = None
         /\ UNCHANGED <<disk, directories, store, raced, events>>
         /\ watcher'.timer = watcher.timer
         /\ watcher'.dirs = {Lineage[f][At(f, directories)] : f \in store.watchPaths}
         /\ watcher'.files = store.watchPaths
              \cup UNION {{Lineage[f][j] : j \in 1 .. (At(f, directories) - 1)} : f \in store.watchPaths}
         /\ watcher'.queue = {e \in watcher.queue : e[1] = None \/ e[1] \in watcher'.dirs \cap watcher.dirs}
<1> DEFINE dirs == {Lineage[f][At(f, directories)] : f \in store.watchPaths}
           files == store.watchPaths
              \cup UNION {{Lineage[f][j] : j \in 1 .. (At(f, directories) - 1)} : f \in store.watchPaths}
<1>1. /\ load # None /\ load.kind = "rearm" /\ load' = None
      /\ UNCHANGED <<disk, directories, store, raced, events>>
  BY DEF Rearm
<1>2. \A f : Depth(f) = At(f, directories)
  BY DEF Depth, At
<1>3. ToWatch(store.watchPaths) = dirs /\ Requested(store.watchPaths) = files
  BY <1>2 DEF ToWatch, Requested
<1>4. watcher' = [watcher EXCEPT !.files = files, !.dirs = dirs,
                   !.queue = {e \in @ : e[1] = None \/ e[1] \in dirs \cap watcher.dirs}]
  BY <1>3 DEF Rearm
<1> HIDE DEF dirs, files
<1>5. /\ watcher' = [f \in {"files", "dirs", "queue", "timer"} |-> watcher'[f]]
      /\ watcher'.timer = watcher.timer /\ watcher'.dirs = dirs /\ watcher'.files = files
      /\ watcher'.queue = {e \in watcher.queue : e[1] = None \/ e[1] \in dirs \cap watcher.dirs}
  BY <1>4 DEF Typed, WatcherTyped
<1>6. store.watchPaths \subseteq Files /\ Lasting \subseteq directories /\ directories \subseteq Directories
  BY DEF Typed, StoreTyped, DirOK
<1>7. \A f \in store.watchPaths : /\ At(f, directories) \in 1 .. Len(Lineage[f])
                                  /\ Lineage[f][At(f, directories)] \in directories
                                  /\ Len(Lineage[f]) \in Nat
  BY <1>6, AtFacts, LineageFacts
<1>8. dirs \subseteq directories
  BY <1>7 DEF dirs
<1>9. files \subseteq Files \cup Directories
  <2>1. ASSUME NEW f \in store.watchPaths, NEW j \in 1 .. (At(f, directories) - 1)
        PROVE  Lineage[f][j] \in Directories
    <3>1. j \in 1 .. Len(Lineage[f])
      BY <1>7
    <3> QED BY <1>6, <3>1, LineageFacts
  <2> QED BY <1>6, <2>1 DEF files
<1>10. WatcherTyped(watcher', directories')
  BY <1>1, <1>5, <1>8, <1>9 DEF Typed, WatcherTyped
<1>11. Typed'
  BY <1>1, <1>10 DEF Typed, LoadTyped
<1> QED BY <1>1, <1>5, <1>11 DEF dirs, files

LEMMA DispatchIs ==
  ASSUME Typed, Dispatch
  PROVE  /\ Typed' /\ load = None /\ UNCHANGED <<disk, directories, store, load, raced, events>>
         /\ watcher'.queue = {} /\ watcher'.files = watcher.files /\ watcher'.dirs = watcher.dirs
         /\ watcher'.timer = (watcher.timer \/ \E e \in watcher.queue : e[1] = None \/ e[2] \in watcher.files)
<1> DEFINE changed == \E e \in watcher.queue : e[1] = None \/ e[2] \in watcher.files
<1>1. /\ load = None /\ UNCHANGED <<disk, directories, store, load, raced, events>>
      /\ watcher' = [watcher EXCEPT !.queue = {}, !.timer = @ \/ changed]
  BY DEF Dispatch
<1>2. changed \in BOOLEAN
  OBVIOUS
<1> HIDE DEF changed
<1>3. /\ watcher' = [f \in {"files", "dirs", "queue", "timer"} |-> watcher'[f]]
      /\ watcher'.files = watcher.files /\ watcher'.dirs = watcher.dirs
      /\ watcher'.queue = {} /\ watcher'.timer = (watcher.timer \/ changed)
  BY <1>1 DEF Typed, WatcherTyped
<1>4. WatcherTyped(watcher', directories')
  BY <1>1, <1>2, <1>3 DEF Typed, WatcherTyped
<1>5. Typed'
  BY <1>1, <1>4 DEF Typed
<1> QED BY <1>1, <1>3, <1>5 DEF changed

\* The timer, config-reload and config-replace begin a load.
LEMMA ReloadBegins ==
  ASSUME Typed, BeginReload
  PROVE  /\ StoreTyped(store') /\ LoadTyped(load') /\ load' # None /\ load'.kind = "reload"
         /\ load'.root = Selected(store, disk) /\ load'.root \in Files
         /\ load'.found = (disk[load'.root] # None)
         /\ load'.todo = {load'.root} /\ load'.texts = <<>> /\ load'.absent = {}
         /\ store'.watchPaths = (IF store.explicit THEN {store.root} ELSE ToSet(Candidates))
         /\ store'.explicit = store.explicit /\ store'.root = store.root
<1> DEFINE root == Selected(store, disk)
           paths == IF store.explicit THEN {store.root} ELSE ToSet(Candidates)
<1>1. \A f \in ToSet(Candidates) : f \in Files
  BY CandidatesAre
<1>2. root \in Files
  <2>1. store.explicit => root = store.root
    BY DEF Selected
  <2>2. ~store.explicit => root \in ToSet(Candidates)
    BY SelectedFacts
  <2> QED BY <1>1, <2>1, <2>2 DEF Typed, StoreTyped
<1>3. paths \in SUBSET Files
  BY <1>1 DEF Typed, StoreTyped
<1>4. Begin("reload", root, paths)
  BY DEF BeginReload
<1> HIDE DEF root, paths
<1>5. /\ StoreTyped(store') /\ LoadTyped(load') /\ load' # None /\ load'.kind = "reload"
      /\ store'.watchPaths = paths /\ store'.root = store.root /\ store'.explicit = store.explicit
      /\ load'.root = root /\ load'.found = (disk[root] # None)
      /\ load'.todo = {root} /\ load'.texts = <<>> /\ load'.absent = {}
  BY <1>2, <1>3, <1>4, BeginEffect DEF Typed
<1> QED BY <1>2, <1>5 DEF root, paths

LEMMA TimerTyped ==
  ASSUME Typed, TimerExpires
  PROVE  Typed'
<1>1. BeginReload /\ UNCHANGED <<disk, directories, raced, events>> /\ watcher' = [watcher EXCEPT !.timer = FALSE]
  BY DEF TimerExpires
<1>2. WatcherTyped(watcher', directories')
  <2>1. /\ watcher' = [f \in {"files", "dirs", "queue", "timer"} |-> watcher'[f]]
        /\ watcher'.files = watcher.files /\ watcher'.dirs = watcher.dirs /\ watcher'.timer = FALSE
    BY <1>1 DEF Typed, WatcherTyped
  <2> QED BY <1>1, <2>1 DEF Typed, WatcherTyped
<1> QED BY <1>1, <1>2, ReloadBegins DEF Typed

LEMMA EventsTyped ==
  ASSUME events \in 0 .. MaxEvents, Happens
  PROVE  events' \in 0 .. MaxEvents
<1>1. MaxEvents \in Nat
  BY ConfigAssumption
<1> QED BY <1>1 DEF Happens

LEMMA ReloadActionTyped ==
  ASSUME Typed, ReloadAction
  PROVE  Typed'
<1>1. BeginReload /\ UNCHANGED <<disk, directories, raced, watcher>> /\ Happens
  BY DEF ReloadAction
<1> QED BY <1>1, ReloadBegins, EventsTyped DEF Typed

LEMMA ReplaceActionTyped ==
  ASSUME Typed, NEW f \in Files, ReplaceAction(f)
  PROVE  Typed'
<1>1. Begin("replace", f, {f}) /\ UNCHANGED <<disk, directories, raced, watcher>> /\ Happens
  BY DEF ReplaceAction
<1>2. StoreTyped(store') /\ LoadTyped(load')
  BY <1>1, BeginEffect DEF Typed
<1> QED BY <1>1, <1>2, EventsTyped DEF Typed

LEMMA EditIs ==
  ASSUME Typed, DiskOK, NEW f \in Files, NEW t \in Texts \cup {None}, Edit(f, t)
  PROVE  /\ Typed' /\ DiskOK' /\ UNCHANGED <<directories, store, load>>
         /\ Lineage[f][1] \in directories
         /\ \A g \in Files : g # f => disk'[g] = disk[g]
         /\ watcher'.files = watcher.files /\ watcher'.dirs = watcher.dirs /\ watcher'.timer = watcher.timer
         /\ watcher'.queue = IF Lineage[f][1] \in watcher.dirs
                             THEN watcher.queue \cup {<<Lineage[f][1], f>>} ELSE watcher.queue
         /\ raced' = IF load # None /\ Lineage[f][1] \notin watcher.dirs THEN raced \cup {f} ELSE raced
<1>1. Head(Lineage[f]) = Lineage[f][1]
  BY LineageFacts
<1>2. /\ UNCHANGED <<directories, store, load>> /\ Lineage[f][1] \in directories /\ Happens
      /\ disk' = [disk EXCEPT ![f] = t] /\ watcher' = Notice(watcher, Lineage[f][1], f)
      /\ raced' = IF load # None /\ Lineage[f][1] \notin watcher.dirs THEN raced \cup {f} ELSE raced
  BY <1>1 DEF Edit
<1>3. DiskOK' /\ \A g \in Files : g # f => disk'[g] = disk[g]
  BY <1>2 DEF DiskOK
<1>4. Typed'
  BY <1>2, NoticeIs, EventsTyped DEF Typed
<1>5. WatcherTyped(watcher, directories)
  BY DEF Typed
<1>6. /\ watcher'.files = watcher.files /\ watcher'.dirs = watcher.dirs /\ watcher'.timer = watcher.timer
      /\ watcher'.queue = IF Lineage[f][1] \in watcher.dirs
                          THEN watcher.queue \cup {<<Lineage[f][1], f>>} ELSE watcher.queue
  BY <1>2, NoticeNow
<1> QED BY <1>2, <1>3, <1>4, <1>6

LEMMA MakeIs ==
  ASSUME Typed, NEW d \in Directories \ Lasting, MakeDirectory(d)
  PROVE  /\ Typed' /\ UNCHANGED <<disk, store, load, raced>>
         /\ d \notin directories /\ directories' = directories \cup {d}
         /\ watcher'.files = watcher.files /\ watcher'.dirs = watcher.dirs /\ watcher'.timer = watcher.timer
         /\ watcher'.queue = IF Parent(d) \in watcher.dirs
                             THEN watcher.queue \cup {<<Parent(d), d>>} ELSE watcher.queue
<1>1. /\ UNCHANGED <<disk, store, load, raced>> /\ Happens /\ d \notin directories
      /\ directories' = directories \cup {d} /\ watcher' = Notice(watcher, Parent(d), d)
  BY DEF MakeDirectory
<1>2. WatcherTyped(watcher', directories)
  BY <1>1, NoticeIs DEF Typed
<1>3. WatcherTyped(watcher', directories')
  BY <1>1, <1>2 DEF WatcherTyped
<1>4. Typed'
  BY <1>1, <1>3, EventsTyped DEF Typed
<1>5. WatcherTyped(watcher, directories)
  BY DEF Typed
<1>6. /\ watcher'.files = watcher.files /\ watcher'.dirs = watcher.dirs /\ watcher'.timer = watcher.timer
      /\ watcher'.queue = IF Parent(d) \in watcher.dirs
                          THEN watcher.queue \cup {<<Parent(d), d>>} ELSE watcher.queue
  BY <1>1, NoticeNow
<1> QED BY <1>1, <1>4, <1>6

LEMMA RemoveIs ==
  ASSUME Typed, DiskOK, NEW d \in Directories \ Lasting, RemoveDirectory(d)
  PROVE  /\ Typed' /\ DiskOK' /\ UNCHANGED <<store, load>>
         /\ directories' = directories \ Gone(d)
         /\ \A f \in Files : disk'[f] = IF d \in ToSet(Lineage[f]) THEN None ELSE disk[f]
         /\ watcher'.files = watcher.files /\ watcher'.dirs = watcher.dirs \ Gone(d)
         /\ watcher'.timer = watcher.timer /\ watcher.queue \subseteq watcher'.queue
         /\ Gone(d) \cap watcher.dirs # {} => <<None, d>> \in watcher'.queue
         /\ raced' = IF load # None /\ Gone(d) \cap watcher.dirs = {}
                     THEN raced \cup {f \in Files : d \in ToSet(Lineage[f]) /\ disk[f] # None} ELSE raced
<1> DEFINE told == Notice(watcher, Parent(d), d)
           inside == {f \in Files : d \in ToSet(Lineage[f])}
<1>1. /\ UNCHANGED <<store, load>> /\ Happens /\ directories' = directories \ Gone(d)
      /\ disk' = [f \in Files |-> IF f \in inside THEN None ELSE disk[f]]
      /\ watcher' = [told EXCEPT !.dirs = @ \ Gone(d),
                       !.queue = IF Gone(d) \cap watcher.dirs # {} THEN @ \cup {<<None, d>>} ELSE @]
      /\ raced' = IF load # None /\ Gone(d) \cap watcher.dirs = {}
                  THEN raced \cup {f \in inside : disk[f] # None} ELSE raced
  BY DEF RemoveDirectory
<1>2. /\ WatcherTyped(told, directories) /\ told.files = watcher.files /\ told.dirs = watcher.dirs
      /\ told.timer = watcher.timer /\ watcher.queue \subseteq told.queue
  <2>1. WatcherTyped(watcher, directories)
    BY DEF Typed
  <2>2. /\ WatcherTyped(told, directories) /\ told.files = watcher.files /\ told.dirs = watcher.dirs
        /\ told.timer = watcher.timer
        /\ told.queue = IF Parent(d) \in watcher.dirs THEN watcher.queue \cup {<<Parent(d), d>>}
                        ELSE watcher.queue
    BY <2>1, NoticeIs
  <2> HIDE DEF told
  <2> QED BY <2>2
<1>3. DiskOK' /\ \A f \in Files : disk'[f] = IF d \in ToSet(Lineage[f]) THEN None ELSE disk[f]
  BY <1>1 DEF DiskOK
<1>4. raced' = IF load # None /\ Gone(d) \cap watcher.dirs = {}
               THEN raced \cup {f \in Files : d \in ToSet(Lineage[f]) /\ disk[f] # None} ELSE raced
  <2>1. {f \in inside : disk[f] # None} = {f \in Files : d \in ToSet(Lineage[f]) /\ disk[f] # None}
    OBVIOUS
  <2> QED BY <1>1, <2>1
<1> HIDE DEF told, inside
<1>5. /\ watcher' = [f \in {"files", "dirs", "queue", "timer"} |-> watcher'[f]]
      /\ watcher'.files = watcher.files /\ watcher'.dirs = watcher.dirs \ Gone(d)
      /\ watcher'.timer = watcher.timer
      /\ watcher'.queue = IF Gone(d) \cap watcher.dirs # {} THEN told.queue \cup {<<None, d>>} ELSE told.queue
  BY <1>1, <1>2 DEF WatcherTyped
<1>6. WatcherTyped(watcher', directories')
  BY <1>1, <1>5 DEF Typed, WatcherTyped
<1>7. raced' \subseteq Files
  BY <1>4 DEF Typed
<1>8. Typed'
  BY <1>1, <1>6, <1>7, EventsTyped DEF Typed
<1> QED BY <1>1, <1>2, <1>3, <1>4, <1>5, <1>8

\* The session starts with a load that has read nothing.
LEMMA InitIs ==
  ASSUME Init
  PROVE  /\ Typed /\ load # None /\ load.kind = "load" /\ load.texts = <<>> /\ load.absent = {}
         /\ load.todo = {load.root} /\ load.root = store.root /\ load.root = Selected(store, disk)
         /\ load.found = (disk[load.root] # None)
         /\ store.watchPaths = IF store.explicit THEN {store.root} ELSE ToSet(Candidates)
<1> DEFINE Blank(x, root, paths) ==
             [config |-> Defaults, root |-> root, explicit |-> x, fileMissing |-> FALSE,
              diagnostics |-> {}, missingIncludes |-> FALSE, watchPaths |-> paths]
           Root(x) == Selected([explicit |-> x, root |-> Candidates[1]], disk)
           Paths(x) == IF x THEN {Root(x)} ELSE ToSet(Candidates)
<1>1. PICK x \in BOOLEAN :
        /\ store = Blank(x, Root(x), Paths(x))
        /\ load = [kind |-> "load", root |-> Root(x), found |-> disk[Root(x)] # None,
                   todo |-> {Root(x)}, texts |-> <<>>, absent |-> {},
                   saved |-> [f \in Learned |-> Blank(x, Root(x), Paths(x))[f]], missed |-> {}]
  BY Zenon DEF Init
<1> DEFINE root == Root(x)
           paths == Paths(x)
<1>2. \A f \in ToSet(Candidates) : f \in Files
  BY CandidatesAre
<1>3. root \in Files /\ (x => root = Candidates[1]) /\ paths \in SUBSET Files
  <2> DEFINE s == [explicit |-> x, root |-> Candidates[1]]
  <2>1. s.explicit = x /\ s.root = Candidates[1]
    OBVIOUS
  <2>2. Candidates[1] \in Files
    BY CandidatesAre
  <2>3. x => root = Candidates[1]
    BY <2>1 DEF Selected
  <2> HIDE DEF s
  <2>4. root = Selected(s, disk)
    BY DEF s
  <2>5. ~x => root \in ToSet(Candidates)
    BY <2>1, <2>4, SelectedFacts
  <2>6. root \in Files
    BY <1>2, <2>2, <2>3, <2>5
  <2>7. paths = IF x THEN {root} ELSE ToSet(Candidates)
    OBVIOUS
  <2> HIDE DEF root, paths
  <2> QED BY <1>2, <2>3, <2>6, <2>7
<1>4. paths = IF x THEN {root} ELSE ToSet(Candidates)
  OBVIOUS
<1>5. root = Selected([explicit |-> x, root |-> Candidates[1]], disk)
  OBVIOUS
<1>6. /\ store = Blank(x, root, paths)
      /\ load = [kind |-> "load", root |-> root, found |-> disk[root] # None,
                 todo |-> {root}, texts |-> <<>>, absent |-> {},
                 saved |-> [f \in Learned |-> store[f]], missed |-> {}]
  BY <1>1
<1> HIDE DEF root, paths, Root, Paths
<1>7. /\ store = [f \in StoreFields |-> store[f]]
      /\ store.config = Defaults /\ store.root = root /\ store.explicit = x /\ store.fileMissing = FALSE
      /\ store.diagnostics = {} /\ store.missingIncludes = FALSE /\ store.watchPaths = paths
  BY <1>6 DEF StoreFields, Learned
<1>8. StoreTyped(store)
  BY <1>3, <1>7, DefaultsConfig DEF StoreTyped
<1>9. /\ load = [f \in LoadFields |-> load[f]] /\ load.kind = "load" /\ load.root = root
      /\ load.found = (disk[root] # None) /\ load.todo = {root} /\ load.texts = <<>> /\ load.absent = {}
      /\ load.saved = [f \in Learned |-> store[f]] /\ load.missed = {}
  BY <1>6 DEF LoadFields
<1>10. load.saved \in Saved
  BY <1>8, <1>9 DEF StoreTyped, Learned, Saved
<1>11. <<>> \in Config /\ DOMAIN <<>> = {}
  BY DefaultsConfig DEF Defaults
<1>12. load \in Load /\ load # None
  <2>1. load.found \in BOOLEAN /\ load.todo \subseteq Files /\ load.absent \subseteq Files /\ load.missed \subseteq Files
    BY <1>3, <1>9
  <2> QED BY <1>3, <1>9, <1>10, <1>11, <2>1, LoadOf
<1>13. LoadTyped(load)
  BY <1>9, <1>12 DEF LoadTyped
<1>14. WatcherTyped(watcher, directories) /\ raced \subseteq Files /\ events \in 0 .. MaxEvents
  <2>1. MaxEvents \in Nat
    BY ConfigAssumption
  <2>2. /\ watcher = [files |-> {}, dirs |-> {}, queue |-> {}, timer |-> FALSE]
        /\ raced = {} /\ events = MaxEvents
    BY Zenon DEF Init
  <2> QED BY <2>1, <2>2 DEF WatcherTyped
<1>15. Selected(store, disk) = root
  <2> DEFINE s == [explicit |-> x, root |-> Candidates[1]]
  <2>1. s.explicit = x /\ s.root = Candidates[1] /\ root = Selected(s, disk)
    BY <1>5
  <2> HIDE DEF s
  <2> QED BY <1>3, <1>7, <2>1, SelectedAlike
<1> QED BY <1>4, <1>7, <1>8, <1>9, <1>12, <1>13, <1>14, <1>15 DEF Typed

LEMMA InitDir ==
  ASSUME Init
  PROVE  DirOK(disk, directories)
<1>1. directories = Lasting \cup UNION {ToSet(Lineage[f]) : f \in {g \in Files : disk[g] # None}}
  BY DEF Init
<1>2. \A f \in Files : ToSet(Lineage[f]) = {Lineage[f][i] : i \in 1 .. Len(Lineage[f])}
  BY LineageFacts DEF ToSet
<1>3. Lasting \subseteq directories /\ directories \subseteq Directories
  <2>1. \A f \in Files : ToSet(Lineage[f]) \subseteq Directories
    BY <1>2, LineageFacts
  <2> QED BY <1>1, <2>1, ConfigAssumption
<1>4. ASSUME NEW f \in Files, disk[f] # None
      PROVE  Lineage[f][1] \in directories
  <2>0. 1 \in 1 .. Len(Lineage[f])
    BY LineageFacts
  <2>1. Lineage[f][1] \in ToSet(Lineage[f])
    BY <1>2, <2>0
  <2> QED BY <1>1, <1>4, <2>1
<1>5. ASSUME NEW f \in Files, NEW i \in 1 .. Len(Lineage[f]), NEW j \in 1 .. Len(Lineage[f]),
             Lineage[f][i] \in directories, i <= j
      PROVE  Lineage[f][j] \in directories
  <2>0. Len(Lineage[f]) \in Nat
    BY LineageFacts
  <2>1. CASE Lineage[f][i] \in Lasting
    <3>1. i = j
      BY <1>5, <2>0, <2>1, LineageFacts
    <3> QED BY <1>5, <3>1
  <2>2. CASE Lineage[f][i] \notin Lasting
    <3>1. PICK g \in Files : disk[g] # None /\ Lineage[f][i] \in ToSet(Lineage[g])
      BY <1>1, <1>5, <2>2
    <3>2. PICK n \in 1 .. Len(Lineage[g]) : Lineage[f][i] = Lineage[g][n]
      BY <1>2, <3>1
    <3>3. Len(Lineage[g]) \in Nat
      BY LineageFacts
    <3>4. /\ Len(Lineage[f]) - i = Len(Lineage[g]) - n
          /\ \A k \in 0 .. (Len(Lineage[f]) - i) : Lineage[f][i + k] = Lineage[g][n + k]
      BY <3>2, OneWayUp
    <3> DEFINE k == j - i
    <3>5. k \in 0 .. (Len(Lineage[f]) - i) /\ i + k = j /\ n + k \in 1 .. Len(Lineage[g])
      BY <1>5, <2>0, <3>3, <3>4
    <3>6. Lineage[f][j] = Lineage[g][n + k]
      BY <3>4, <3>5
    <3> HIDE DEF k
    <3>7. Lineage[g][n + k] \in ToSet(Lineage[g])
      BY <1>2, <3>5
    <3> QED BY <1>1, <3>1, <3>6, <3>7
  <2> QED BY <2>1, <2>2
<1> QED BY <1>3, <1>4, <1>5 DEF DirOK

-----------------------------------------------------------------------------
(* What the watcher knows.                                                 *)

\* A reload is due for certain, or will be when the events are read.
Pending(w) == w.timer \/ \E e \in w.queue : e[1] = None
Alarm(w) == Pending(w) \/ \E e \in w.queue : e[2] \in w.files

\* The change of a file was reported, and the report is not lost when the
\* watches are rearmed for it; or the change is known to be missed.
Told(w, f) == Lineage[f][1] \in w.dirs /\ <<Lineage[f][1], f>> \in w.queue
Stale(w, R, f) == f \in R \/ Told(w, f) \/ Pending(w)

\* Every path is waited for, where it lies or where its directory will be.
Attended(P, ds, w) ==
  \A f \in P : /\ Lineage[f][At(f, ds)] \in w.dirs /\ f \in w.files
               /\ \A j \in 1 .. (At(f, ds) - 1) : Lineage[f][j] \in w.files

\* The store is current, and asks for every file that this depends on.
Good(s, d) ==
  /\ Reached(Selected(s, d), d) \subseteq s.watchPaths
  /\ ~s.explicit => ToSet(Candidates) \subseteq s.watchPaths
  /\ Current(s, d)

\* Between two loads: a reload will come, or the watcher waits for what the
\* store asks for and the store is current unless a change was missed.
Resting(s, R, d, ds, w) ==
  /\ s.watchPaths \subseteq w.files
  /\ Alarm(w) \/ (Attended(s.watchPaths, ds, w) /\ ((\E f \in s.watchPaths : f \in R) \/ Good(s, d)))

\* A file as it was read, or found missing.
Agrees(l, d, f) == (f \in DOMAIN l.texts => d[f] = l.texts[f]) /\ (f \in l.absent => d[f] = None)

\* No file is read that the root does not lead to.
Reach(l) ==
  \A S \in SUBSET Files :
    (l.root \in S /\ \A f \in S \cap DOMAIN l.texts : Named(l.texts[f]) \subseteq S)
      => DOMAIN l.texts \cup l.absent \cup l.todo \subseteq S

Reading == load # None /\ load.kind \in {"load", "reload", "replace"}

ReadOK ==
  /\ load.root \in DOMAIN load.texts \cup load.absent \cup load.todo
  /\ DOMAIN load.texts \cap load.absent = {} /\ Reach(load)
  /\ \A f \in DOMAIN load.texts \cup load.absent : Stale(watcher, raced, f) \/ Agrees(load, disk, f)
  /\ StillChosen \/ \E f \in ToSet(Candidates) : Stale(watcher, raced, f)
  /\ store.watchPaths = IF load.kind = "replace" \/ store.explicit THEN {load.root} ELSE ToSet(Candidates)
  /\ (store.explicit /\ load.kind # "replace") => load.root = store.root
  /\ (~store.explicit /\ load.kind # "replace") => load.root \in ToSet(Candidates)

RearmOK == (\E f \in store.watchPaths : Stale(watcher, raced, f)) \/ Good(store, disk)

Watching ==
  /\ load = None => Resting(store, raced, disk, directories, watcher)
  /\ (load # None /\ load.kind = "replace") =>
       Resting(Restored(store, load), load.missed, disk, directories, watcher)
  /\ Reading => ReadOK
  /\ (load # None /\ load.kind = "rearm") => RearmOK
  /\ (load # None /\ ~Reading) => load.todo = {}

FullInv == IInv /\ Typed /\ DirOK(disk, directories) /\ Watching

\* What a text names are files.
LEMMA NamedFiles ==
  ASSUME NEW d \in [Files -> Texts \cup {None}]
  PROVE  \A f \in Files : d[f] # None => d[f] \in Texts /\ Named(d[f]) \subseteq Files
<1>1. \A f \in Files : d[f] # None => d[f] \in Texts /\ d[f] \in Text
  BY ConfigAssumption
<1> QED BY <1>1 DEF Text, Named

\* Files that the store does not ask for do not matter to what is current.
LEMMA GoodAlike ==
  ASSUME NEW s, StoreTyped(s), NEW d \in [Files -> Texts \cup {None}], NEW e, Good(s, d),
         \A f \in s.watchPaths : e[f] = d[f]
  PROVE  Good(s, e)
<1> DEFINE root == Selected(s, d)
<1>1. ~s.explicit => \A f \in ToSet(Candidates) : e[f] = d[f]
  BY DEF Good
<1>2. Selected(s, e) = root
  BY <1>1, SelectedAlike
<1>3. root \in Files
  <2>1. s.explicit => root = s.root
    BY DEF Selected
  <2>2. ~s.explicit => root \in ToSet(Candidates)
    BY SelectedFacts
  <2>3. \A f \in ToSet(Candidates) : f \in Files
    BY CandidatesAre
  <2> QED BY <2>1, <2>2, <2>3 DEF StoreTyped
<1> HIDE DEF root
<1>4. \A f \in Reached(root, d) : e[f] = d[f]
  BY DEF Good, root
<1>5. Reached(root, e) = Reached(root, d)
  BY <1>3, <1>4, NamedFiles, ReachedAlike
<1>6. Meaning(s, e) = Meaning(s, d)
  <2> DEFINE D == Reached(root, d)
  <2>1. {f \in D : e[f] = None} = {f \in D : d[f] = None} /\ {f \in D : e[f] # None} = {f \in D : d[f] # None}
    BY <1>4
  <2>2. [f \in {g \in D : e[g] # None} |-> e[f]] = [f \in {g \in D : d[g] # None} |-> d[f]]
    BY <1>4, <2>1
  <2> QED BY <1>2, <1>5, <2>1, <2>2 DEF Meaning, root
<1> QED BY <1>2, <1>5, <1>6 DEF Good, Current, root

\* While a load is under way others may change files, and the watcher is told
\* or the change is known to be missed: this is enough for what is being read.
LEMMA ReadingKept ==
  ASSUME UNCHANGED <<store, load>>, LoadTyped(load), ReadOK,
         \A f \in Files : Stale(watcher, raced, f) => Stale(watcher', raced', f),
         \A f \in Files : disk'[f] = disk[f] \/ Stale(watcher', raced', f), Reading
  PROVE  ReadOK'
<1>1. /\ load \in Load /\ load.absent \subseteq Files /\ DOMAIN load.texts \subseteq Files
      /\ \A f \in ToSet(Candidates) : f \in Files
  BY LoadIs, ConfigIs, CandidatesAre DEF LoadTyped, Reading
<1>2. ASSUME NEW f \in DOMAIN load.texts \cup load.absent
      PROVE  Stale(watcher', raced', f) \/ Agrees(load, disk', f)
  <2>1. f \in Files
    BY <1>1
  <2>2. Stale(watcher, raced, f) \/ Agrees(load, disk, f)
    BY DEF ReadOK
  <2> QED BY <2>1, <2>2 DEF Agrees
<1>3. StillChosen' \/ \E f \in ToSet(Candidates) : Stale(watcher', raced', f)
  <2> SUFFICES ASSUME \A f \in ToSet(Candidates) : ~Stale(watcher', raced', f)
               PROVE  StillChosen'
    OBVIOUS
  <2>1. \A f \in ToSet(Candidates) : disk'[f] = disk[f] /\ ~Stale(watcher, raced, f)
    BY <1>1
  <2>2. StillChosen
    BY <2>1 DEF ReadOK
  <2>3. CASE load.kind = "replace" \/ store.explicit
    BY <2>3 DEF StillChosen
  <2>4. CASE ~(load.kind = "replace" \/ store.explicit)
    <3>1. load.root \in ToSet(Candidates)
      BY <2>4 DEF ReadOK
    <3>2. Selected(store, disk') = Selected(store, disk)
      BY <2>1, <2>4, SelectedAlike
    <3> QED BY <2>1, <2>2, <3>1, <3>2 DEF StillChosen
  <2> QED BY <2>3, <2>4
<1>4. /\ load' = load /\ store' = store
      /\ load.root \in DOMAIN load.texts \cup load.absent \cup load.todo
      /\ DOMAIN load.texts \cap load.absent = {} /\ Reach(load)
      /\ store.watchPaths = IF load.kind = "replace" \/ store.explicit THEN {load.root} ELSE ToSet(Candidates)
      /\ (store.explicit /\ load.kind # "replace") => load.root = store.root
      /\ (~store.explicit /\ load.kind # "replace") => load.root \in ToSet(Candidates)
  BY DEF ReadOK
<1> QED BY <1>2, <1>3, <1>4 DEF ReadOK

LEMMA RearmKept ==
  ASSUME UNCHANGED <<store, load>>, StoreTyped(store), DiskOK, RearmOK,
         \A f \in Files : Stale(watcher, raced, f) => Stale(watcher', raced', f),
         \A f \in Files : disk'[f] = disk[f] \/ Stale(watcher', raced', f)
  PROVE  RearmOK'
<1>1. store.watchPaths \subseteq Files
  BY DEF StoreTyped
<1>2. CASE \E f \in store.watchPaths : Stale(watcher, raced, f)
  BY <1>1, <1>2 DEF RearmOK
<1>3. CASE \E f \in store.watchPaths : Stale(watcher', raced', f)
  BY <1>3 DEF RearmOK
<1>4. CASE Good(store, disk) /\ \A f \in store.watchPaths : ~Stale(watcher', raced', f)
  <2>1. \A f \in store.watchPaths : disk'[f] = disk[f]
    BY <1>1, <1>4
  <2>2. Good(store, disk')
    BY <1>4, <2>1, GoodAlike DEF DiskOK
  <2> QED BY <2>2 DEF RearmOK
<1> QED BY <1>2, <1>3, <1>4 DEF RearmOK

\* While the watcher waits, a change is reported or does not matter.
LEMMA RestingKept ==
  ASSUME NEW s, StoreTyped(s), NEW R, DiskOK, Resting(s, R, disk, directories, watcher),
         watcher'.files = watcher.files, Alarm(watcher) => Alarm(watcher'),
         Attended(s.watchPaths, directories, watcher) =>
           \/ Alarm(watcher')
           \/ Attended(s.watchPaths, directories', watcher') /\ \A f \in s.watchPaths : disk'[f] = disk[f]
  PROVE  Resting(s, R, disk', directories', watcher')
<1>1. CASE Alarm(watcher')
  BY <1>1 DEF Resting
<1>2. CASE ~Alarm(watcher')
  <2>1. /\ Attended(s.watchPaths, directories', watcher')
        /\ \A f \in s.watchPaths : disk'[f] = disk[f]
        /\ (\E f \in s.watchPaths : f \in R) \/ Good(s, disk)
    BY <1>2 DEF Resting
  <2>2. Good(s, disk) => Good(s, disk')
    BY <2>1, GoodAlike DEF DiskOK
  <2> QED BY <2>1, <2>2 DEF Resting
<1> QED BY <1>1, <1>2

\* What the three steps of others have in common.
LEMMA OthersWatch ==
  ASSUME FullInv, UNCHANGED <<store, load>>, watcher'.files = watcher.files,
         Alarm(watcher) => Alarm(watcher'),
         \A s : (StoreTyped(s) /\ s.watchPaths \subseteq watcher.files
                   /\ Attended(s.watchPaths, directories, watcher)) =>
                  \/ Alarm(watcher')
                  \/ /\ Attended(s.watchPaths, directories', watcher')
                     /\ \A f \in s.watchPaths : disk'[f] = disk[f],
         load = None => raced' = raced,
         load # None => \A f \in Files : Stale(watcher, raced, f) => Stale(watcher', raced', f),
         load # None => \A f \in Files : disk'[f] = disk[f] \/ Stale(watcher', raced', f)
  PROVE  Watching'
<1>1. /\ StoreTyped(store) /\ LoadTyped(load) /\ DiskOK /\ load' = load /\ store' = store
  BY DEF FullInv, Typed, IInv
<1>2. ASSUME load = None
      PROVE  Resting(store', raced', disk', directories', watcher')
  <2>1. Resting(store, raced, disk, directories, watcher)
    BY <1>2 DEF FullInv, Watching
  <2>2. Resting(store, raced, disk', directories', watcher')
    BY <1>1, <2>1, RestingKept DEF Resting
  <2> QED BY <1>1, <1>2, <2>2
<1>3. ASSUME load # None, load.kind = "replace"
      PROVE  Resting(Restored(store', load'), load'.missed, disk', directories', watcher')
  <2>1. Resting(Restored(store, load), load.missed, disk, directories, watcher)
    BY <1>3 DEF FullInv, Watching
  <2>2. StoreTyped(Restored(store, load))
    BY <1>1, <1>3, RestoredTyped DEF LoadTyped
  <2>3. Resting(Restored(store, load), load.missed, disk', directories', watcher')
    BY <1>1, <2>1, <2>2, RestingKept DEF Resting
  <2> QED BY <1>1, <2>3
<1>4. Reading => ReadOK'
  BY <1>1, ReadingKept DEF FullInv, Watching, Reading
<1>5. (load # None /\ load.kind = "rearm") => RearmOK'
  BY <1>1, RearmKept DEF FullInv, Watching
<1>6. (load # None /\ ~Reading) => load.todo = {}
  BY DEF FullInv, Watching
<1> QED BY <1>1, <1>2, <1>3, <1>4, <1>5, <1>6 DEF Watching, Reading

LEMMA EditWatch ==
  ASSUME FullInv, NEW f \in Files, NEW t \in Texts \cup {None}, Edit(f, t)
  PROVE  Watching'
<1> DEFINE dir == Lineage[f][1]
<1>1. /\ UNCHANGED <<directories, store, load>> /\ dir \in directories
      /\ \A g \in Files : g # f => disk'[g] = disk[g]
      /\ watcher'.files = watcher.files /\ watcher'.dirs = watcher.dirs /\ watcher'.timer = watcher.timer
      /\ watcher'.queue = IF dir \in watcher.dirs THEN watcher.queue \cup {<<dir, f>>} ELSE watcher.queue
      /\ raced' = IF load # None /\ dir \notin watcher.dirs THEN raced \cup {f} ELSE raced
  BY EditIs DEF FullInv, IInv
<1>2. watcher.queue \subseteq watcher'.queue /\ (dir \in watcher.dirs => <<dir, f>> \in watcher'.queue)
  BY <1>1
<1>3. Pending(watcher) => Pending(watcher')
  BY <1>1, <1>2 DEF Pending
<1>4. Alarm(watcher) => Alarm(watcher')
  BY <1>1, <1>2, <1>3 DEF Alarm
<1>5. At(f, directories) = 1
  <2>1. 1 \in 1 .. Len(Lineage[f]) /\ Lasting \subseteq directories
    BY LineageFacts DEF FullInv, DirOK
  <2>2. \A j \in 1 .. (1 - 1) : Lineage[f][j] \notin directories
    OBVIOUS
  <2> QED BY <1>1, <2>1, <2>2, AtIs
<1>6. ASSUME NEW s, StoreTyped(s), s.watchPaths \subseteq watcher.files,
             Attended(s.watchPaths, directories, watcher)
      PROVE  \/ Alarm(watcher')
             \/ /\ Attended(s.watchPaths, directories', watcher')
                /\ \A g \in s.watchPaths : disk'[g] = disk[g]
  <2>1. CASE f \in s.watchPaths
    <3>1. <<dir, f>> \in watcher'.queue
      BY <1>2, <1>5, <1>6, <2>1 DEF Attended
    <3>2. f \in watcher'.files /\ <<dir, f>>[2] = f
      BY <1>1, <1>6, <2>1
    <3>3. Alarm(watcher')
      BY <3>1, <3>2 DEF Alarm
    <3> QED BY <3>3
  <2>2. CASE f \notin s.watchPaths
    BY <1>1, <1>6, <2>2 DEF StoreTyped, Attended
  <2> QED BY <2>1, <2>2
<1>7. ASSUME NEW g \in Files, Stale(watcher, raced, g)
      PROVE  Stale(watcher', raced', g)
  BY <1>1, <1>2, <1>3, <1>7 DEF Stale, Told
<1>8. ASSUME NEW g \in Files, load # None
      PROVE  disk'[g] = disk[g] \/ Stale(watcher', raced', g)
  BY <1>1, <1>2, <1>8 DEF Stale, Told
<1> HIDE DEF dir
<1>9. load = None => raced' = raced
  BY <1>1
<1> QED BY <1>1, <1>4, <1>6, <1>7, <1>8, <1>9, OthersWatch

LEMMA MakeWatch ==
  ASSUME FullInv, NEW d \in Directories \ Lasting, MakeDirectory(d)
  PROVE  Watching'
<1>1. /\ UNCHANGED <<disk, store, load, raced>> /\ d \notin directories /\ directories' = directories \cup {d}
      /\ watcher'.files = watcher.files /\ watcher'.dirs = watcher.dirs /\ watcher'.timer = watcher.timer
      /\ watcher'.queue = IF Parent(d) \in watcher.dirs
                          THEN watcher.queue \cup {<<Parent(d), d>>} ELSE watcher.queue
  BY MakeIs DEF FullInv
<1>2. watcher.queue \subseteq watcher'.queue /\ (Parent(d) \in watcher.dirs => <<Parent(d), d>> \in watcher'.queue)
  BY <1>1
<1>3. Pending(watcher) => Pending(watcher')
  BY <1>1, <1>2 DEF Pending
<1>4. Alarm(watcher) => Alarm(watcher')
  BY <1>1, <1>2, <1>3 DEF Alarm
<1>5. Lasting \subseteq directories /\ Lasting \subseteq directories' /\ Parent(d) \in directories
  BY <1>1 DEF FullInv, DirOK, MakeDirectory
<1>6. ASSUME NEW s, StoreTyped(s), s.watchPaths \subseteq watcher.files,
             Attended(s.watchPaths, directories, watcher), ~Alarm(watcher')
      PROVE  Attended(s.watchPaths, directories', watcher')
  <2>1. ASSUME NEW g \in s.watchPaths
        PROVE  At(g, directories') = At(g, directories)
    <3> DEFINE k == At(g, directories)
    <3>1. g \in Files
      BY <1>6 DEF StoreTyped
    <3>2. k \in 1 .. Len(Lineage[g]) /\ Lineage[g][k] \in directories
          /\ (\A j \in 1 .. (k - 1) : Lineage[g][j] \notin directories) /\ Len(Lineage[g]) \in Nat
      BY <1>5, <3>1, AtFacts, LineageFacts
    <3>3. Lineage[g][k] \in watcher.dirs /\ \A j \in 1 .. (k - 1) : Lineage[g][j] \in watcher.files
      BY <1>6 DEF Attended
    <3> HIDE DEF k
    <3>4. ASSUME NEW j \in 1 .. (k - 1), Lineage[g][j] = d
          PROVE  FALSE
      <4>1. j \in 1 .. (Len(Lineage[g]) - 1) /\ (j + 1 = k \/ j + 1 \in 1 .. (k - 1))
        BY <3>2
      <4>2. Parent(d) = Lineage[g][j + 1]
        BY <3>1, <3>4, <4>1, ParentIs
      <4>3. j + 1 = k
        BY <1>5, <3>2, <4>1, <4>2
      <4>4. <<Parent(d), d>> \in watcher'.queue /\ d \in watcher'.files
        BY <1>1, <1>2, <3>3, <3>4, <4>2, <4>3
      <4>5. <<Parent(d), d>>[2] = d
        OBVIOUS
      <4>6. Alarm(watcher')
        BY <4>4, <4>5 DEF Alarm
      <4> QED BY <1>6, <4>6
    <3>5. \A j \in 1 .. (k - 1) : Lineage[g][j] \notin directories'
      BY <1>1, <3>2, <3>4
    <3>6. Lineage[g][k] \in directories'
      BY <1>1, <3>2
    <3>7. At(g, directories') = k
      BY <1>5, <3>1, <3>2, <3>5, <3>6, AtIs
    <3> QED BY <3>7 DEF k
  <2> QED BY <1>1, <1>6, <2>1 DEF Attended
<1>7. \A g \in Files : Stale(watcher, raced, g) => Stale(watcher', raced', g)
  BY <1>1, <1>2, <1>3 DEF Stale, Told
<1> QED BY <1>1, <1>4, <1>6, <1>7, OthersWatch

\* A directory that is watched does not go unnoticed, and where none is nothing is lost.
LEMMA RemoveWatch ==
  ASSUME FullInv, NEW d \in Directories \ Lasting, RemoveDirectory(d)
  PROVE  Watching'
<1>1. /\ UNCHANGED <<store, load>> /\ directories' = directories \ Gone(d)
      /\ \A f \in Files : disk'[f] = IF d \in ToSet(Lineage[f]) THEN None ELSE disk[f]
      /\ watcher'.files = watcher.files /\ watcher'.dirs = watcher.dirs \ Gone(d)
      /\ watcher'.timer = watcher.timer /\ watcher.queue \subseteq watcher'.queue
      /\ Gone(d) \cap watcher.dirs # {} => <<None, d>> \in watcher'.queue
      /\ raced' = IF load # None /\ Gone(d) \cap watcher.dirs = {}
                  THEN raced \cup {f \in Files : d \in ToSet(Lineage[f]) /\ disk[f] # None} ELSE raced
  BY RemoveIs DEF FullInv, IInv
<1>2. Pending(watcher) => Pending(watcher')
  BY <1>1 DEF Pending
<1>3. Alarm(watcher) => Alarm(watcher')
  BY <1>1, <1>2 DEF Alarm
<1>4. Gone(d) \cap watcher.dirs # {} => Pending(watcher')
  <2>1. <<None, d>>[1] = None
    OBVIOUS
  <2> QED BY <1>1, <2>1 DEF Pending
<1>5. DirOK(disk, directories) /\ DirOK(disk', directories')
  BY RemoveDir DEF FullInv, IInv
<1>6. ASSUME NEW s, StoreTyped(s), s.watchPaths \subseteq watcher.files,
             Attended(s.watchPaths, directories, watcher), ~Alarm(watcher')
      PROVE  /\ Attended(s.watchPaths, directories', watcher')
             /\ \A g \in s.watchPaths : disk'[g] = disk[g]
  <2>1. Gone(d) \cap watcher.dirs = {} /\ watcher'.dirs = watcher.dirs
    BY <1>1, <1>4, <1>6 DEF Alarm
  <2>2. ASSUME NEW g \in s.watchPaths
        PROVE  At(g, directories') = At(g, directories) /\ disk'[g] = disk[g]
    <3> DEFINE k == At(g, directories)
    <3>1. g \in Files /\ Lasting \subseteq directories /\ Lasting \subseteq directories'
      BY <1>5, <1>6 DEF StoreTyped, DirOK
    <3>2. k \in 1 .. Len(Lineage[g]) /\ Lineage[g][k] \in directories
          /\ \A j \in 1 .. (k - 1) : Lineage[g][j] \notin directories
      BY <3>1, AtFacts
    <3>3. Lineage[g][k] \in watcher.dirs
      BY <1>6 DEF Attended
    <3> HIDE DEF k
    <3>4. Lineage[g][k] \in directories' /\ \A j \in 1 .. (k - 1) : Lineage[g][j] \notin directories'
      BY <1>1, <2>1, <3>2, <3>3
    <3>5. At(g, directories') = k
      BY <3>1, <3>2, <3>4, AtIs
    <3>6. ASSUME d \in ToSet(Lineage[g]), disk[g] # None
          PROVE  FALSE
      <4>1. Lineage[g][1] \in directories /\ 1 \in 1 .. Len(Lineage[g]) /\ DOMAIN Lineage[g] = 1 .. Len(Lineage[g])
            /\ Len(Lineage[g]) \in Nat
        BY <1>5, <3>1, <3>6, LineageFacts DEF DirOK
      <4>2. k = 1
        BY <3>2, <4>1
      <4>3. PICK n \in 1 .. Len(Lineage[g]) : Lineage[g][n] = d
        BY <3>6, <4>1 DEF ToSet
      <4>4. Lineage[g][1] \in Gone(d)
        <5>1. CASE n = 1
          BY <4>3, <5>1 DEF Gone
        <5>2. CASE n # 1
          <6>1. 1 < n /\ Lineage[g][1] \in Directories
            BY <3>1, <4>1, <5>2, LineageFacts
          <6> QED BY <3>1, <4>1, <4>3, <6>1 DEF Gone
        <5> QED BY <5>1, <5>2
      <4> QED BY <2>1, <3>3, <4>2, <4>4
    <3>7. disk'[g] = disk[g]
      BY <1>1, <3>1, <3>6
    <3> QED BY <3>5, <3>7 DEF k
  <2> QED BY <1>1, <1>6, <2>1, <2>2 DEF Attended
<1>7. ASSUME NEW g \in Files, Stale(watcher, raced, g)
      PROVE  Stale(watcher', raced', g)
  <2>1. raced \subseteq raced'
    BY <1>1
  <2>2. CASE Gone(d) \cap watcher.dirs = {}
    <3>1. watcher'.dirs = watcher.dirs
      BY <1>1, <2>2
    <3> QED BY <1>1, <1>2, <1>7, <2>1, <3>1 DEF Stale, Told
  <2> QED BY <1>4, <2>2 DEF Stale
<1>8. ASSUME NEW g \in Files, load # None
      PROVE  disk'[g] = disk[g] \/ Stale(watcher', raced', g)
  <2>1. CASE Gone(d) \cap watcher.dirs = {}
    BY <1>1, <1>8, <2>1 DEF Stale
  <2> QED BY <1>4, <2>1 DEF Stale
<1>9. load = None => raced' = raced
  BY <1>1
<1> QED BY <1>1, <1>3, <1>6, <1>7, <1>8, <1>9, OthersWatch

\* A file that is read agrees with the disk; the rest is as it was.
LEMMA ReadFileWatch ==
  ASSUME FullInv, NEW f \in Files, ReadFile(f)
  PROVE  Watching'
<1>1. /\ LoadTyped(load') /\ load' # None /\ f \in load.todo /\ f \notin DOMAIN load.texts \cup load.absent
      /\ load'.kind = load.kind /\ load'.root = load.root /\ load'.found = load.found
      /\ load'.saved = load.saved /\ load'.missed = load.missed
      /\ DOMAIN load'.texts = DOMAIN load.texts \cup (IF disk[f] = None THEN {} ELSE {f})
      /\ load'.absent = load.absent \cup (IF disk[f] = None THEN {f} ELSE {})
      /\ \A g \in DOMAIN load'.texts : load'.texts[g] = IF g = f THEN disk[g] ELSE load.texts[g]
      /\ load'.todo = (load.todo \cup (IF disk[f] = None THEN {} ELSE Named(disk[f])))
                      \ (DOMAIN load'.texts \cup load'.absent)
  BY ReadEffect DEF FullInv, Typed, IInv
<1>2. /\ load # None /\ UNCHANGED <<disk, directories, store, watcher>>
      /\ raced' = IF StillChosen THEN raced \ {f} ELSE raced
  BY DEF ReadFile
<1>3. Reading /\ ReadOK
  BY <1>1, <1>2 DEF FullInv, Watching
<1>4. StillChosen' = StillChosen
  BY <1>1, <1>2 DEF StillChosen
<1>5. ASSUME NEW g \in DOMAIN load'.texts \cup load'.absent
      PROVE  Stale(watcher', raced', g) \/ Agrees(load', disk', g)
  <2>1. CASE g = f
    <3>1. f \in load'.absent => disk[f] = None
      BY <1>1
    <3> QED BY <1>1, <1>2, <2>1, <3>1 DEF Agrees
  <2>2. CASE g # f
    <3>1. g \in DOMAIN load.texts \cup load.absent
      BY <1>1, <2>2
    <3>2. Stale(watcher, raced, g) => Stale(watcher', raced', g)
      BY <1>2, <2>2 DEF Stale
    <3>3. Agrees(load, disk, g) => Agrees(load', disk', g)
      BY <1>1, <1>2, <2>2 DEF Agrees
    <3> QED BY <1>3, <3>1, <3>2, <3>3 DEF ReadOK
  <2> QED BY <2>1, <2>2
<1>6. StillChosen' \/ \E g \in ToSet(Candidates) : Stale(watcher', raced', g)
  BY <1>2, <1>3, <1>4 DEF ReadOK
<1>7. Reach(load')
  <2> SUFFICES ASSUME NEW S \in SUBSET Files, load'.root \in S,
                      \A g \in S \cap DOMAIN load'.texts : Named(load'.texts[g]) \subseteq S
               PROVE  DOMAIN load'.texts \cup load'.absent \cup load'.todo \subseteq S
    BY DEF Reach
  <2>1. \A g \in S \cap DOMAIN load.texts : Named(load.texts[g]) \subseteq S
    <3> SUFFICES ASSUME NEW g \in S \cap DOMAIN load.texts
                 PROVE  Named(load.texts[g]) \subseteq S
      OBVIOUS
    <3>1. g # f /\ g \in S \cap DOMAIN load'.texts
      BY <1>1
    <3>2. load'.texts[g] = load.texts[g]
      BY <1>1, <3>1
    <3>3. Named(load'.texts[g]) \subseteq S
      BY <3>1
    <3> QED BY <3>2, <3>3
  <2>2. DOMAIN load.texts \cup load.absent \cup load.todo \subseteq S
    <3>1. load.root \in S /\ Reach(load)
      BY <1>1, <1>3 DEF ReadOK
    <3> QED BY <2>1, <3>1 DEF Reach
  <2>3. f \in S
    BY <1>1, <2>2
  <2>4. disk[f] # None => Named(disk[f]) \subseteq S
    <3> SUFFICES ASSUME disk[f] # None
                 PROVE  Named(disk[f]) \subseteq S
      OBVIOUS
    <3>1. f \in S \cap DOMAIN load'.texts
      BY <1>1, <2>3
    <3>2. load'.texts[f] = disk[f]
      BY <1>1, <3>1
    <3>3. Named(load'.texts[f]) \subseteq S
      BY <3>1
    <3> QED BY <3>2, <3>3
  <2> QED BY <1>1, <2>2, <2>3, <2>4
<1>8. ReadOK'
  <2>1. load'.root \in DOMAIN load'.texts \cup load'.absent \cup load'.todo
    BY <1>1, <1>3 DEF ReadOK
  <2>2. DOMAIN load'.texts \cap load'.absent = {}
    BY <1>1, <1>3 DEF ReadOK
  <2>3. /\ store.watchPaths = IF load.kind = "replace" \/ store.explicit THEN {load.root} ELSE ToSet(Candidates)
        /\ (store.explicit /\ load.kind # "replace") => load.root = store.root
        /\ (~store.explicit /\ load.kind # "replace") => load.root \in ToSet(Candidates)
    BY <1>3 DEF ReadOK
  <2>4. store' = store /\ load'.kind = load.kind /\ load'.root = load.root
    BY <1>1, <1>2
  <2> QED BY <1>5, <1>6, <1>7, <2>1, <2>2, <2>3, <2>4 DEF ReadOK
<1>9. Reading'
  BY <1>1, <1>3 DEF Reading
<1>10. load.kind = "replace" =>
         Resting(Restored(store', load'), load'.missed, disk', directories', watcher')
  <2> SUFFICES ASSUME load.kind = "replace"
               PROVE  Resting(Restored(store', load'), load'.missed, disk', directories', watcher')
    OBVIOUS
  <2>1. Resting(Restored(store, load), load.missed, disk, directories, watcher)
    BY <1>2 DEF FullInv, Watching
  <2>2. Restored(store', load') = Restored(store, load)
    BY <1>1, <1>2 DEF Restored
  <2> QED BY <1>1, <1>2, <2>1, <2>2
<1> QED BY <1>1, <1>8, <1>9, <1>10 DEF Watching, Reading

\* What a load learned is what the files mean, unless one of them is stale.
LEMMA LearnedGood ==
  ASSUME FullInv, Loaded, ReadOK, Reading, NEW s,
         s.diagnostics = Diagnostics(load, store.explicit \/ load.kind = "replace"),
         s.missingIncludes = (Required(load) # {}),
         s.watchPaths = IF load.root \in load.absent THEN store.watchPaths
                        ELSE store.watchPaths \cup DOMAIN load.texts \cup load.absent,
         s.explicit = (store.explicit \/ load.kind = "replace"), s.explicit => s.root = load.root,
         Outcome(load) = "loaded" => s.config = load.texts /\ ~s.fileMissing,
         (Outcome(load) = "missing" /\ ~s.explicit /\ ~load.found) => s.config = Defaults /\ s.fileMissing,
         \A f \in s.watchPaths : ~Stale(watcher, raced, f)
  PROVE  Good(s, disk)
<1> DEFINE D == DOMAIN load.texts \cup load.absent
<1>1. /\ load \in Load /\ load # None /\ load.todo = {} /\ load.root \in Files /\ load.texts \in Config
      /\ load.absent \subseteq Files /\ DOMAIN load.texts \subseteq Files /\ Closed(load) /\ DiskOK
      /\ load.texts = [f \in DOMAIN load.texts |-> load.texts[f]]
      /\ \A f \in DOMAIN load.texts : load.texts[f] \in Texts /\ load.texts[f] # None
  <2>1. load \in Load /\ load # None /\ load.todo = {} /\ Closed(load) /\ DiskOK
    BY DEF FullInv, Loaded, Typed, LoadTyped, IInv, LoadOK
  <2>2. load.root \in Files /\ load.texts \in Config /\ load.absent \subseteq Files
    BY <2>1, LoadIs
  <2>3. /\ DOMAIN load.texts \subseteq Files /\ load.texts = [f \in DOMAIN load.texts |-> load.texts[f]]
        /\ \A f \in DOMAIN load.texts : load.texts[f] \in Texts
    BY <2>2, ConfigIs
  <2>4. None \notin Texts
    BY ConfigAssumption
  <2> QED BY <2>1, <2>2, <2>3, <2>4
<1>2. load.root \in D /\ DOMAIN load.texts \cap load.absent = {} /\ Reach(load)
  BY <1>1 DEF ReadOK
<1>3. load.root \in store.watchPaths
  BY DEF ReadOK, Reading
<1>4. D \subseteq s.watchPaths
  <2>1. CASE load.root \in load.absent
    <3>1. {load.root} \in SUBSET Files /\ load.root \in {load.root}
      BY <1>1
    <3>2. {load.root} \cap DOMAIN load.texts = {}
      BY <1>2, <2>1
    <3>3. D \subseteq {load.root}
      BY <1>2, <3>1, <3>2 DEF Reach
    <3> QED BY <1>3, <2>1, <3>3
  <2>2. CASE load.root \notin load.absent
    BY <2>2
  <2> QED BY <2>1, <2>2
<1>5. \A f \in D : Agrees(load, disk, f)
  BY <1>4 DEF ReadOK
<1>6. /\ \A f \in DOMAIN load.texts : disk[f] = load.texts[f] /\ disk[f] # None
      /\ \A f \in load.absent : disk[f] = None
  BY <1>1, <1>5 DEF Agrees
<1>7. ~s.explicit => ToSet(Candidates) \subseteq s.watchPaths
  BY DEF ReadOK
<1>8. StillChosen
  BY <1>7 DEF ReadOK, StillChosen
<1>9. Selected(s, disk) = load.root
  <2>1. CASE s.explicit
    BY <2>1 DEF Selected
  <2>2. CASE ~s.explicit
    <3>1. Selected(store, disk) = load.root
      BY <1>8, <2>2 DEF StillChosen
    <3>2. ~store.explicit /\ s.explicit = store.explicit
      <4>1. store.explicit \in BOOLEAN
        BY DEF FullInv, Typed, StoreTyped
      <4>2. store.explicit = FALSE
        BY <2>2, <4>1
      <4>3. s.explicit = FALSE
        BY <2>2
      <4> QED BY <4>2, <4>3
    <3>3. Selected(s, disk) = Selected(store, disk)
      BY <2>2, <3>2, SelectedAlike
    <3> QED BY <3>1, <3>3
  <2> QED BY <2>1, <2>2
<1>10. Reached(load.root, disk) = D
  <2>1. D \in SUBSET Files
    BY <1>1
  <2>2. \A f \in D : disk[f] # None => Named(disk[f]) \subseteq D
    <3> SUFFICES ASSUME NEW f \in D, disk[f] # None
                 PROVE  Named(disk[f]) \subseteq D
      OBVIOUS
    <3>1. f \in DOMAIN load.texts /\ disk[f] = load.texts[f]
      BY <1>6
    <3>2. Named(load.texts[f]) \subseteq DOMAIN load.texts \cup load.absent \cup load.todo
      BY <1>1, <3>1 DEF Closed
    <3> QED BY <1>1, <3>1, <3>2
  <2>3. ASSUME NEW S \in SUBSET Files, load.root \in S,
               \A f \in S \cap D : disk[f] # None => Named(disk[f]) \subseteq S
        PROVE  D \subseteq S
    <3>1. \A f \in S \cap DOMAIN load.texts : Named(load.texts[f]) \subseteq S
      BY <1>6, <2>3
    <3> QED BY <1>2, <2>3, <3>1 DEF Reach
  <2> HIDE DEF D
  <2> QED BY <1>2, <2>1, <2>2, <2>3, ReachedIs
<1>11. LET m == Meaning(s, disk)
       IN m.root = load.root /\ m.texts = load.texts /\ m.absent = load.absent
  <2>1. {f \in D : disk[f] = None} = load.absent
    BY <1>6
  <2>2. {f \in D : disk[f] # None} = DOMAIN load.texts
    BY <1>6
  <2>3. [f \in {g \in D : disk[g] # None} |-> disk[f]] = load.texts
    BY <1>1, <1>6, <2>2
  <2> HIDE DEF D
  <2> QED BY <1>9, <1>10, <2>1, <2>3 DEF Meaning
<1> DEFINE m == Meaning(s, disk)
<1>12. m.root = load.root /\ m.texts = load.texts /\ m.absent = load.absent
  BY <1>11
<1> HIDE DEF m
<1>13. /\ Outcome(m) = Outcome(load) /\ Required(m) = Required(load)
       /\ Diagnostics(m, s.explicit) = Diagnostics(load, s.explicit)
  BY <1>12, OutcomeAlike
<1>14. (Outcome(load) = "missing" /\ ~s.explicit) => ~load.found
  <2> SUFFICES ASSUME Outcome(load) = "missing", ~s.explicit
               PROVE  ~load.found
    OBVIOUS
  <2>1. load.root \in load.absent
    BY DEF Outcome
  <2>2. load.found = (disk[load.root] # None)
    BY <1>8 DEF StillChosen
  <2> QED BY <1>6, <2>1, <2>2
<1>15. Current(s, disk)
  <2>1. /\ s.diagnostics = Diagnostics(m, s.explicit)
        /\ s.missingIncludes = (Required(m) # {})
        /\ Outcome(m) = "loaded" => s.config = m.texts /\ ~s.fileMissing
        /\ (Outcome(m) = "missing" /\ ~s.explicit) => s.config = Defaults /\ s.fileMissing
    BY <1>12, <1>13, <1>14
  <2> QED BY <2>1 DEF Current, m
<1> QED BY <1>4, <1>7, <1>9, <1>10, <1>15 DEF Good

\* A load that is over leaves a store that the rearmed watcher may wait for.
LEMMA FinishStartWatch ==
  ASSUME FullInv, FinishStart
  PROVE  Watching'
<1>1. /\ Loaded /\ load # None /\ load.kind = "load" /\ Reading /\ ReadOK /\ load \in Load /\ StoreTyped(store)
      /\ UNCHANGED <<disk, directories, watcher, raced, events>>
  BY DEF FinishStart, Loaded, FullInv, Typed, LoadTyped, Reading, Watching
<1>2. load' # None /\ load'.kind \in {"rearm", "refused"} /\ load'.todo = {}
  BY FinishStartTyped DEF FullInv
<1>3. load'.kind = "rearm" => RearmOK'
  <2> SUFFICES ASSUME load'.kind = "rearm", \A f \in store'.watchPaths : ~Stale(watcher', raced', f)
               PROVE  Good(store', disk')
    BY DEF RearmOK
  <2>1. ~(Outcome(load) = "fatal" \/ (Outcome(load) = "missing" /\ store.explicit))
    BY <1>1 DEF FinishStart, Load
  <2>2. store' = Commit(Learn(store))
    BY <2>1 DEF FinishStart
  <2>3. /\ Learn(store).diagnostics = Diagnostics(load, store.explicit \/ load.kind = "replace")
        /\ Learn(store).missingIncludes = (Required(load) # {})
        /\ Learn(store).watchPaths = IF load.root \in load.absent THEN store.watchPaths
                                     ELSE store.watchPaths \cup DOMAIN load.texts \cup load.absent
        /\ Learn(store).explicit = store.explicit /\ StoreTyped(Learn(store))
    BY <1>1, LearnTyped
  <2>4. /\ store'.config = IF Outcome(load) = "loaded" THEN load.texts ELSE Defaults
        /\ store'.root = load.root /\ store'.fileMissing = (Outcome(load) = "missing")
        /\ store'.diagnostics = Learn(store).diagnostics
        /\ store'.missingIncludes = Learn(store).missingIncludes
        /\ store'.watchPaths = Learn(store).watchPaths /\ store'.explicit = Learn(store).explicit
    BY <1>1, <2>2, <2>3, CommitTyped DEF Learned
  <2>5. store'.explicit = (store.explicit \/ load.kind = "replace")
    <3>1. store.explicit \in BOOLEAN
      BY <1>1 DEF StoreTyped
    <3> QED BY <1>1, <2>3, <2>4, <3>1
  <2>6. \A f \in store'.watchPaths : ~Stale(watcher, raced, f)
    BY <1>1
  <2>7. Good(store', disk)
    BY <1>1, <2>3, <2>4, <2>5, <2>6, LearnedGood
  <2> QED BY <1>1, <2>7
<1> QED BY <1>2, <1>3 DEF Watching, Reading

LEMMA FinishReloadWatch ==
  ASSUME FullInv, FinishReload
  PROVE  Watching'
<1>1. /\ Loaded /\ load # None /\ load.kind = "reload" /\ Reading /\ ReadOK /\ load \in Load /\ StoreTyped(store)
      /\ UNCHANGED <<disk, directories, watcher, raced, events>>
  BY DEF FinishReload, Loaded, FullInv, Typed, LoadTyped, Reading, Watching
<1>2. load' # None /\ load'.kind = "rearm" /\ load'.todo = {}
  BY FinishReloadTyped DEF FullInv
<1>3. RearmOK'
  <2> SUFFICES ASSUME \A f \in store'.watchPaths : ~Stale(watcher', raced', f)
               PROVE  Good(store', disk')
    BY DEF RearmOK
  <2> DEFINE taken == Outcome(load) = "loaded" \/ (~store.explicit /\ ~load.found /\ Outcome(load) = "missing")
  <2>2. store' = IF taken THEN Commit(Learn(store)) ELSE Learn(store)
    BY DEF FinishReload
  <2>3. /\ Learn(store).diagnostics = Diagnostics(load, store.explicit \/ load.kind = "replace")
        /\ Learn(store).missingIncludes = (Required(load) # {})
        /\ Learn(store).watchPaths = IF load.root \in load.absent THEN store.watchPaths
                                     ELSE store.watchPaths \cup DOMAIN load.texts \cup load.absent
        /\ Learn(store).explicit = store.explicit /\ Learn(store).root = store.root
        /\ StoreTyped(Learn(store))
    BY <1>1, LearnTyped
  <2>4. /\ Commit(Learn(store)).config = IF Outcome(load) = "loaded" THEN load.texts ELSE Defaults
        /\ Commit(Learn(store)).root = load.root
        /\ Commit(Learn(store)).fileMissing = (Outcome(load) = "missing")
        /\ Commit(Learn(store)).diagnostics = Learn(store).diagnostics
        /\ Commit(Learn(store)).missingIncludes = Learn(store).missingIncludes
        /\ Commit(Learn(store)).watchPaths = Learn(store).watchPaths
        /\ Commit(Learn(store)).explicit = Learn(store).explicit
    BY <1>1, <2>3, CommitTyped DEF Learned
  <2>5. /\ store'.diagnostics = Diagnostics(load, store.explicit \/ load.kind = "replace")
        /\ store'.missingIncludes = (Required(load) # {})
        /\ store'.watchPaths = IF load.root \in load.absent THEN store.watchPaths
                               ELSE store.watchPaths \cup DOMAIN load.texts \cup load.absent
        /\ store'.explicit = store.explicit
        /\ taken => /\ store'.config = IF Outcome(load) = "loaded" THEN load.texts ELSE Defaults
                    /\ store'.fileMissing = (Outcome(load) = "missing")
        /\ store'.root = load.root \/ store'.root = store.root
    BY <2>2, <2>3, <2>4
  <2>6. store'.explicit = (store.explicit \/ load.kind = "replace")
    <3>1. store.explicit \in BOOLEAN
      BY <1>1 DEF StoreTyped
    <3> QED BY <1>1, <2>5, <3>1
  <2>7. store'.explicit => store'.root = load.root
    BY <1>1, <2>5 DEF ReadOK
  <2>8. /\ Outcome(load) = "loaded" => store'.config = load.texts /\ ~store'.fileMissing
        /\ (Outcome(load) = "missing" /\ ~store'.explicit /\ ~load.found) => store'.config = Defaults /\ store'.fileMissing
    BY <2>5
  <2>9. \A f \in store'.watchPaths : ~Stale(watcher, raced, f)
    BY <1>1
  <2>10. Good(store', disk)
    BY <1>1, <2>5, <2>6, <2>7, <2>8, <2>9, LearnedGood
  <2> QED BY <1>1, <2>10
<1> QED BY <1>2, <1>3 DEF Watching, Reading

LEMMA FinishReplaceWatch ==
  ASSUME FullInv, FinishReplace
  PROVE  Watching'
<1>1. /\ Loaded /\ load # None /\ load.kind = "replace" /\ Reading /\ ReadOK /\ load \in Load /\ StoreTyped(store)
      /\ UNCHANGED <<disk, directories, watcher, events>>
  BY DEF FinishReplace, Loaded, FullInv, Typed, LoadTyped, Reading, Watching
<1>2. load' # None => load'.kind = "rearm" /\ load'.todo = {}
  BY FinishReplaceTyped DEF FullInv
<1>3. CASE Outcome(load) = "loaded"
  <2>0. store' = [Commit(Learn(store)) EXCEPT !.explicit = TRUE] /\ raced' = raced /\ load' # None
    <3>1. /\ store' = [Commit(Learn(store)) EXCEPT !.explicit = TRUE] /\ raced' = raced
          /\ load' = [load EXCEPT !.kind = "rearm"]
      BY <1>3 DEF FinishReplace
    <3>2. load' # None
      BY <1>1, <3>1, KindEffect DEF FullInv, Typed
    <3> QED BY <3>1, <3>2
  <2>1. SUFFICES ASSUME \A f \in store'.watchPaths : ~Stale(watcher', raced', f)
                 PROVE  Good(store', disk')
    BY <1>2, <2>0 DEF Watching, RearmOK, Reading
  <2>2. /\ Learn(store).diagnostics = Diagnostics(load, store.explicit \/ load.kind = "replace")
        /\ Learn(store).missingIncludes = (Required(load) # {})
        /\ Learn(store).watchPaths = IF load.root \in load.absent THEN store.watchPaths
                                     ELSE store.watchPaths \cup DOMAIN load.texts \cup load.absent
        /\ StoreTyped(Learn(store))
    BY <1>1, LearnTyped
  <2>3. /\ Commit(Learn(store)).config = load.texts
        /\ Commit(Learn(store)).root = load.root
        /\ Commit(Learn(store)).fileMissing = FALSE
        /\ Commit(Learn(store)).diagnostics = Learn(store).diagnostics
        /\ Commit(Learn(store)).missingIncludes = Learn(store).missingIncludes
        /\ Commit(Learn(store)).watchPaths = Learn(store).watchPaths
        /\ StoreTyped(Commit(Learn(store)))
    BY <1>1, <1>3, <2>2, CommitTyped DEF Learned
  <2>4. /\ store'.explicit = TRUE
        /\ \A f \in StoreFields \ {"explicit"} : store'[f] = Commit(Learn(store))[f]
    <3> DEFINE c == Commit(Learn(store))
    <3>1. StoreTyped(c) /\ store' = [c EXCEPT !.explicit = TRUE]
      BY <2>0, <2>3
    <3> HIDE DEF c
    <3>2. store'.explicit = TRUE /\ \A f \in StoreFields \ {"explicit"} : store'[f] = c[f]
      BY <3>1 DEF StoreTyped, StoreFields, Learned
    <3> QED BY <3>2 DEF c
  <2>5. /\ store'.diagnostics = Diagnostics(load, store.explicit \/ load.kind = "replace")
        /\ store'.missingIncludes = (Required(load) # {})
        /\ store'.watchPaths = IF load.root \in load.absent THEN store.watchPaths
                               ELSE store.watchPaths \cup DOMAIN load.texts \cup load.absent
        /\ store'.root = load.root /\ store'.config = load.texts /\ ~store'.fileMissing
    BY <2>2, <2>3, <2>4 DEF StoreFields, Learned
  <2>6. store'.explicit = (store.explicit \/ load.kind = "replace")
    BY <1>1, <2>4
  <2>7. \A f \in store'.watchPaths : ~Stale(watcher, raced, f)
    BY <1>1, <2>0, <2>1
  <2>8. Good(store', disk)
    BY <1>1, <1>3, <2>4, <2>5, <2>6, <2>7, LearnedGood
  <2> QED BY <1>1, <2>8
<1>4. CASE Outcome(load) # "loaded"
  <2>1. store' = Restored(store, load) /\ load' = None /\ raced' = raced \cup load.missed
    BY <1>4 DEF FinishReplace, Restored
  <2>2. Resting(Restored(store, load), load.missed, disk, directories, watcher)
    BY <1>1 DEF FullInv, Watching
  <2>3. Resting(store', raced', disk', directories', watcher')
    BY <1>1, <2>1, <2>2 DEF Resting
  <2> QED BY <2>1, <2>3 DEF Watching, Reading
<1> QED BY <1>3, <1>4

\* What is stale and asked for rings, and the rest is waited for.
LEMMA RearmWatch ==
  ASSUME FullInv, Rearm
  PROVE  Watching'
<1>1. /\ load # None /\ load.kind = "rearm" /\ load' = None
      /\ UNCHANGED <<disk, directories, store, raced, events>>
      /\ watcher'.timer = watcher.timer
      /\ watcher'.dirs = {Lineage[f][At(f, directories)] : f \in store.watchPaths}
      /\ watcher'.files = store.watchPaths
           \cup UNION {{Lineage[f][j] : j \in 1 .. (At(f, directories) - 1)} : f \in store.watchPaths}
      /\ watcher'.queue = {e \in watcher.queue : e[1] = None \/ e[1] \in watcher'.dirs \cap watcher.dirs}
  BY RearmIs DEF FullInv
<1>2. RearmOK /\ StoreTyped(store) /\ Lasting \subseteq directories /\ watcher.dirs \subseteq directories
  BY <1>1 DEF FullInv, Watching, Typed, DirOK, WatcherTyped
<1>3. store.watchPaths \subseteq watcher'.files
  BY <1>1
<1>4. Attended(store.watchPaths, directories, watcher')
  BY <1>1 DEF Attended
<1>5. Pending(watcher) => Alarm(watcher')
  BY <1>1 DEF Pending, Alarm
<1>6. ASSUME NEW f \in store.watchPaths, Told(watcher, f)
      PROVE  Alarm(watcher')
  <2>0. f \in Files
    BY <1>2 DEF StoreTyped
  <2>1. f \in Files /\ Lineage[f][1] \in directories /\ 1 \in 1 .. Len(Lineage[f])
    BY <1>2, <1>6, <2>0, LineageFacts DEF Told
  <2>2. \A j \in 1 .. (1 - 1) : Lineage[f][j] \notin directories
    OBVIOUS
  <2>3. At(f, directories) = 1
    BY <1>2, <2>1, <2>2, AtIs
  <2>4. Lineage[f][1] \in watcher'.dirs
    BY <1>4, <2>3 DEF Attended
  <2>5. <<Lineage[f][1], f>>[1] = Lineage[f][1] /\ <<Lineage[f][1], f>>[2] = f
    OBVIOUS
  <2>6. <<Lineage[f][1], f>> \in watcher'.queue
    BY <1>1, <1>6, <2>4, <2>5 DEF Told
  <2>7. f \in watcher'.files
    BY <1>3
  <2> QED BY <2>5, <2>6, <2>7 DEF Alarm
<1>7. Alarm(watcher') \/ (\E f \in store.watchPaths : f \in raced) \/ Good(store, disk)
  BY <1>2, <1>5, <1>6 DEF RearmOK, Stale
<1>8. Resting(store', raced', disk', directories', watcher')
  BY <1>1, <1>3, <1>4, <1>7 DEF Resting
<1> QED BY <1>1, <1>8 DEF Watching, Reading

\* An event that matters starts the timer.
LEMMA DispatchWatch ==
  ASSUME FullInv, Dispatch
  PROVE  Watching'
<1>1. /\ load = None /\ UNCHANGED <<disk, directories, store, load, raced, events>>
      /\ watcher'.queue = {} /\ watcher'.files = watcher.files /\ watcher'.dirs = watcher.dirs
      /\ watcher'.timer = (watcher.timer \/ \E e \in watcher.queue : e[1] = None \/ e[2] \in watcher.files)
  BY DispatchIs DEF FullInv
<1>2. Resting(store, raced, disk, directories, watcher)
  BY <1>1 DEF FullInv, Watching
<1>3. Alarm(watcher) => Alarm(watcher')
  BY <1>1 DEF Alarm, Pending
<1>4. Attended(store.watchPaths, directories, watcher) => Attended(store.watchPaths, directories, watcher')
  BY <1>1 DEF Attended
<1>5. Resting(store', raced', disk', directories', watcher')
  BY <1>1, <1>2, <1>3, <1>4 DEF Resting
<1> QED BY <1>1, <1>5 DEF Watching, Reading

\* A load that has read nothing has read nothing wrong.
LEMMA FreshLoad ==
  ASSUME load' # None, load'.texts = <<>>, load'.absent = {}, load'.todo = {load'.root},
         \/ load'.kind = "replace" \/ store'.explicit
         \/ (Selected(store', disk') = load'.root /\ load'.found = (disk'[load'.root] # None)),
         store'.watchPaths = IF load'.kind = "replace" \/ store'.explicit THEN {load'.root} ELSE ToSet(Candidates),
         (store'.explicit /\ load'.kind # "replace") => load'.root = store'.root,
         (~store'.explicit /\ load'.kind # "replace") => load'.root \in ToSet(Candidates)
  PROVE  ReadOK'
<1>1. DOMAIN <<>> = {}
  OBVIOUS
<1>2. Reach(load')
  BY <1>1 DEF Reach
<1>3. StillChosen'
  BY DEF StillChosen
<1> QED BY <1>1, <1>2, <1>3 DEF ReadOK

LEMMA ReloadWatch ==
  ASSUME FullInv, BeginReload, UNCHANGED disk
  PROVE  Watching'
<1>1. /\ load' # None /\ load'.kind = "reload"
      /\ load'.root = Selected(store, disk) /\ load'.root \in Files
      /\ load'.found = (disk[load'.root] # None)
      /\ load'.todo = {load'.root} /\ load'.texts = <<>> /\ load'.absent = {}
      /\ store'.watchPaths = (IF store.explicit THEN {store.root} ELSE ToSet(Candidates))
      /\ store'.explicit = store.explicit /\ store'.root = store.root
  BY ReloadBegins DEF FullInv
<1>2. Selected(store', disk') = Selected(store, disk)
  BY <1>1, SelectedAlike
<1>3. store.explicit => load'.root = store.root
  BY <1>1 DEF Selected
<1>4. ~store.explicit => load'.root \in ToSet(Candidates)
  BY <1>1, SelectedFacts
<1>5. ReadOK'
  BY <1>1, <1>2, <1>3, <1>4, FreshLoad
<1> QED BY <1>1, <1>5 DEF Watching, Reading

LEMMA ReplaceWatch ==
  ASSUME FullInv, NEW f \in Files, ReplaceAction(f)
  PROVE  Watching'
<1>1. /\ load = None /\ Begin("replace", f, {f}) /\ UNCHANGED <<disk, directories, watcher, raced>>
  BY DEF ReplaceAction
<1>2. StoreTyped(store) /\ raced \subseteq Files /\ {f} \in SUBSET Files /\ "replace" \in {"reload", "replace"}
  BY DEF FullInv, Typed
<1>3. /\ StoreTyped(store') /\ load' # None
      /\ store'.watchPaths = {f} /\ store'.config = store.config /\ store'.root = store.root
      /\ store'.explicit = store.explicit /\ store'.fileMissing = store.fileMissing
      /\ load'.kind = "replace" /\ load'.root = f
      /\ load'.todo = {f} /\ load'.texts = <<>> /\ load'.absent = {}
      /\ load'.saved = [x \in Learned |-> store[x]] /\ load'.missed = raced
  BY <1>1, <1>2, BeginEffect
<1>4. ReadOK'
  BY <1>3, FreshLoad
<1>5. Restored(store', load') = store
  <2>1. store = [x \in StoreFields |-> store[x]] /\ DOMAIN store' = StoreFields
    BY <1>2, <1>3 DEF StoreTyped
  <2>2. \A x \in StoreFields : (IF x \in Learned THEN load'.saved[x] ELSE store'[x]) = store[x]
    BY <1>3 DEF StoreFields
  <2>3. Restored(store', load') = [x \in StoreFields |-> store[x]]
    BY <2>1, <2>2 DEF Restored
  <2> QED BY <2>1, <2>3
<1>6. Resting(store, raced, disk, directories, watcher)
  BY <1>1 DEF FullInv, Watching
<1>7. Resting(Restored(store', load'), load'.missed, disk', directories', watcher')
  BY <1>1, <1>3, <1>5, <1>6
<1> QED BY <1>3, <1>4, <1>7 DEF Watching, Reading

\* The session starts with a load, and nothing is watched before it is over.
LEMMA InitFull == Init => FullInv
<1> SUFFICES ASSUME Init PROVE FullInv
  OBVIOUS
<1>1. /\ Typed /\ load # None /\ load.kind = "load" /\ load.texts = <<>> /\ load.absent = {}
      /\ load.todo = {load.root} /\ load.root = store.root /\ load.root = Selected(store, disk)
      /\ load.found = (disk[load.root] # None)
      /\ store.watchPaths = IF store.explicit THEN {store.root} ELSE ToSet(Candidates)
  BY InitIs
<1>2. DOMAIN <<>> = {}
  OBVIOUS
<1>3. Reach(load)
  BY <1>1, <1>2 DEF Reach
<1>4. StillChosen
  BY <1>1 DEF StillChosen
<1>5. ~store.explicit => load.root \in ToSet(Candidates)
  BY <1>1, SelectedFacts
<1>6. ReadOK
  BY <1>1, <1>2, <1>3, <1>4, <1>5 DEF ReadOK
<1>7. Watching
  BY <1>1, <1>6 DEF Watching, Reading
<1> QED BY <1>1, <1>7, InitHolds, InitDir DEF FullInv

\* Of the commands and the timer, each begins a load.
LEMMA BeginsFull ==
  ASSUME FullInv, \/ TimerExpires \/ ReloadAction \/ \E f \in Files : ReplaceAction(f)
  PROVE  FullInv'
<1>1. UNCHANGED <<disk, directories>>
  BY DEF TimerExpires, ReloadAction, ReplaceAction
<1>2. IInv'
  BY BeginsKeep DEF FullInv
<1>3. Typed'
  BY TimerTyped, ReloadActionTyped, ReplaceActionTyped DEF FullInv
<1>4. Watching'
  <2>1. CASE BeginReload
    BY <1>1, <2>1, ReloadWatch
  <2>2. CASE \E f \in Files : ReplaceAction(f)
    BY <2>2, ReplaceWatch
  <2> QED BY <2>1, <2>2 DEF TimerExpires, ReloadAction
<1>5. DirOK(disk', directories')
  BY <1>1 DEF FullInv
<1> QED BY <1>2, <1>3, <1>4, <1>5 DEF FullInv

\* Every step keeps what the watcher knows.
LEMMA StepFull ==
  ASSUME FullInv, [Next]_vars
  PROVE  FullInv'
<1>0. IInv /\ IInv' /\ DiskOK /\ Typed /\ DirOK(disk, directories)
  BY StepKeeps DEF FullInv, IInv
<1>1. ASSUME NEW f \in Files, ReadFile(f)
      PROVE  FullInv'
  <2>1. Typed' /\ Watching' /\ UNCHANGED <<disk, directories>>
    BY <1>0, <1>1, ReadFileTyped, ReadFileWatch DEF ReadFile
  <2> QED BY <1>0, <2>1 DEF FullInv
<1>2. ASSUME FinishStart
      PROVE  FullInv'
  <2>1. Typed' /\ Watching' /\ UNCHANGED <<disk, directories>>
    BY <1>0, <1>2, FinishStartTyped, FinishStartWatch DEF FinishStart
  <2> QED BY <1>0, <2>1 DEF FullInv
<1>3. ASSUME FinishReload
      PROVE  FullInv'
  <2>1. Typed' /\ Watching' /\ UNCHANGED <<disk, directories>>
    BY <1>0, <1>3, FinishReloadTyped, FinishReloadWatch DEF FinishReload
  <2> QED BY <1>0, <2>1 DEF FullInv
<1>4. ASSUME FinishReplace
      PROVE  FullInv'
  <2>1. Typed' /\ Watching' /\ UNCHANGED <<disk, directories>>
    BY <1>0, <1>4, FinishReplaceTyped, FinishReplaceWatch DEF FinishReplace
  <2> QED BY <1>0, <2>1 DEF FullInv
<1>5. ASSUME Rearm
      PROVE  FullInv'
  <2>1. Typed' /\ Watching' /\ UNCHANGED <<disk, directories>>
    BY <1>0, <1>5, RearmIs, RearmWatch
  <2> QED BY <1>0, <2>1 DEF FullInv
<1>6. ASSUME Dispatch
      PROVE  FullInv'
  <2>1. Typed' /\ Watching' /\ UNCHANGED <<disk, directories>>
    BY <1>0, <1>6, DispatchIs, DispatchWatch
  <2> QED BY <1>0, <2>1 DEF FullInv
<1>7. ASSUME NEW f \in Files, NEW t \in Texts \cup {None}, Edit(f, t)
      PROVE  FullInv'
  <2>1. Typed' /\ DirOK(disk', directories')
    BY <1>0, <1>7, EditIs, EditDir
  <2>2. Watching'
    BY <1>7, EditWatch
  <2> QED BY <1>0, <2>1, <2>2 DEF FullInv
<1>8. ASSUME NEW d \in Directories \ Lasting, MakeDirectory(d)
      PROVE  FullInv'
  <2>1. Typed' /\ DirOK(disk', directories')
    BY <1>0, <1>8, MakeIs, MakeDir
  <2>2. Watching'
    BY <1>8, MakeWatch
  <2> QED BY <1>0, <2>1, <2>2 DEF FullInv
<1>9. ASSUME NEW d \in Directories \ Lasting, RemoveDirectory(d)
      PROVE  FullInv'
  <2>1. Typed' /\ DirOK(disk', directories')
    BY <1>0, <1>9, RemoveIs, RemoveDir
  <2>2. Watching'
    BY <1>9, RemoveWatch
  <2> QED BY <1>0, <2>1, <2>2 DEF FullInv
<1>10. ASSUME UNCHANGED vars
       PROVE  FullInv'
  <2>1. UNCHANGED <<disk, directories, store, load, watcher, raced, events>>
    BY <1>10 DEF vars
  <2>2. StillChosen' = StillChosen
    BY <2>1 DEF StillChosen
  <2>3. Watching'
    BY <2>1, <2>2 DEF FullInv, Watching, Reading, ReadOK, RearmOK
  <2>4. Typed'
    BY <1>0, <2>1 DEF Typed
  <2> QED BY <1>0, <2>1, <2>3, <2>4 DEF FullInv
<1> QED
  BY <1>1, <1>2, <1>3, <1>4, <1>5, <1>6, <1>7, <1>8, <1>9, <1>10, BeginsFull
  DEF Next, LoopNext, OthersNext

\* The inductive invariant of the watcher, for any files, texts and directories.
THEOREM WatchInvariance == Spec => []FullInv
BY InitFull, StepFull, PTL DEF Spec

\* The state has its shape: nothing lies in a directory that is not there, and
\* between two loads every path of the store is among the names waited for.
THEOREM TypeCorrect == Spec => []TypeOK
<1>1. FullInv => TypeOK
  <2> SUFFICES ASSUME FullInv PROVE TypeOK
    OBVIOUS
  <2>1. /\ DiskOK /\ StoreTyped(store) /\ LoadTyped(load) /\ WatcherTyped(watcher, directories)
        /\ raced \subseteq Files /\ events \in 0 .. MaxEvents /\ DirOK(disk, directories)
        /\ load = None => store.watchPaths \subseteq watcher.files
    BY DEF FullInv, IInv, Typed, Watching, Resting
  <2>2. ASSUME NEW f \in Files, disk[f] # None
        PROVE  ToSet(Lineage[f]) \subseteq directories
    <3>1. /\ DOMAIN Lineage[f] = 1 .. Len(Lineage[f]) /\ 1 \in 1 .. Len(Lineage[f])
          /\ \A j \in 1 .. Len(Lineage[f]) : 1 <= j
      BY LineageFacts
    <3>2. \A j \in 1 .. Len(Lineage[f]) : Lineage[f][j] \in directories
      BY <2>1, <2>2, <3>1 DEF DirOK
    <3> QED BY <3>1, <3>2 DEF ToSet
  <2>3. /\ store = [f \in Learned \cup {"config", "root", "explicit", "fileMissing"} |-> store[f]]
        /\ store.config \in Config /\ store.root \in Files
        /\ store.diagnostics \subseteq Diagnosis /\ store.watchPaths \subseteq Files
        /\ {store.explicit, store.fileMissing, store.missingIncludes} \subseteq BOOLEAN
    BY <2>1 DEF StoreTyped, StoreFields
  <2> QED BY <2>1, <2>2, <2>3 DEF TypeOK, DiskOK, DirOK, LoadTyped, WatcherTyped
<1> QED BY <1>1, WatchInvariance, PTL

\* configuration.md: once nothing is pending the session runs what the files
\* say, or says why it cannot, unless a file was changed unseen while a load
\* was under way (ConfigStore, ConfigWatcher::watch, handleConfigReload).
THEOREM RestIsCurrent == Spec => []AtRestCurrent
<1>1. FullInv => AtRestCurrent
  <2> SUFFICES ASSUME FullInv, AtRest, raced \cap store.watchPaths = {}
               PROVE  Current(store, disk)
    BY DEF AtRestCurrent
  <2>1. Resting(store, raced, disk, directories, watcher)
    BY DEF FullInv, Watching, AtRest
  <2>2. ~Alarm(watcher)
    BY DEF AtRest, Alarm, Pending
  <2> QED BY <2>1, <2>2 DEF Resting, Good
<1> QED BY <1>1, WatchInvariance, PTL
=============================================================================
