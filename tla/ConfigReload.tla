----------------------------- MODULE ConfigReload -----------------------------
(***************************************************************************)
(* The configuration of a running session (src/config/store.cpp) and the   *)
(* watcher that reloads it (src/config/config_watcher.cpp).                *)
(*                                                                         *)
(* The compositor has one thread, but the files belong to everybody: an    *)
(* editor may write between the reading of two files, and between reading  *)
(* a file and watching its directory.  A load is therefore one step per    *)
(* file, and anything may happen on disk between two steps.                *)
(*                                                                         *)
(* A text is what the loader tells apart in a file.  Symbolic links,       *)
(* effect sources and the values of a configuration are left out, and a    *)
(* path that is no regular file counts as a broken text.                   *)
(***************************************************************************)
EXTENDS Integers, FiniteSets, Sequences, SequencesExt

CONSTANTS
  Files,       \* the paths of configuration files
  Directories, \* the directories they may lie in
  Lasting,     \* the directories nobody removes
  Lineage,     \* a file's directory, the directory of that one, and so on up
  Candidates,  \* m_implicitCandidates at startup: where a configuration is looked for, in order
  Texts,       \* what a file may hold
  FirstDisks,  \* what the files hold when the session starts
  None,        \* no file there; no load under way
  MaxEvents    \* bound: edits by others and commands of the user

Text == [state : {"good", "invalid", "broken"},  \* invalid: valid TOML, an error in a value
         includes : SUBSET Files, optional : SUBSET Files, drm : BOOLEAN]

\* What a configuration is made of, and what a load is while it is under way.
Config    == UNION {[fs -> Texts] : fs \in SUBSET Files}
Diagnosis == {"error", "absent", "drm"} \X Files
Saved     == [diagnostics : SUBSET Diagnosis, missingIncludes : BOOLEAN, watchPaths : SUBSET Files]
Load      == [kind : {"load", "reload", "replace", "rearm", "refused"}, root : Files,
              found : BOOLEAN, todo : SUBSET Files, texts : Config, absent : SUBSET Files,
              saved : Saved, missed : SUBSET Files]

\* A directory lies in one other; the last of a lineage is the first that lasts.
ASSUME ConfigAssumption ==
  /\ Candidates \in Seq(Files) /\ Candidates # <<>>
  /\ Texts \subseteq Text /\ None \notin Texts /\ None \notin Directories /\ None \notin Load
  /\ Lasting \subseteq Directories /\ Lineage \in [Files -> Seq(Directories)]
  /\ \A f \in Files :
       /\ Lineage[f] # <<>>
       /\ \A i \in DOMAIN Lineage[f] : Lineage[f][i] \in Lasting <=> i = Len(Lineage[f])
  /\ \A f, g \in Files : \A i \in DOMAIN Lineage[f], j \in DOMAIN Lineage[g] :
       Lineage[f][i] = Lineage[g][j] =>
         /\ Len(Lineage[f]) - i = Len(Lineage[g]) - j
         /\ \A n \in 0..(Len(Lineage[f]) - i) : Lineage[f][i + n] = Lineage[g][j + n]
  /\ FirstDisks \subseteq [Files -> Texts \cup {None}]
  /\ MaxEvents \in Nat

VARIABLES
  disk,        \* the text of every file
  directories, \* the directories that exist
  store,       \* ConfigStore
  load,        \* the load under way (missed: ghost, raced as it was when the load began)
  watcher,     \* ConfigWatcher and the kernel's side of its inotify descriptor
  raced,       \* ghost: files changed unnoticed since they were read, while a load was under way
  events       \* how many events may still happen

vars == <<disk, directories, store, load, watcher, raced, events>>

-----------------------------------------------------------------------------
(* What a load makes of the texts it read.                                 *)

Defaults == <<>>  \* the built-in configuration, made of no file

Named(text) == IF text.state = "broken" THEN {} ELSE text.includes \cup text.optional

Holds(l, state) == {f \in DOMAIN l.texts : l.texts[f].state = state}
AsksDrm(l) == \E f \in DOMAIN l.texts : l.texts[f].state # "broken" /\ l.texts[f].drm
Required(l) ==
  {f \in l.absent : \E g \in DOMAIN l.texts : l.texts[g].state # "broken" /\ f \in l.texts[g].includes}

Undecided(l) == l.absent # {} /\ AsksDrm(l)

\* Mutation: an optional include that is missing does not hold up [drm].
OutcomeOfRequired(l) ==
  IF l.root \in l.absent THEN "missing"
  ELSE IF Holds(l, "broken") # {} \/ (Required(l) # {} /\ AsksDrm(l)) THEN "fatal"
  ELSE IF Holds(l, "invalid") # {} THEN (IF AsksDrm(l) THEN "fatal" ELSE "defaults")
  ELSE "loaded"

\* ConfigParseOutcome
Outcome(l) ==
  IF l.root \in l.absent THEN "missing"
  ELSE IF Holds(l, "broken") # {} \/ Undecided(l) THEN "fatal"
  ELSE IF Holds(l, "invalid") # {} THEN (IF AsksDrm(l) THEN "fatal" ELSE "defaults")
  ELSE "loaded"

\* The errors and the missing includes: the values are looked at only when all
\* files are well-formed, and a root that nobody named may be missing.
Diagnostics(l, explicit) ==
  IF l.root \in l.absent THEN {<<"absent", f>> : f \in {g \in {l.root} : explicit}}
  ELSE {<<"error", f>> : f \in Holds(l, "broken")}
    \cup {<<"absent", f>> : f \in Required(l)}
    \cup {<<"drm", f>> : f \in {g \in {l.root} : Undecided(l)}}
    \cup {<<"error", f>> : f \in {g \in Holds(l, "invalid") : Holds(l, "broken") = {} /\ ~Undecided(l)}}

\* selectDefaultConfig: the first candidate that exists, else the first of all.
Selected(s, d) ==
  LET there == SelectInSeq(Candidates, LAMBDA f : d[f] # None)
  IN IF s.explicit THEN s.root ELSE IF there # 0 THEN Candidates[there] ELSE Candidates[1]

\* Nothing has changed of what the root of this load was chosen by.
StillChosen ==
  \/ load.kind = "replace" \/ store.explicit
  \/ Selected(store, disk) = load.root /\ load.found = (disk[load.root] # None)

-----------------------------------------------------------------------------
(* Loading.                                                                *)

Learned == {"diagnostics", "missingIncludes", "watchPaths"}

\* beginLoad empties the diagnostics and the watch paths; replace puts away
\* what it may have to restore.
Begin(kind, root, paths) ==
  /\ store' = [store EXCEPT !.diagnostics = {}, !.missingIncludes = FALSE, !.watchPaths = paths]
  /\ load' = [kind |-> kind, root |-> root, found |-> disk[root] # None,
              todo |-> {root}, texts |-> <<>>, absent |-> {},
              saved |-> [f \in Learned |-> store[f]], missed |-> raced]

BeginReload ==
  Begin("reload", Selected(store, disk),
        IF store.explicit THEN {store.root} ELSE ToSet(Candidates))

\* Mutation: reading is an event too, as if every access were asked for.
ReadIsNoticed(f) ==
  /\ load # None /\ f \in load.todo
  /\ LET read   == DOMAIN load.texts \cup {g \in {f} : disk[g] # None}
         absent == load.absent \cup ({f} \ read)
         more   == IF disk[f] = None THEN {} ELSE Named(disk[f])
     IN load' = [load EXCEPT !.texts = [g \in read |-> IF g = f THEN disk[g] ELSE load.texts[g]],
                             !.absent = absent, !.todo = (@ \cup more) \ (read \cup absent)]
  /\ raced' = IF StillChosen THEN raced \ {f} ELSE raced
  /\ watcher' = [watcher EXCEPT !.queue =
       IF Head(Lineage[f]) \in watcher.dirs THEN @ \cup {<<Head(Lineage[f]), f>>} ELSE @]
  /\ UNCHANGED <<disk, directories, store, events>>

\* A file is read, or found missing; the files it includes come next, each once.
\* The root was chosen before: it, or one that goes before it, may have come since.
ReadFile(f) ==
  /\ load # None /\ f \in load.todo
  /\ LET read   == DOMAIN load.texts \cup {g \in {f} : disk[g] # None}
         absent == load.absent \cup ({f} \ read)
         more   == IF disk[f] = None THEN {} ELSE Named(disk[f])
     IN load' = [load EXCEPT !.texts = [g \in read |-> IF g = f THEN disk[g] ELSE load.texts[g]],
                             !.absent = absent, !.todo = (@ \cup more) \ (read \cup absent)]
  /\ raced' = IF StillChosen THEN raced \ {f} ELSE raced
  /\ UNCHANGED <<disk, directories, store, watcher, events>>

\* What a load leaves in the store whether it succeeds or not.
Learn(s) ==
  [s EXCEPT !.diagnostics = Diagnostics(load, s.explicit \/ load.kind = "replace"),
            !.missingIncludes = Required(load) # {},
            !.watchPaths = IF load.root \in load.absent THEN @
                           ELSE @ \cup DOMAIN load.texts \cup load.absent]

Commit(s) ==
  [s EXCEPT !.config = IF Outcome(load) = "loaded" THEN load.texts ELSE Defaults,
            !.root = load.root, !.fileMissing = Outcome(load) = "missing"]

Loaded == load # None /\ load.todo = {}

\* load: a session does not start on a broken file or without the one it was given.
FinishStart ==
  LET refused == Outcome(load) = "fatal" \/ (Outcome(load) = "missing" /\ store.explicit)
  IN /\ Loaded /\ load.kind = "load"
     /\ store' = IF refused THEN Learn(store) ELSE Commit(Learn(store))
     /\ load' = [load EXCEPT !.kind = IF refused THEN "refused" ELSE "rearm"]
     /\ UNCHANGED <<disk, directories, watcher, raced, events>>

\* Mutation: a reload that failed does not rearm the watches.
FinishReloadUnarmed ==
  LET nowhere == ~store.explicit /\ ~load.found /\ Outcome(load) = "missing"
      taken   == Outcome(load) = "loaded" \/ nowhere
  IN /\ Loaded /\ load.kind = "reload"
     /\ store' = IF taken THEN Commit(Learn(store)) ELSE Learn(store)
     /\ load' = IF taken THEN [load EXCEPT !.kind = "rearm"] ELSE None
     /\ UNCHANGED <<disk, directories, watcher, raced, events>>

\* Mutation: a file that is found and gone again leaves the defaults.
FinishReloadUnasked ==
  LET taken == Outcome(load) \in {"loaded", "missing"}
  IN /\ Loaded /\ load.kind = "reload"
     /\ store' = IF taken THEN Commit(Learn(store)) ELSE Learn(store)
     /\ load' = [load EXCEPT !.kind = "rearm"]
     /\ UNCHANGED <<disk, directories, watcher, raced, events>>

\* reload: the previous configuration stays unless the new one loaded, or no
\* candidate was there at all.  handleConfigReload rearms the watches anyway.
FinishReload ==
  LET nowhere == ~store.explicit /\ ~load.found /\ Outcome(load) = "missing"
  IN /\ Loaded /\ load.kind = "reload"
     /\ store' = IF Outcome(load) = "loaded" \/ nowhere THEN Commit(Learn(store)) ELSE Learn(store)
     /\ load' = [load EXCEPT !.kind = "rearm"]
     /\ UNCHANGED <<disk, directories, watcher, raced, events>>

\* replace: all or nothing, and the watches are rearmed only for all.
FinishReplace ==
  /\ Loaded /\ load.kind = "replace"
  /\ IF Outcome(load) = "loaded"
     THEN /\ store' = [Commit(Learn(store)) EXCEPT !.explicit = TRUE]
          /\ load' = [load EXCEPT !.kind = "rearm"]
          /\ UNCHANGED raced
     ELSE /\ store' = [f \in DOMAIN store |-> IF f \in Learned THEN load.saved[f] ELSE store[f]]
          /\ load' = None
          /\ raced' = raced \cup load.missed
  /\ UNCHANGED <<disk, directories, watcher, events>>

-----------------------------------------------------------------------------
(* Watching.                                                               *)

\* The nearest ancestor that exists is watched, for the name below it.
Depth(f) == CHOOSE i \in DOMAIN Lineage[f] :
  /\ Lineage[f][i] \in directories
  /\ \A j \in 1..(i - 1) : Lineage[f][j] \notin directories

Requested(paths)  == paths \cup UNION {{Lineage[f][j] : j \in 1..(Depth(f) - 1)} : f \in paths}

\* Mutation: a directory that is not there is not waited for.
ToWatchExisting(paths) == {Head(Lineage[f]) : f \in paths} \cap directories

ToWatch(paths) == {Lineage[f][Depth(f)] : f \in paths}

\* watch: events of a descriptor that goes away are not matched any more,
\* except that the directory itself went.
Rearm ==
  /\ load # None /\ load.kind = "rearm"
  /\ LET dirs == ToWatch(store.watchPaths)
     IN watcher' = [watcher EXCEPT
          !.files = Requested(store.watchPaths), !.dirs = dirs,
          !.queue = {e \in @ : e[1] = None \/ e[1] \in dirs \cap watcher.dirs}]
  /\ load' = None
  /\ UNCHANGED <<disk, directories, store, raced, events>>

\* onInotify: the whole queue is read, and each name that matches arms the timer.
Dispatch ==
  /\ load = None /\ watcher.queue # {}
  /\ LET changed == \E e \in watcher.queue : e[1] = None \/ e[2] \in watcher.files
     IN watcher' = [watcher EXCEPT !.queue = {}, !.timer = @ \/ changed]
  /\ UNCHANGED <<disk, directories, store, load, raced, events>>

\* onTimer: 150 ms after the last event that mattered.
TimerExpires ==
  /\ load = None /\ watcher.timer
  /\ BeginReload
  /\ watcher' = [watcher EXCEPT !.timer = FALSE]
  /\ UNCHANGED <<disk, directories, raced, events>>

-----------------------------------------------------------------------------
(* Everybody else.                                                         *)

Refused == load # None /\ load.kind = "refused"
Happens == ~Refused /\ events > 0 /\ events' = events - 1

Notice(w, dir, name) == IF dir \in w.dirs THEN [w EXCEPT !.queue = @ \cup {<<dir, name>>}] ELSE w

Edit(f, text) ==
  LET dir == Head(Lineage[f])
  IN /\ dir \in directories /\ disk[f] # text /\ Happens
     /\ disk' = [disk EXCEPT ![f] = text]
     /\ watcher' = Notice(watcher, dir, f)
     /\ raced' = IF load # None /\ dir \notin watcher.dirs THEN raced \cup {f} ELSE raced
     /\ UNCHANGED <<directories, store, load>>

Parent(d) ==
  LET f == CHOOSE f \in Files : d \in ToSet(Front(Lineage[f]))
      i == CHOOSE i \in DOMAIN Lineage[f] : Lineage[f][i] = d
  IN Lineage[f][i + 1]

MakeDirectory(d) ==
  /\ d \notin directories /\ Parent(d) \in directories /\ Happens
  /\ directories' = directories \cup {d}
  /\ watcher' = Notice(watcher, Parent(d), d)
  /\ UNCHANGED <<disk, store, load, raced>>

\* What is removed with a directory: it, and those below it.
Gone(d) ==
  {d} \cup {e \in Directories : \E f \in Files : \E i, j \in DOMAIN Lineage[f] :
              i < j /\ Lineage[f][i] = e /\ Lineage[f][j] = d}

\* A directory that goes takes its files and its watch with it.
RemoveDirectory(d) ==
  LET inside == {f \in Files : d \in ToSet(Lineage[f])}
      gone   == Gone(d)
      told   == Notice(watcher, Parent(d), d)
  IN /\ d \in directories \ Lasting /\ Happens
     /\ directories' = directories \ gone
     /\ disk' = [f \in Files |-> IF f \in inside THEN None ELSE disk[f]]
     /\ watcher' = [told EXCEPT !.dirs = @ \ gone,
                                !.queue = IF gone \cap watcher.dirs # {} THEN @ \cup {<<None, d>>} ELSE @]
     /\ raced' = IF load # None /\ gone \cap watcher.dirs = {}
                 THEN raced \cup {f \in inside : disk[f] # None} ELSE raced
     /\ UNCHANGED <<store, load>>

\* config-reload, by keybind or IPC.
ReloadAction ==
  /\ load = None /\ Happens /\ BeginReload
  /\ UNCHANGED <<disk, directories, watcher, raced>>

\* config-replace <path>
ReplaceAction(f) ==
  /\ load = None /\ Happens /\ Begin("replace", f, {f})
  /\ UNCHANGED <<disk, directories, watcher, raced>>

\* The session starts: nothing is watched before the first load is over.
Init ==
  /\ disk \in FirstDisks
  /\ directories = Lasting \cup UNION {ToSet(Lineage[f]) : f \in {g \in Files : disk[g] # None}}
  /\ \E explicit \in BOOLEAN :
       LET root == Selected([explicit |-> explicit, root |-> Candidates[1]], disk)
           paths == IF explicit THEN {root} ELSE ToSet(Candidates)
           blank == [config |-> Defaults, root |-> root, explicit |-> explicit, fileMissing |-> FALSE,
                     diagnostics |-> {}, missingIncludes |-> FALSE, watchPaths |-> paths]
       IN /\ store = blank
          /\ load = [kind |-> "load", root |-> root, found |-> disk[root] # None,
                     todo |-> {root}, texts |-> <<>>, absent |-> {},
                     saved |-> [f \in Learned |-> blank[f]], missed |-> {}]
  /\ watcher = [files |-> {}, dirs |-> {}, queue |-> {}, timer |-> FALSE]
  /\ raced = {} /\ events = MaxEvents

LoopNext ==
  \/ \E f \in Files : ReadFile(f)
  \/ FinishStart \/ FinishReload \/ FinishReplace \/ Rearm \/ Dispatch \/ TimerExpires

OthersNext ==
  \/ \E f \in Files, t \in Texts \cup {None} : Edit(f, t)
  \/ \E d \in Directories \ Lasting : MakeDirectory(d) \/ RemoveDirectory(d)
  \/ ReloadAction \/ \E f \in Files : ReplaceAction(f)

Next == LoopNext \/ OthersNext

\* The event loop returns to a source that is ready; nobody has to edit.
Fairness == WF_vars(LoopNext)

Spec == Init /\ [][Next]_vars /\ Fairness

-----------------------------------------------------------------------------
(* Properties.                                                             *)

\* The shape of the state; nothing lies in a directory that is not there, and
\* while no load is under way the watcher waits for what the store asks for.
TypeOK ==
  /\ disk \in [Files -> Texts \cup {None}]
  /\ Lasting \subseteq directories /\ directories \subseteq Directories
  /\ \A f \in Files : disk[f] # None => ToSet(Lineage[f]) \subseteq directories
  /\ store = [f \in Learned \cup {"config", "root", "explicit", "fileMissing"} |-> store[f]]
  /\ store.config \in Config /\ store.root \in Files
  /\ store.diagnostics \subseteq Diagnosis /\ store.watchPaths \subseteq Files
  /\ {store.explicit, store.fileMissing, store.missingIncludes} \subseteq BOOLEAN
  /\ load \in Load \cup {None}
  /\ load # None => load.todo \cap (load.absent \cup DOMAIN load.texts) = {}
  /\ watcher = [f \in {"files", "dirs", "queue", "timer"} |-> watcher[f]]
  /\ watcher.files \subseteq Files \cup Directories /\ watcher.dirs \subseteq directories
  /\ load = None => store.watchPaths \subseteq watcher.files
  /\ watcher.timer \in BOOLEAN /\ raced \subseteq Files /\ events \in 0..MaxEvents

\* The files the root leads to: those of every set that has it and whatever
\* its members name.
Reached(root, d) ==
  {f \in Files : \A S \in SUBSET Files :
     (root \in S /\ \A g \in S : d[g] # None => Named(d[g]) \subseteq S) => f \in S}

\* What the files mean to a store when they are read at once.
Meaning(s, d) ==
  LET root == Selected(s, d)
  IN [root |-> root,
      texts |-> [f \in {g \in Reached(root, d) : d[g] # None} |-> d[f]],
      absent |-> {f \in Reached(root, d) : d[f] = None}]

\* The store says of the files what they mean, and has it in effect if it can.
Current(s, d) ==
  LET meaning == Meaning(s, d)
  IN /\ s.diagnostics = Diagnostics(meaning, s.explicit)
     /\ s.missingIncludes = (Required(meaning) # {})
     /\ Outcome(meaning) = "loaded" => s.config = meaning.texts /\ ~s.fileMissing
     /\ (Outcome(meaning) = "missing" /\ ~s.explicit) => s.config = Defaults /\ s.fileMissing

AtRest == load = None /\ watcher.queue = {} /\ ~watcher.timer

\* configuration.md: the session runs what the files say, as soon as nothing
\* is pending, or, when they cannot be loaded, says why not.  Files that were
\* missing and are created later, in directories that were missing too, and
\* edits during a load are all noticed; what may be missed is an edit made
\* while a load is under way in a directory that was not watched before.
AtRestCurrent == (AtRest /\ raced \cap store.watchPaths = {}) => Current(store, disk)

\* configuration.md, "an incomplete GPU exclusion policy": a configuration
\* that sets [drm] has all its includes, though files come and go while it is
\* being read, and none in effect holds an error.
PolicyIsWhole ==
  \A f \in DOMAIN store.config :
    /\ store.config[f].state = "good"
    /\ store.config[f].drm =>
         \A g \in DOMAIN store.config : Named(store.config[g]) \subseteq DOMAIN store.config

\* store.h: "on failure the previous configuration is kept", by a reload and
\* by a replacement; a session falls back to the defaults only where no file
\* is found, or one that it was started on holds an error.
PreviousIsKept ==
  [][store'.config # store.config =>
       \/ Outcome(load) = "loaded" /\ store'.config = load.texts
       \/ load.kind = "reload" /\ store'.fileMissing /\ ~load.found /\ ~store.explicit]_vars

\* Once the files are left alone the session comes to rest: a reload does not
\* wake the watcher that asked for it.
ComesToRest == <>[](AtRest \/ Refused)
=============================================================================
