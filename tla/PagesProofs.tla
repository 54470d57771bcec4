----------------------------- MODULE PagesProofs -----------------------------
(***************************************************************************)
(* For every value of the constants: the Role catalog and its presets      *)
(* (Catalog), the version check (VersionCheck), the start of a design      *)
(* (DesignStart) and the plans of the Teams page (TeamPlan) keep what      *)
(* MCPages checks of them.  Each part has an inductive invariant of its    *)
(* own; the other parts leave it alone.                                    *)
(***************************************************************************)
EXTENDS MCPages, Sequences, FiniteSetTheorems, TLAPS

(***************************************************************************)
(* I.  The Role catalog.                                                   *)
(***************************************************************************)

(* Types of what is remembered. *)
Rows == {None} \cup [preset : BOOLEAN, same : BOOLEAN, stamp : Nat]
RowSets == [RoleIds -> Rows]
RoleReads == [rolesRev : Nat, rows : RowSets]
PrefReads == [prefsRev : Nat, imported : BOOLEAN, seen : SUBSET Templates, max : Nat]

EditTasks ==
  [kind : {"edit"}, at : {"open", "editing", "reading", "writing", "id-taken", "modified", "deleted"},
   id : RoleIds, base : Rows, create : BOOLEAN, opened : {None} \cup RowSets, agreed : BOOLEAN,
   tries : Nat, latest : {None} \cup RoleReads]
RawTasks ==
  [kind : {"delete", "copy"}, at : {"read"}, id : RoleIds]
    \cup [kind : {"delete", "copy"}, at : {"write"}, id : RoleIds, read : RoleReads]
PresetTasks ==
  [kind : {"import", "sync", "record"}, auto : BOOLEAN, no : Nat,
   at : {"preview", "choose", "roles", "prefs", "reading", "write", "record", "recording"},
   roles : {None} \cup RoleReads, prefs : {None} \cup PrefReads, rows : {None} \cup RowSets,
   read : {None} \cup RoleReads \cup PrefReads \cup SUBSET Templates, tries : Nat, clean : BOOLEAN]
LimitTasks == [kind : {"max"}, at : {"open"}] \cup [kind : {"max"}, at : {"editing"}, read : PrefReads]
Tasks == {Presets!NoTask} \cup EditTasks \cup RawTasks \cup PresetTasks \cup LimitTasks

Stores == [rolesRev : Nat, rows : RowSets, prefsRev : Nat, imported : BOOLEAN,
           seen : SUBSET Templates, max : Nat]
LostSets == SUBSET (RoleIds \cup {"max", "prefs"})
Histories == [lost : LostSets, back : SUBSET Templates,
              deleted : SUBSET Templates, ever : SUBSET RoleIds, unrecorded : SUBSET Nat]
Phases == [at : {"idle", "running", "over"}, notice : {None} \cup PresetTasks]

CatalogShape ==
  /\ store \in Stores /\ history \in Histories
  /\ phase \in [Windows -> Phases] /\ task \in [Windows -> Tasks]
  /\ done \in [tasks : Nat, failures : Nat, stamps : Nat]

(* What is true of anything that was read; s is the store and h the history. *)
\* A preset was written to the catalog, or the record says so.
Touched(s, h) == s.imported \/ h.unrecorded # {}
\* A row that was in the document: a preset is one that was imported.
RowTold(row, s, h) == row # None /\ row.preset => Touched(s, h)
RowsTold(rows, s, h) ==
  /\ \A i \in RoleIds : RowTold(rows[i], s, h)
  /\ \A i \in Templates : Presets!IsTemplate(rows, i) => i \in h.ever

RoleNote(r, s, h) ==
  /\ r.rolesRev <= s.rolesRev /\ RowsTold(r.rows, s, h)
  /\ r.rolesRev = s.rolesRev => r.rows = s.rows
PrefNote(r, s, h) ==
  /\ r.prefsRev <= s.prefsRev /\ r.seen \subseteq h.ever
  /\ r.prefsRev = s.prefsRev => r.imported = s.imported /\ r.seen = s.seen /\ r.max = s.max

EditHolds(t, s, h) ==
  /\ RowTold(t.base, s, h) /\ (t.create => t.base = None)
  /\ t.at = "writing" =>
       /\ t.latest \in RoleReads /\ RoleNote(t.latest, s, h)
       /\ ~t.agreed => t.latest.rows[t.id] = t.base
RawHolds(t, s, h) ==
  t.at = "write" => RoleNote(t.read, s, h) /\ t.read.rows[t.id] # None
PresetHolds(t, s, h) ==
  /\ t.kind = "sync" => ~t.auto
  /\ t.at # "preview" => t.roles # None /\ t.prefs # None
  /\ t.roles # None => t.roles \in RoleReads /\ RoleNote(t.roles, s, h)
  /\ t.prefs # None => t.prefs \in PrefReads /\ PrefNote(t.prefs, s, h)
  /\ t.at = "prefs" => t.read \in RoleReads
  /\ t.at \in {"reading", "write"} => t.read \in SUBSET Templates
  /\ t.at \in {"record", "recording"} => t.rows \in RowSets /\ RowsTold(t.rows, s, h)
  /\ t.at = "recording" => t.read \in PrefReads /\ PrefNote(t.read, s, h)
  /\ (t.at = "write" /\ t.auto /\ t.clean /\ t.roles.rolesRev = s.rolesRev) => h.deleted = {}
LimitHolds(t, s, h) == t.at = "editing" => PrefNote(t.read, s, h)

TaskHolds(t, s, h) ==
  /\ t.kind = "edit" => EditHolds(t, s, h)
  /\ t.kind \in {"delete", "copy"} => RawHolds(t, s, h)
  /\ t.kind \in {"import", "sync", "record"} => PresetHolds(t, s, h)
  /\ t.kind = "max" => LimitHolds(t, s, h)
\* The notice of an import without its record can still record it.
NoticeHolds(n, s, h) ==
  n # None => /\ n \in PresetTasks
              /\ n.roles \in RoleReads /\ n.prefs \in PrefReads /\ n.rows \in RowSets
              /\ n.roles # None /\ n.prefs # None
              /\ RoleNote(n.roles, s, h) /\ PrefNote(n.prefs, s, h) /\ RowsTold(n.rows, s, h)

StoreHolds(s, h) ==
  /\ RowsTold(s.rows, s, h) /\ s.seen \subseteq h.ever
  /\ h.deleted # {} => Touched(s, h)
  /\ h.lost = {} /\ h.back = {}
CatalogInv ==
  /\ CatalogShape /\ StoreHolds(store, history)
  /\ \A w \in Windows : TaskHolds(task[w], store, history) /\ NoticeHolds(phase[w].notice, store, history)

(* What a step may do to the documents. *)
Later(s, h, s2, h2) ==
  /\ s.rolesRev <= s2.rolesRev /\ s.prefsRev <= s2.prefsRev /\ h.ever \subseteq h2.ever
  /\ Touched(s, h) => Touched(s2, h2)
  /\ s2.rolesRev = s.rolesRev => s2.rows = s.rows /\ h2.deleted = h.deleted
  /\ s2.prefsRev = s.prefsRev => s2.imported = s.imported /\ s2.seen = s.seen /\ s2.max = s.max

LEMMA LaterRefl ==
  ASSUME NEW s \in Stores, NEW h
  PROVE  Later(s, h, s, h)
BY DEF Later, Stores

LEMMA NotesStay ==
  ASSUME NEW s \in Stores, NEW s2 \in Stores, NEW h, NEW h2, Later(s, h, s2, h2)
  PROVE  /\ \A rows : RowsTold(rows, s, h) => RowsTold(rows, s2, h2)
         /\ \A row : RowTold(row, s, h) => RowTold(row, s2, h2)
         /\ \A r \in RoleReads : RoleNote(r, s, h) => RoleNote(r, s2, h2)
         /\ \A r \in PrefReads : PrefNote(r, s, h) => PrefNote(r, s2, h2)
<1>1. \A row : RowTold(row, s, h) => RowTold(row, s2, h2)
  BY DEF RowTold, Later
<1>2. \A rows : RowsTold(rows, s, h) => RowsTold(rows, s2, h2)
  BY <1>1 DEF RowsTold, Later
<1>3. \A r \in RoleReads : RoleNote(r, s, h) => RoleNote(r, s2, h2)
  BY <1>2 DEF RoleNote, Later, Stores, RoleReads
<1>4. \A r \in PrefReads : PrefNote(r, s, h) => PrefNote(r, s2, h2)
  BY DEF PrefNote, Later, Stores, PrefReads
<1> QED
  BY <1>1, <1>2, <1>3, <1>4

LEMMA TaskKinds ==
  ASSUME NEW t \in Tasks
  PROVE  /\ t.kind = "edit" => t \in EditTasks
         /\ t.kind \in {"delete", "copy"} => t \in RawTasks
         /\ t.kind \in {"import", "sync", "record"} => t \in PresetTasks
         /\ t.kind = "max" => t \in LimitTasks
BY DEF Tasks, Presets!NoTask, EditTasks, RawTasks, PresetTasks, LimitTasks

LEMMA TaskStays ==
  ASSUME NEW s \in Stores, NEW s2 \in Stores, NEW h, NEW h2, Later(s, h, s2, h2),
         NEW t \in Tasks, TaskHolds(t, s, h)
  PROVE  TaskHolds(t, s2, h2)
<1>1. CASE t.kind = "edit"
  BY <1>1, NotesStay DEF TaskHolds, EditHolds
<1>2. CASE t.kind \in {"delete", "copy"}
  <2>1. t \in RawTasks
    BY <1>2, TaskKinds
  <2>2. t.at = "write" => t.read \in RoleReads
    BY <2>1 DEF RawTasks
  <2> QED
    BY <1>2, <2>2, NotesStay DEF TaskHolds, RawHolds
<1>3. CASE t.kind \in {"import", "sync", "record"}
  <2>1. PresetHolds(t, s, h)
    BY <1>3 DEF TaskHolds
  <2>2. t.roles # None => t.roles \in RoleReads /\ RoleNote(t.roles, s2, h2)
    BY <2>1, NotesStay DEF PresetHolds
  <2>3. t.prefs # None => t.prefs \in PrefReads /\ PrefNote(t.prefs, s2, h2)
    BY <2>1, NotesStay DEF PresetHolds
  <2>4. t.at \in {"record", "recording"} => t.rows \in RowSets /\ RowsTold(t.rows, s2, h2)
    BY <2>1, NotesStay DEF PresetHolds
  <2>5. t.at = "recording" => t.read \in PrefReads /\ PrefNote(t.read, s2, h2)
    BY <2>1, NotesStay DEF PresetHolds
  <2>6. (t.at = "write" /\ t.auto /\ t.clean /\ t.roles.rolesRev = s2.rolesRev) => h2.deleted = {}
    <3>1. SUFFICES ASSUME t.at = "write", t.auto, t.clean, t.roles.rolesRev = s2.rolesRev
                   PROVE  h2.deleted = {}
      OBVIOUS
    <3>2. t.roles \in RoleReads /\ RoleNote(t.roles, s, h)
      BY <2>1, <3>1 DEF PresetHolds
    <3>3. t.roles.rolesRev <= s.rolesRev
      BY <3>2 DEF RoleNote
    <3>4. s2.rolesRev = s.rolesRev
      BY <3>1, <3>2, <3>3 DEF Later, Stores, RoleReads
    <3> QED
      BY <2>1, <3>1, <3>4 DEF PresetHolds, Later
  <2>7. PresetHolds(t, s2, h2)
    BY <2>1, <2>2, <2>3, <2>4, <2>5, <2>6 DEF PresetHolds
  <2> QED
    BY <1>3, <2>7 DEF TaskHolds
<1>4. CASE t.kind = "max"
  <2>1. t \in LimitTasks
    BY <1>4, TaskKinds
  <2>2. t.at = "editing" => t.read \in PrefReads
    BY <2>1 DEF LimitTasks
  <2> QED
    BY <1>4, <2>2, NotesStay DEF TaskHolds, LimitHolds
<1> QED
  BY <1>1, <1>2, <1>3, <1>4 DEF TaskHolds

LEMMA NoticeStays ==
  ASSUME NEW s \in Stores, NEW s2 \in Stores, NEW h, NEW h2, Later(s, h, s2, h2),
         NEW n, NoticeHolds(n, s, h)
  PROVE  NoticeHolds(n, s2, h2)
BY NotesStay DEF NoticeHolds

\* Window w took a step.
LEMMA StepKeeps ==
  ASSUME CatalogInv, NEW w \in Windows, NEW t, NEW p,
         t \in Tasks, task' = [task EXCEPT ![w] = t],
         p \in Phases, phase' = [phase EXCEPT ![w] = p],
         done' \in [tasks : Nat, failures : Nat, stamps : Nat],
         store' \in Stores, history' \in Histories,
         Later(store, history, store', history'), StoreHolds(store', history'),
         TaskHolds(t, store', history'), NoticeHolds(p.notice, store', history')
  PROVE  CatalogInv'
<1>1. CatalogShape'
  BY DEF CatalogInv, CatalogShape
<1>2. ASSUME NEW v \in Windows
      PROVE  TaskHolds(task'[v], store', history') /\ NoticeHolds(phase'[v].notice, store', history')
  <2>1. CASE v = w
    BY <2>1 DEF CatalogInv, CatalogShape
  <2>2. CASE v # w
    <3>1. task'[v] = task[v] /\ phase'[v] = phase[v] /\ task[v] \in Tasks /\ store \in Stores
      BY <2>2 DEF CatalogInv, CatalogShape
    <3>2. TaskHolds(task[v], store, history) /\ NoticeHolds(phase[v].notice, store, history)
      BY DEF CatalogInv
    <3>3. TaskHolds(task[v], store', history')
      BY <3>1, <3>2, TaskStays
    <3>4. NoticeHolds(phase[v].notice, store', history')
      BY <3>1, <3>2, NoticeStays
    <3> QED
      BY <3>1, <3>3, <3>4
  <2> QED
    BY <2>1, <2>2
<1> QED
  BY <1>1, <1>2 DEF CatalogInv

\* Window w only turns to something else.
LEMMA GoesKeeps ==
  ASSUME CatalogInv, NEW w \in Windows, NEW t, t \in Tasks, Presets!Goes(w, t),
         TaskHolds(t, store, history), UNCHANGED <<store, phase, history>>,
         done' \in [tasks : Nat, failures : Nat, stamps : Nat]
  PROVE  CatalogInv'
<1>1. /\ phase[w] \in Phases /\ phase' = [phase EXCEPT ![w] = phase[w]]
      /\ store' \in Stores /\ history' \in Histories
  BY DEF CatalogInv, CatalogShape
<1>2. StoreHolds(store', history') /\ TaskHolds(t, store', history')
      /\ NoticeHolds(phase[w].notice, store', history')
  BY DEF CatalogInv
<1>3. Later(store, history, store', history')
  BY <1>1, LaterRefl
<1> QED
  BY <1>1, <1>2, <1>3, StepKeeps DEF Presets!Goes

LEMMA OpensKeeps ==
  ASSUME CatalogInv, NEW w \in Windows, NEW t, t \in Tasks, Presets!Opens(w, t),
         TaskHolds(t, store, history), UNCHANGED <<store, phase, history>>
  PROVE  CatalogInv'
<1>1. done' \in [tasks : Nat, failures : Nat, stamps : Nat] /\ Presets!Goes(w, t)
  BY DEF CatalogInv, CatalogShape, Presets!Opens, Presets!Goes
<1> QED
  BY <1>1, GoesKeeps

\* What has just been read is noted.
LEMMA Readings ==
  ASSUME CatalogInv
  PROVE  /\ store \in Stores /\ history \in Histories
         /\ done \in [tasks : Nat, failures : Nat, stamps : Nat]
         /\ Presets!RolesRead \in RoleReads /\ RoleNote(Presets!RolesRead, store, history)
         /\ Presets!PrefsRead \in PrefReads /\ PrefNote(Presets!PrefsRead, store, history)
         /\ \A i \in RoleIds : store.rows[i] \in Rows /\ RowTold(store.rows[i], store, history)
<1>1. /\ store \in Stores /\ history \in Histories
      /\ done \in [tasks : Nat, failures : Nat, stamps : Nat] /\ StoreHolds(store, history)
  BY DEF CatalogInv, CatalogShape
<1>2. Presets!RolesRead \in RoleReads /\ RoleNote(Presets!RolesRead, store, history)
  BY <1>1 DEF Presets!RolesRead, RoleReads, Stores, RoleNote, StoreHolds
<1>3. Presets!PrefsRead \in PrefReads /\ PrefNote(Presets!PrefsRead, store, history)
  BY <1>1 DEF Presets!PrefsRead, PrefReads, Stores, PrefNote, StoreHolds
<1>4. \A i \in RoleIds : store.rows[i] \in Rows /\ RowTold(store.rows[i], store, history)
  BY <1>1 DEF Stores, RowSets, StoreHolds, RowsTold
<1> QED
  BY <1>1, <1>2, <1>3, <1>4

\* The task of a window.
LEMMA TaskOf ==
  ASSUME CatalogInv, NEW w \in Windows
  PROVE  /\ task[w] \in Tasks /\ TaskHolds(task[w], store, history)
         /\ task[w].kind = "edit" => task[w] \in EditTasks /\ EditHolds(task[w], store, history)
         /\ task[w].kind \in {"delete", "copy"} =>
              task[w] \in RawTasks /\ RawHolds(task[w], store, history)
         /\ task[w].kind \in {"import", "sync", "record"} =>
              task[w] \in PresetTasks /\ PresetHolds(task[w], store, history)
         /\ task[w].kind = "max" => task[w] \in LimitTasks /\ LimitHolds(task[w], store, history)
         /\ phase[w] \in Phases /\ NoticeHolds(phase[w].notice, store, history)
<1>1. /\ task[w] \in Tasks /\ TaskHolds(task[w], store, history)
      /\ phase[w] \in Phases /\ NoticeHolds(phase[w].notice, store, history)
  BY DEF CatalogInv, CatalogShape
<1> QED
  BY <1>1, TaskKinds DEF TaskHolds

\* A task of each sort is a task, and what holds of its sort is what must hold.
LEMMA EditTask ==
  ASSUME NEW t \in EditTasks, NEW s, NEW h, EditHolds(t, s, h)
  PROVE  t \in Tasks /\ TaskHolds(t, s, h)
BY DEF Tasks, EditTasks, TaskHolds
LEMMA RawTask ==
  ASSUME NEW t \in RawTasks, NEW s, NEW h, RawHolds(t, s, h)
  PROVE  t \in Tasks /\ TaskHolds(t, s, h)
BY DEF Tasks, RawTasks, TaskHolds
LEMMA PresetTask ==
  ASSUME NEW t \in PresetTasks, NEW s, NEW h, PresetHolds(t, s, h)
  PROVE  t \in Tasks /\ TaskHolds(t, s, h)
BY DEF Tasks, PresetTasks, TaskHolds
LEMMA LimitTask ==
  ASSUME NEW t \in LimitTasks, NEW s, NEW h, LimitHolds(t, s, h)
  PROVE  t \in Tasks /\ TaskHolds(t, s, h)
BY DEF Tasks, LimitTasks, TaskHolds
LEMMA NoTaskHolds ==
  ASSUME NEW s, NEW h
  PROVE  Presets!NoTask \in Tasks /\ TaskHolds(Presets!NoTask, s, h)
BY DEF Tasks, Presets!NoTask, TaskHolds

LEMMA GoesOn ==
  ASSUME CatalogInv, NEW w \in Windows, NEW t, t \in Tasks, Presets!Goes(w, t),
         TaskHolds(t, store, history), UNCHANGED <<store, phase, done, history>>
  PROVE  CatalogInv'
<1>1. done' \in [tasks : Nat, failures : Nat, stamps : Nat]
  BY Readings
<1> QED
  BY <1>1, GoesKeeps

LEMMA CloseKeeps ==
  ASSUME CatalogInv, NEW w \in Windows, Presets!Closes(w), UNCHANGED <<store, phase, done, history>>
  PROVE  CatalogInv'
BY NoTaskHolds, GoesOn DEF Presets!Closes

(* The editor. *)
LEMMA OpenEditorKeeps ==
  ASSUME CatalogInv, NEW w \in Windows, NEW i \in RoleIds, Presets!OpenEditor(w, i)
  PROVE  CatalogInv'
<1> DEFINE t == [kind |-> "edit", at |-> "open", id |-> i, base |-> store.rows[i],
                 create |-> store.rows[i] = None, opened |-> None, agreed |-> FALSE,
                 tries |-> 0, latest |-> None]
<1>1. t \in EditTasks
  BY Readings DEF EditTasks
<1>2. EditHolds(t, store, history)
  BY Readings DEF EditHolds
<1>3. Presets!Opens(w, t) /\ UNCHANGED <<store, phase, history>>
  BY DEF Presets!OpenEditor
<1> HIDE DEF t
<1> QED
  BY <1>1, <1>2, <1>3, EditTask, OpensKeeps

LEMMA EditorLoadsKeeps ==
  ASSUME CatalogInv, NEW w \in Windows, Presets!EditorLoads(w)
  PROVE  CatalogInv'
<1> DEFINE t == [task[w] EXCEPT !.at = "editing", !.opened = store.rows]
<1>1. task[w] \in EditTasks /\ EditHolds(task[w], store, history)
  BY TaskOf DEF Presets!EditorLoads, Presets!At
<1>2. t \in EditTasks
  BY <1>1, Readings DEF EditTasks, Stores
<1>3. EditHolds(t, store, history)
  BY <1>1 DEF EditHolds, EditTasks
<1>4. Presets!Goes(w, t) /\ UNCHANGED <<store, phase, done, history>>
  BY DEF Presets!EditorLoads
<1> HIDE DEF t
<1> QED
  BY <1>2, <1>3, <1>4, EditTask, GoesOn

LEMMA SubmitKeeps ==
  ASSUME CatalogInv, NEW w \in Windows, Presets!Submit(w)
  PROVE  CatalogInv'
<1> DEFINE t == [task[w] EXCEPT !.at = "reading", !.tries = 0, !.agreed = task[w].at # "editing"]
<1>1. task[w] \in EditTasks /\ EditHolds(task[w], store, history)
  BY TaskOf DEF Presets!Submit, Presets!At
<1>2. t \in EditTasks
  BY <1>1 DEF EditTasks
<1>3. EditHolds(t, store, history)
  BY <1>1 DEF EditHolds, EditTasks
<1>4. Presets!Goes(w, t) /\ UNCHANGED <<store, phase, done, history>>
  BY DEF Presets!Submit
<1> HIDE DEF t
<1> QED
  BY <1>2, <1>3, <1>4, EditTask, GoesOn

LEMMA EditorReadsKeeps ==
  ASSUME CatalogInv, NEW w \in Windows, Presets!EditorReads(w)
  PROVE  CatalogInv'
<1> DEFINE t == [task[w] EXCEPT !.at = Presets!Decision(task[w], store.rows), !.latest = Presets!RolesRead]
<1>1. task[w] \in EditTasks /\ EditHolds(task[w], store, history)
  BY TaskOf DEF Presets!EditorReads, Presets!At
<1>2. Presets!Decision(task[w], store.rows) \in {"id-taken", "writing", "modified", "deleted"}
  BY DEF Presets!Decision
<1>3. t \in EditTasks
  BY <1>1, <1>2, Readings DEF EditTasks
<1>4. Presets!Decision(task[w], store.rows) = "writing" /\ ~task[w].agreed => store.rows[task[w].id] = task[w].base
  BY <1>1 DEF Presets!Decision, EditHolds
<1>5. EditHolds(t, store, history)
  BY <1>1, <1>4, Readings DEF EditHolds, EditTasks, Presets!RolesRead
<1>6. Presets!Goes(w, t) /\ UNCHANGED <<store, phase, done, history>>
  BY DEF Presets!EditorReads
<1> HIDE DEF t
<1> QED
  BY <1>3, <1>5, <1>6, EditTask, GoesOn

LEMMA EditAgainKeeps ==
  ASSUME CatalogInv, NEW w \in Windows, Presets!EditAgain(w)
  PROVE  CatalogInv'
<1> DEFINE t == [task[w] EXCEPT !.at = "editing", !.latest = None]
<1>1. task[w] \in EditTasks /\ EditHolds(task[w], store, history)
  BY TaskOf DEF Presets!EditAgain, Presets!At
<1>2. t \in EditTasks
  BY <1>1 DEF EditTasks
<1>3. EditHolds(t, store, history)
  BY <1>1 DEF EditHolds, EditTasks
<1>4. Presets!Goes(w, t) /\ UNCHANGED <<store, phase, done, history>>
  BY DEF Presets!EditAgain
<1> HIDE DEF t
<1> QED
  BY <1>2, <1>3, <1>4, EditTask, GoesOn

LEMMA ReloadDraftKeeps ==
  ASSUME CatalogInv, NEW w \in Windows, Presets!ReloadDraft(w)
  PROVE  CatalogInv'
<1> DEFINE latest == store.rows[task[w].id]
<1>1. task[w] \in EditTasks /\ EditHolds(task[w], store, history)
  BY TaskOf DEF Presets!ReloadDraft, Presets!At
<1>2. CASE task[w].base = None \/ latest = None
  BY <1>2, CloseKeeps DEF Presets!ReloadDraft
<1>3. CASE ~(task[w].base = None \/ latest = None)
  <2> DEFINE t == [task[w] EXCEPT !.at = "editing", !.base = latest, !.opened = store.rows,
                                  !.latest = None]
  <2>1. task[w].id \in RoleIds
    BY <1>1 DEF EditTasks
  <2>2. t \in EditTasks
    BY <1>1, <2>1, Readings DEF EditTasks, Stores
  <2>3. ~task[w].create
    BY <1>1, <1>3 DEF EditHolds
  <2>4. EditHolds(t, store, history)
    BY <1>1, <2>1, <2>3, Readings DEF EditHolds, EditTasks
  <2>5. Presets!Goes(w, t) /\ UNCHANGED <<store, phase, done, history>>
    BY <1>3 DEF Presets!ReloadDraft
  <2> HIDE DEF t
  <2> QED
    BY <2>2, <2>4, <2>5, EditTask, GoesOn
<1> QED
  BY <1>2, <1>3

(* Writing the Roles. *)
LEMMA RowsWritten ==
  ASSUME CatalogInv, NEW reply, NEW rows \in RowSets, NEW lost, Presets!WriteRoles(reply, rows, lost),
         Presets!Effective(reply) => lost = {} /\ \A i \in RoleIds : RowTold(rows[i], store, history)
  PROVE  /\ store' \in Stores /\ history' \in Histories
         /\ Later(store, history, store', history') /\ StoreHolds(store', history')
         /\ ~Presets!Effective(reply) => UNCHANGED <<store, history>>
<1>1. store \in Stores /\ history \in Histories /\ StoreHolds(store, history)
  BY DEF CatalogInv, CatalogShape
<1>2. CASE ~Presets!Effective(reply)
  BY <1>1, <1>2, LaterRefl DEF Presets!WriteRoles
<1>3. CASE Presets!Effective(reply)
  <2> DEFINE there == {i \in RoleIds : Presets!IsTemplate(rows, i)}
             away == {i \in Templates : /\ rows[i] = None /\ store.rows[i] # None
                                        /\ store.rows[i].preset}
  <2>1. /\ store' = [store EXCEPT !.rolesRev = @ + 1, !.rows = rows]
        /\ history' = [history EXCEPT !.lost = @ \cup lost, !.ever = @ \cup there,
                                      !.deleted = @ \cup away]
    BY <1>3 DEF Presets!WriteRoles
  <2>2. there \subseteq RoleIds /\ away \subseteq Templates
    OBVIOUS
  <2>3. \A i \in Templates : Presets!IsTemplate(rows, i) => i \in there
    BY CatalogAssumption
  <2>4. away # {} => Touched(store, history)
    BY <1>1, CatalogAssumption DEF StoreHolds, RowsTold, RowTold
  <2> HIDE DEF there, away
  <2>5. store' \in Stores /\ store'.rolesRev = store.rolesRev + 1 /\ store'.rows = rows
        /\ store'.prefsRev = store.prefsRev /\ store'.imported = store.imported
        /\ store'.seen = store.seen /\ store'.max = store.max
    <3>1. store = [rolesRev |-> store.rolesRev, rows |-> store.rows, prefsRev |-> store.prefsRev,
                   imported |-> store.imported, seen |-> store.seen, max |-> store.max]
      BY <1>1 DEF Stores
    <3>2. store' = [rolesRev |-> store.rolesRev + 1, rows |-> rows, prefsRev |-> store.prefsRev,
                    imported |-> store.imported, seen |-> store.seen, max |-> store.max]
      BY <2>1, <3>1
    <3>3. /\ store.rolesRev + 1 \in Nat /\ store.prefsRev \in Nat /\ store.imported \in BOOLEAN
          /\ store.seen \in SUBSET Templates /\ store.max \in Nat
      BY <1>1 DEF Stores
    <3> QED
      BY <3>2, <3>3 DEF Stores
  <2>6. history' \in Histories /\ history'.lost = history.lost /\ history'.back = history.back
        /\ history'.ever = history.ever \cup there
        /\ history'.deleted = history.deleted \cup away
        /\ history'.unrecorded = history.unrecorded
    BY <1>1, <1>3, <2>1, <2>2 DEF Histories
  <2>7. Touched(store', history') <=> Touched(store, history)
    BY <2>5, <2>6 DEF Touched
  <2>8. Later(store, history, store', history')
    BY <1>1, <2>5, <2>6, <2>7 DEF Later, Stores
  <2>9. RowsTold(rows, store', history')
    BY <1>3, <2>3, <2>6, <2>7 DEF RowsTold, RowTold
  <2> QED
    BY <1>1, <1>3, <2>4, <2>5, <2>6, <2>7, <2>8, <2>9 DEF StoreHolds
<1> QED
  BY <1>2, <1>3

LEMMA CountTyped ==
  ASSUME CatalogInv, NEW reply, NEW stamped \in BOOLEAN, Presets!Counted(reply, stamped)
  PROVE  done' \in [tasks : Nat, failures : Nat, stamps : Nat]
<1>1. PICK n \in Nat, k \in Nat, m \in Nat : done = [tasks |-> n, failures |-> k, stamps |-> m]
  BY Readings
<1>2. done' = [tasks |-> n, failures |-> IF reply \in {"failed", "lost"} THEN k + 1 ELSE k,
               stamps |-> IF stamped THEN m + 1 ELSE m]
  BY <1>1 DEF Presets!Counted
<1> QED
  BY <1>1, <1>2

\* What was read at the document's revision is in the document.
LEMMA FreshNote ==
  ASSUME CatalogInv, NEW reply, NEW r \in RoleReads, RoleNote(r, store, history),
         Presets!Result(reply, store.rolesRev, r.rolesRev), Presets!Effective(reply)
  PROVE  r.rows = store.rows
BY DEF Presets!Result, Presets!Effective, Presets!Fresh, RoleNote

LEMMA EditorWritesKeeps ==
  ASSUME CatalogInv, NEW w \in Windows, NEW reply, Presets!EditorWrites(w, reply)
  PROVE  CatalogInv'
<1> DEFINE t == task[w]
           row == Presets!Role(t.base # None /\ t.base.preset, FALSE, done.stamps + 1)
           rows == [t.latest.rows EXCEPT ![t.id] = row]
           unknown == IF store.rows[t.id] # t.base /\ ~t.agreed THEN {t.id} ELSE {}
           next == IF reply = "saved" THEN Presets!NoTask
                   ELSE IF reply = "conflict" /\ t.tries = 0
                        THEN [t EXCEPT !.at = "reading", !.tries = 1, !.latest = None]
                        ELSE [t EXCEPT !.at = "editing", !.latest = None]
<1>1. t \in EditTasks /\ EditHolds(t, store, history) /\ t.at = "writing"
  BY TaskOf DEF Presets!EditorWrites, Presets!At
<1>2. /\ Presets!Result(reply, store.rolesRev, t.latest.rolesRev)
      /\ Presets!WriteRoles(reply, rows, unknown \cup Presets!ChangedBesides(rows, {t.id}))
      /\ task' = [task EXCEPT ![w] = next]
      /\ Presets!Counted(reply, Presets!Effective(reply)) /\ phase' = phase
  BY DEF Presets!EditorWrites
<1>3. /\ t.latest \in RoleReads /\ RoleNote(t.latest, store, history) /\ t.id \in RoleIds
      /\ t.base \in Rows /\ RowTold(t.base, store, history)
      /\ ~t.agreed => t.latest.rows[t.id] = t.base
  BY <1>1 DEF EditHolds, EditTasks
<1>4. row \in Rows /\ RowTold(row, store, history)
  <2>1. done.stamps + 1 \in Nat
    BY Readings
  <2>2. PICK b \in BOOLEAN : row = Presets!Role(b, FALSE, done.stamps + 1)
                            /\ (b => t.base # None /\ t.base.preset)
    OBVIOUS
  <2> HIDE DEF row
  <2>3. row \in Rows /\ row.preset = b
    BY <2>1, <2>2 DEF Presets!Role, Rows
  <2> QED
    BY <1>3, <2>2, <2>3 DEF RowTold
<1>5. t.latest.rows \in RowSets /\ rows \in RowSets
  BY <1>3, <1>4 DEF RoleReads, RowSets
<1>6. \A i \in RoleIds : rows[i] = IF i = t.id THEN row ELSE t.latest.rows[i]
  BY <1>5 DEF RowSets
<1>7. \A i \in RoleIds : RowTold(rows[i], store, history)
  BY <1>3, <1>4, <1>6 DEF RoleNote, RowsTold
<1>8. Presets!Effective(reply) => unknown \cup Presets!ChangedBesides(rows, {t.id}) = {}
  <2>1. Presets!Effective(reply) => t.latest.rows = store.rows
    BY <1>2, <1>3, FreshNote
  <2>2. SUFFICES ASSUME Presets!Effective(reply) PROVE unknown = {} /\ Presets!ChangedBesides(rows, {t.id}) = {}
    OBVIOUS
  <2>3. unknown = {}
    BY <1>3, <2>1, <2>2
  <2>4. \A i \in RoleIds \ {t.id} : rows[i] = store.rows[i]
    BY <1>6, <2>1, <2>2
  <2>5. Presets!ChangedBesides(rows, {t.id}) = {}
    BY <2>4 DEF Presets!ChangedBesides
  <2> QED
    BY <2>3, <2>5
<1>9. next \in Tasks /\ TaskHolds(next, store, history)
  <2>1. CASE reply = "saved"
    BY <2>1, NoTaskHolds
  <2>2. ASSUME NEW l \in {"reading", "editing"}, NEW k \in Nat
        PROVE  /\ [t EXCEPT !.at = l, !.tries = k, !.latest = None] \in Tasks
               /\ TaskHolds([t EXCEPT !.at = l, !.tries = k, !.latest = None], store, history)
    <3> DEFINE u == [t EXCEPT !.at = l, !.tries = k, !.latest = None]
    <3>1. u \in EditTasks
      BY <1>1 DEF EditTasks
    <3>2. EditHolds(u, store, history)
      BY <1>1 DEF EditHolds, EditTasks
    <3> QED
      BY <3>1, <3>2, EditTask
  <2>3. [t EXCEPT !.at = "editing", !.latest = None]
          = [t EXCEPT !.at = "editing", !.tries = t.tries, !.latest = None]
    BY <1>1 DEF EditTasks
  <2>4. t.tries \in Nat
    BY <1>1 DEF EditTasks
  <2> QED
    BY <2>1, <2>2, <2>3, <2>4
<1> HIDE DEF t, row, rows, unknown, next
<1>10. /\ store' \in Stores /\ history' \in Histories
       /\ Later(store, history, store', history') /\ StoreHolds(store', history')
  BY <1>2, <1>5, <1>7, <1>8, RowsWritten
<1>11. done' \in [tasks : Nat, failures : Nat, stamps : Nat]
  <2>1. Presets!Effective(reply) \in BOOLEAN
    BY DEF Presets!Effective
  <2> QED
    BY <1>2, <2>1, CountTyped
<1>12. /\ phase[w] \in Phases /\ phase' = [phase EXCEPT ![w] = phase[w]]
       /\ NoticeHolds(phase[w].notice, store, history) /\ store \in Stores
  BY <1>2 DEF CatalogInv, CatalogShape
<1>13. TaskHolds(next, store', history') /\ NoticeHolds(phase[w].notice, store', history')
  BY <1>9, <1>10, <1>12, TaskStays, NoticeStays
<1> QED
  BY <1>2, <1>9, <1>10, <1>11, <1>12, <1>13, StepKeeps

(* Delete and copy. *)
LEMMA RemoveKeeps ==
  ASSUME CatalogInv, NEW w \in Windows, NEW i \in RoleIds, Presets!Remove(w, i) \/ Presets!Copy(w, i)
  PROVE  CatalogInv'
<1>1. PICK kind \in {"delete", "copy"} :
        Presets!Opens(w, [kind |-> kind, at |-> "read", id |-> i]) /\ UNCHANGED <<store, phase, history>>
  BY DEF Presets!Remove, Presets!Copy
<1> DEFINE t == [kind |-> kind, at |-> "read", id |-> i]
<1>2. t \in RawTasks /\ RawHolds(t, store, history)
  BY DEF RawTasks, RawHolds
<1>3. Presets!Opens(w, t) /\ UNCHANGED <<store, phase, history>>
  BY <1>1
<1> HIDE DEF t
<1> QED
  BY <1>2, <1>3, RawTask, OpensKeeps

LEMMA FreshRolesKeeps ==
  ASSUME CatalogInv, NEW w \in Windows, Presets!FreshRoles(w)
  PROVE  CatalogInv'
<1>1. task[w] \in RawTasks
  BY TaskOf DEF Presets!FreshRoles, Presets!At
<1>2. CASE Presets!Closes(w)
  BY <1>2, CloseKeeps DEF Presets!FreshRoles
<1>3. CASE ~Presets!Closes(w)
  <2> DEFINE t == [kind |-> task[w].kind, at |-> "write", id |-> task[w].id, read |-> Presets!RolesRead]
  <2>0. store.rows[task[w].id] # None
    BY <1>3 DEF Presets!FreshRoles
  <2>1. t \in RawTasks /\ RawHolds(t, store, history)
    BY <1>1, <2>0, Readings DEF RawTasks, RawHolds, Presets!RolesRead
  <2>2. Presets!Goes(w, t) /\ UNCHANGED <<store, phase, done, history>>
    BY <1>3 DEF Presets!FreshRoles
  <2> HIDE DEF t
  <2> QED
    BY <2>1, <2>2, RawTask, GoesOn
<1> QED
  BY <1>2, <1>3

LEMMA SaveRawRolesKeeps ==
  ASSUME CatalogInv, NEW w \in Windows, NEW reply, Presets!SaveRawRoles(w, reply)
  PROVE  CatalogInv'
<1> DEFINE t == task[w]
           to == IF t.kind = "delete" THEN t.id ELSE CHOOSE i \in Presets!FreeIds(t.read.rows) : TRUE
           row == IF t.kind = "delete" THEN None
                  ELSE Presets!Role(FALSE, t.read.rows[t.id].same, done.stamps + 1)
           rows == [t.read.rows EXCEPT ![to] = row]
<1>1. t \in RawTasks /\ RawHolds(t, store, history) /\ t.at = "write"
  BY SMTT(40), TaskOf DEF Presets!SaveRawRoles, Presets!At
<1>2. /\ Presets!Result(reply, store.rolesRev, t.read.rolesRev)
      /\ Presets!WriteRoles(reply, rows, Presets!ChangedBesides(rows, {to}))
      /\ Presets!Counted(reply, Presets!Effective(reply) /\ t.kind = "copy")
      /\ task' = [task EXCEPT ![w] = Presets!NoTask] /\ phase' = phase
  BY DEF Presets!SaveRawRoles, Presets!Closes, Presets!Goes
<1>3. /\ t.read \in RoleReads /\ RoleNote(t.read, store, history) /\ t.id \in RoleIds
  BY <1>1 DEF RawHolds, RawTasks
<1>4. row \in Rows /\ RowTold(row, store, history)
  <2>1. CASE t.kind = "delete"
    BY <2>1 DEF Rows, RowTold
  <2>2. CASE t.kind # "delete"
    <3>1. t.read.rows[t.id] \in Rows /\ done.stamps + 1 \in Nat
      BY <1>3, Readings DEF RoleReads, RowSets
    <3>2. t.read.rows[t.id] # None
      BY <1>1 DEF RawHolds
    <3>3. PICK b \in BOOLEAN : row = Presets!Role(FALSE, b, done.stamps + 1)
      BY <2>2, <3>1, <3>2 DEF Rows
    <3> HIDE DEF row
    <3>4. row \in Rows /\ row.preset = FALSE
      BY <3>1, <3>3 DEF Presets!Role, Rows
    <3> QED
      BY <3>4 DEF RowTold
  <2> QED
    BY <2>1, <2>2
<1>5. t.read.rows \in RowSets /\ rows \in RowSets
  BY <1>3, <1>4 DEF RoleReads, RowSets
<1>6. \A i \in RoleIds : rows[i] = IF i = to THEN row ELSE t.read.rows[i]
  BY <1>5 DEF RowSets
<1>7. \A i \in RoleIds : RowTold(rows[i], store, history)
  BY <1>3, <1>4, <1>6 DEF RoleNote, RowsTold
<1>8. Presets!Effective(reply) => Presets!ChangedBesides(rows, {to}) = {}
  <2>1. Presets!Effective(reply) => t.read.rows = store.rows
    BY <1>2, <1>3, FreshNote
  <2> QED
    BY <1>6, <2>1 DEF Presets!ChangedBesides
<1> HIDE DEF t, to, row, rows
<1>10. /\ store' \in Stores /\ history' \in Histories
       /\ Later(store, history, store', history') /\ StoreHolds(store', history')
  BY <1>2, <1>5, <1>7, <1>8, RowsWritten
<1>11. done' \in [tasks : Nat, failures : Nat, stamps : Nat]
  <2>1. Presets!Effective(reply) \in BOOLEAN
    BY DEF Presets!Effective
  <2> QED
    BY <1>2, <2>1, CountTyped
<1>12. /\ phase[w] \in Phases /\ phase' = [phase EXCEPT ![w] = phase[w]]
       /\ NoticeHolds(phase[w].notice, store, history) /\ store \in Stores
  BY <1>2 DEF CatalogInv, CatalogShape
<1>13. TaskHolds(Presets!NoTask, store', history') /\ NoticeHolds(phase[w].notice, store', history')
  BY <1>10, <1>12, NoTaskHolds, NoticeStays
<1> QED
  BY <1>2, <1>10, <1>11, <1>12, <1>13, NoTaskHolds, StepKeeps

(* The presets: previews and choices. *)
LEMMA PresetOf ==
  ASSUME CatalogInv, NEW w \in Windows, task[w].kind \in {"import", "sync", "record"}
  PROVE  task[w] \in PresetTasks /\ PresetHolds(task[w], store, history)
BY TaskOf

LEMMA PreviewKeeps ==
  ASSUME CatalogInv, NEW w \in Windows, Presets!PreviewRoles(w) \/ Presets!PreviewPrefs(w)
  PROVE  CatalogInv'
<1>1. task[w] \in PresetTasks /\ PresetHolds(task[w], store, history) /\ task[w].at = "preview"
  BY PresetOf DEF Presets!PreviewRoles, Presets!PreviewPrefs
<1>2. CASE Presets!PreviewRoles(w)
  <2> DEFINE t == [task[w] EXCEPT !.roles = Presets!RolesRead]
  <2>1. t \in PresetTasks
    BY <1>1, Readings DEF PresetTasks
  <2>2. PresetHolds(t, store, history)
    BY <1>1, Readings DEF PresetHolds, PresetTasks
  <2>3. Presets!Goes(w, t) /\ UNCHANGED <<store, phase, done, history>>
    BY <1>2 DEF Presets!PreviewRoles
  <2> HIDE DEF t
  <2> QED
    BY <2>1, <2>2, <2>3, PresetTask, GoesOn
<1>3. CASE Presets!PreviewPrefs(w)
  <2> DEFINE t == [task[w] EXCEPT !.prefs = Presets!PrefsRead]
  <2>1. t \in PresetTasks
    BY <1>1, Readings DEF PresetTasks
  <2>2. PresetHolds(t, store, history)
    BY <1>1, Readings DEF PresetHolds, PresetTasks
  <2>3. Presets!Goes(w, t) /\ UNCHANGED <<store, phase, done, history>>
    BY <1>3 DEF Presets!PreviewPrefs
  <2> HIDE DEF t
  <2> QED
    BY <2>1, <2>2, <2>3, PresetTask, GoesOn
<1> QED
  BY <1>2, <1>3

LEMMA PreviewedKeeps ==
  ASSUME CatalogInv, NEW w \in Windows, Presets!Previewed(w)
  PROVE  CatalogInv'
<1> DEFINE t == [task[w] EXCEPT !.at = IF task[w].kind = "sync" THEN "choose" ELSE "roles"]
<1>1. /\ task[w] \in PresetTasks /\ PresetHolds(task[w], store, history)
      /\ task[w].roles # None /\ task[w].prefs # None
  BY PresetOf DEF Presets!Previewed
<1>2. t \in PresetTasks
  BY <1>1 DEF PresetTasks
<1>3. PresetHolds(t, store, history)
  BY <1>1 DEF PresetHolds, PresetTasks
<1>4. Presets!Goes(w, t) /\ UNCHANGED <<store, phase, done, history>>
  BY DEF Presets!Previewed
<1> HIDE DEF t
<1> QED
  BY <1>2, <1>3, <1>4, PresetTask, GoesOn

LEMMA PreviewAgainHolds ==
  ASSUME NEW t \in PresetTasks, t.kind = "sync" => ~t.auto, NEW k \in Nat, NEW s, NEW h
  PROVE  /\ Presets!PreviewAgain(t) \in PresetTasks /\ PresetHolds(Presets!PreviewAgain(t), s, h)
         /\ [Presets!PreviewAgain(t) EXCEPT !.tries = k] \in PresetTasks
         /\ PresetHolds([Presets!PreviewAgain(t) EXCEPT !.tries = k], s, h)
<1> DEFINE u == Presets!PreviewAgain(t)
<1>1. /\ u \in PresetTasks /\ u.at = "preview" /\ u.roles = None /\ u.prefs = None
      /\ u.kind = "sync" => ~u.auto
  BY DEF PresetTasks, Presets!PreviewAgain
<1> HIDE DEF u
<1>2. PresetHolds(u, s, h)
  BY <1>1 DEF PresetHolds
<1>3. [u EXCEPT !.tries = k] \in PresetTasks
  BY <1>1 DEF PresetTasks
<1>4. PresetHolds([u EXCEPT !.tries = k], s, h)
  BY <1>1 DEF PresetHolds, PresetTasks
<1> QED
  BY <1>1, <1>2, <1>3, <1>4 DEF u

LEMMA BlankHolds ==
  ASSUME CatalogInv, NEW kind \in {"import", "sync"}, NEW auto \in BOOLEAN, kind = "sync" => ~auto
  PROVE  Presets!Blank(kind, auto) \in PresetTasks /\ PresetHolds(Presets!Blank(kind, auto), store, history)
<1>1. done.tasks + 1 \in Nat
  BY Readings
<1> QED
  BY <1>1 DEF Presets!Blank, PresetTasks, PresetHolds

\* An import begins in window w.
LEMMA ImportKeeps ==
  ASSUME CatalogInv, NEW w \in Windows, Presets!AutoImport(w) \/ Presets!ManualImport(w)
  PROVE  CatalogInv'
<1>1. PICK auto \in BOOLEAN :
        /\ Presets!Opens(w, Presets!Blank("import", auto)) /\ phase' = [phase EXCEPT ![w].at = "running"]
        /\ UNCHANGED <<store, history>>
  BY DEF Presets!AutoImport, Presets!ManualImport
<1> DEFINE t == Presets!Blank("import", auto)
           p == [phase[w] EXCEPT !.at = "running"]
<1>2. t \in Tasks /\ TaskHolds(t, store, history)
  BY BlankHolds, PresetTask
<1>3. phase[w] \in Phases /\ phase \in [Windows -> Phases] /\ NoticeHolds(phase[w].notice, store, history)
  BY DEF CatalogInv, CatalogShape
<1>4. p \in Phases /\ p.notice = phase[w].notice /\ phase' = [phase EXCEPT ![w] = p]
  BY <1>1, <1>3 DEF Phases
<1>5. task' = [task EXCEPT ![w] = t] /\ done' \in [tasks : Nat, failures : Nat, stamps : Nat]
  BY <1>1, Readings DEF Presets!Opens
<1>6. /\ store' \in Stores /\ history' \in Histories /\ store' = store /\ history' = history
      /\ StoreHolds(store', history')
  BY <1>1 DEF CatalogInv, CatalogShape
<1>7. Later(store, history, store', history')
  BY <1>6, LaterRefl
<1> HIDE DEF t, p
<1> QED
  BY <1>2, <1>3, <1>4, <1>5, <1>6, <1>7, StepKeeps

LEMMA OpenSyncKeeps ==
  ASSUME CatalogInv, NEW w \in Windows, Presets!OpenSync(w)
  PROVE  CatalogInv'
BY BlankHolds, PresetTask, OpensKeeps DEF Presets!OpenSync

LEMMA ImportReadsRolesKeeps ==
  ASSUME CatalogInv, NEW w \in Windows, Presets!ImportReadsRoles(w)
  PROVE  CatalogInv'
<1> DEFINE t == [task[w] EXCEPT !.at = "prefs", !.read = Presets!RolesRead]
<1>1. task[w] \in PresetTasks /\ PresetHolds(task[w], store, history) /\ task[w].at = "roles"
  BY PresetOf DEF Presets!ImportReadsRoles, Presets!At
<1>2. t \in PresetTasks
  BY <1>1, Readings DEF PresetTasks
<1>3. PresetHolds(t, store, history)
  BY <1>1, Readings DEF PresetHolds, PresetTasks
<1>4. Presets!Goes(w, t) /\ UNCHANGED <<store, phase, done, history>>
  BY DEF Presets!ImportReadsRoles
<1> HIDE DEF t
<1> QED
  BY <1>2, <1>3, <1>4, PresetTask, GoesOn

\* The import is over, or window w's task goes on with its phase.
LEMMA OverKeeps ==
  ASSUME CatalogInv, NEW w \in Windows, Presets!Closes(w), Presets!Over(w), UNCHANGED <<store, done, history>>
  PROVE  CatalogInv'
<1> DEFINE p == [phase[w] EXCEPT !.at = "over"]
<1>1. phase[w] \in Phases /\ phase \in [Windows -> Phases] /\ NoticeHolds(phase[w].notice, store, history)
  BY DEF CatalogInv, CatalogShape
<1>2. p \in Phases /\ p.notice = phase[w].notice /\ phase' = [phase EXCEPT ![w] = p]
  BY <1>1 DEF Phases, Presets!Over
<1>3. task' = [task EXCEPT ![w] = Presets!NoTask] /\ done' \in [tasks : Nat, failures : Nat, stamps : Nat]
  BY Readings DEF Presets!Closes, Presets!Goes
<1>4. /\ store' \in Stores /\ history' \in Histories /\ store' = store /\ history' = history
      /\ StoreHolds(store', history')
  BY DEF CatalogInv, CatalogShape
<1>5. Later(store, history, store', history')
  BY <1>4, LaterRefl
<1> HIDE DEF p
<1> QED
  BY <1>1, <1>2, <1>3, <1>4, <1>5, NoTaskHolds, StepKeeps

LEMMA ImportReadsPrefsKeeps ==
  ASSUME CatalogInv, NEW w \in Windows, Presets!ImportReadsPrefs(w)
  PROVE  CatalogInv'
<1> DEFINE t == task[w]
           moved == t.read.rolesRev # t.roles.rolesRev \/ store.prefsRev # t.prefs.prefsRev
           next == [t EXCEPT !.at = "write", !.read = Presets!ByDefault(t), !.tries = 0,
                             !.clean = history.unrecorded = {}]
<1>1. t \in PresetTasks /\ PresetHolds(t, store, history) /\ t.at = "prefs"
  BY PresetOf DEF Presets!ImportReadsPrefs, Presets!At
<1>2. CASE Presets!AlreadyPresent(t) \/ (moved /\ t.tries = 1)
  BY <1>2, OverKeeps DEF Presets!ImportReadsPrefs
<1>3. CASE ~Presets!AlreadyPresent(t) /\ moved /\ t.tries # 1
  <2> DEFINE u == [Presets!PreviewAgain(t) EXCEPT !.tries = 1]
  <2>0. t.kind = "sync" => ~t.auto
    BY <1>1 DEF PresetHolds
  <2>1. u \in PresetTasks /\ PresetHolds(u, store, history)
    BY <1>1, <2>0, PreviewAgainHolds
  <2>2. Presets!Goes(w, u) /\ UNCHANGED <<store, phase, done, history>>
    BY <1>3 DEF Presets!ImportReadsPrefs
  <2> HIDE DEF u
  <2> QED
    BY <2>1, <2>2, PresetTask, GoesOn
<1>4. CASE ~Presets!AlreadyPresent(t) /\ ~moved
  <2>1. Presets!ByDefault(t) \in SUBSET Templates
    BY DEF Presets!ByDefault
  <2>2. next \in PresetTasks
    BY ZenonT(60), <1>1, <2>1 DEF PresetTasks
  <2>3. t.auto /\ history.unrecorded = {} => history.deleted = {}
    BY <1>4 DEF Presets!AlreadyPresent, CatalogInv, StoreHolds, Touched
  <2>4. PresetHolds(next, store, history)
    BY <1>1, <2>1, <2>3 DEF PresetHolds, PresetTasks
  <2>5. Presets!Goes(w, next) /\ UNCHANGED <<store, phase, done, history>>
    BY <1>4 DEF Presets!ImportReadsPrefs
  <2> HIDE DEF next
  <2> QED
    BY <2>2, <2>4, <2>5, PresetTask, GoesOn
<1> QED
  BY <1>2, <1>3, <1>4

LEMMA ConfirmKeeps ==
  ASSUME CatalogInv, NEW w \in Windows, NEW ids \in SUBSET Templates, Presets!Confirm(w, ids)
  PROVE  CatalogInv'
<1> DEFINE t == [task[w] EXCEPT !.at = "reading", !.read = ids]
<1>1. task[w] \in PresetTasks /\ PresetHolds(task[w], store, history) /\ task[w].at = "choose"
  BY PresetOf DEF Presets!Confirm, Presets!At
<1>2. t \in PresetTasks
  BY <1>1 DEF PresetTasks
<1>3. PresetHolds(t, store, history)
  BY <1>1 DEF PresetHolds, PresetTasks
<1>4. Presets!Goes(w, t) /\ UNCHANGED <<store, phase, done, history>>
  BY DEF Presets!Confirm
<1> HIDE DEF t
<1> QED
  BY <1>2, <1>3, <1>4, PresetTask, GoesOn

LEMMA SyncReadsRolesKeeps ==
  ASSUME CatalogInv, NEW w \in Windows, Presets!SyncReadsRoles(w)
  PROVE  CatalogInv'
<1> DEFINE t == task[w]
<1>1. /\ t \in PresetTasks /\ PresetHolds(t, store, history) /\ t.at = "reading"
      /\ t.kind = "sync"
  BY PresetOf DEF Presets!SyncReadsRoles, Presets!At
<1>2. UNCHANGED <<store, phase, done, history>>
  BY DEF Presets!SyncReadsRoles
<1>3. CASE Presets!Goes(w, Presets!PreviewAgain(t))
  <2>1. t.kind = "sync" => ~t.auto
    BY <1>1 DEF PresetHolds
  <2> QED
    BY <1>1, <1>2, <1>3, <2>1, PreviewAgainHolds, PresetTask, GoesOn
<1>4. CASE Presets!Goes(w, [t EXCEPT !.at = "write"])
  <2> DEFINE u == [t EXCEPT !.at = "write"]
  <2>1. u \in PresetTasks
    BY <1>1 DEF PresetTasks
  <2>2. PresetHolds(u, store, history)
    BY <1>1 DEF PresetHolds, PresetTasks
  <2>3. Presets!Goes(w, u)
    BY <1>4
  <2> HIDE DEF u
  <2> QED
    BY <1>2, <2>1, <2>2, <2>3, PresetTask, GoesOn
<1>5. CASE Presets!Goes(w, [t EXCEPT !.at = "record", !.rows = store.rows, !.tries = 0])
  <2> DEFINE u == [t EXCEPT !.at = "record", !.rows = store.rows, !.tries = 0]
  <2>1. store.rows \in RowSets /\ RowsTold(store.rows, store, history)
    BY DEF CatalogInv, CatalogShape, Stores, StoreHolds
  <2>2. u \in PresetTasks
    BY <1>1, <2>1 DEF PresetTasks
  <2>3. PresetHolds(u, store, history)
    BY <1>1, <2>1 DEF PresetHolds, PresetTasks
  <2>4. Presets!Goes(w, u)
    BY <1>5
  <2> HIDE DEF u
  <2> QED
    BY <1>2, <2>2, <2>3, <2>4, PresetTask, GoesOn
<1> QED
  BY <1>3, <1>4, <1>5 DEF Presets!SyncReadsRoles

(* The presets are written and recorded. *)
\* What a write of presets, and of their record, makes of the history.
LEMMA HistoryOf ==
  ASSUME NEW h \in Histories, NEW ids \in SUBSET RoleIds, NEW left \in SUBSET Nat, NEW h2,
         h2 = [lost |-> h.lost, back |-> h.back, deleted |-> h.deleted,
               ever |-> h.ever \cup ids, unrecorded |-> left]
  PROVE  /\ h2 \in Histories /\ h2.lost = h.lost /\ h2.back = h.back /\ h2.deleted = h.deleted
         /\ h2.ever = h.ever \cup ids /\ h2.unrecorded = left
BY DEF Histories
LEMMA UnrecordedOf ==
  ASSUME NEW h \in Histories, NEW n \in Nat
  PROVE  h.unrecorded \cup {n} \in SUBSET Nat /\ h.unrecorded \ {n} \in SUBSET Nat
BY DEF Histories

\* What the two writes make of the documents.
PresetsAreIn(t, rows) ==
  /\ store' = [store EXCEPT !.rolesRev = @ + 1, !.rows = rows]
  /\ history' = [history EXCEPT
       !.lost = @ \cup {i \in t.read : store.rows[i] # Presets!Before(t, i)} \cup Presets!ChangedBesides(rows, t.read),
       !.ever = @ \cup t.read,
       !.back = IF t.auto /\ t.clean THEN @ \cup (t.read \cap history.deleted) ELSE @,
       !.unrecorded = @ \cup {t.no}]
RecordIsIn(t) ==
  /\ store' = [store EXCEPT !.prefsRev = @ + 1, !.imported = TRUE, !.max = t.read.max,
                            !.seen = t.read.seen \cup Presets!Recorded(t)]
  /\ history' = [history EXCEPT !.unrecorded = @ \ {t.no},
                     !.lost = IF t.read.max # store.max THEN @ \cup {"max"} ELSE @]

\* The presets are written at the revision they were chosen at.
LEMMA PresetsWritten ==
  ASSUME CatalogInv, NEW t \in PresetTasks, PresetHolds(t, store, history), t.at = "write",
         NEW rows, rows = Presets!Applied(t, t.read),
         Presets!Fresh(store.rolesRev, t.roles.rolesRev), PresetsAreIn(t, rows)
  PROVE  /\ store' \in Stores /\ history' \in Histories
         /\ Later(store, history, store', history') /\ StoreHolds(store', history')
         /\ rows \in RowSets /\ RowsTold(rows, store', history')
<1>1. store \in Stores /\ history \in Histories /\ StoreHolds(store, history)
  BY DEF CatalogInv, CatalogShape
<1>2. /\ t.read \in SUBSET Templates /\ t.roles \in RoleReads /\ RoleNote(t.roles, store, history)
  BY DEF PresetHolds
<1>3. t.roles.rows = store.rows /\ store.rolesRev = t.roles.rolesRev
  BY <1>2 DEF Presets!Fresh, RoleNote
<1>4. done.stamps + 1 \in Nat
  BY Readings
<1>5. Presets!Role(TRUE, TRUE, done.stamps + 1) \in Rows
  BY <1>4 DEF Presets!Role, Rows
<1>6. \A i \in RoleIds :
        rows[i] = IF i \in t.read THEN Presets!Role(TRUE, TRUE, done.stamps + 1) ELSE store.rows[i]
  BY <1>3 DEF Presets!Applied
<1>7. rows \in RowSets
  BY <1>1, <1>2, <1>3, <1>5 DEF Presets!Applied, RowSets, RoleReads
<1>8. {i \in t.read : store.rows[i] # Presets!Before(t, i)} = {} /\ Presets!ChangedBesides(rows, t.read) = {}
  BY <1>3, <1>6 DEF Presets!Before, Presets!ChangedBesides
<1>9. t.auto /\ t.clean => history.deleted = {}
  BY <1>3 DEF PresetHolds
<1>10. t.no \in Nat
  BY DEF PresetTasks
<1>11. /\ store'.rolesRev = store.rolesRev + 1 /\ store'.rows = rows
       /\ store'.prefsRev = store.prefsRev /\ store'.imported = store.imported
       /\ store'.seen = store.seen /\ store'.max = store.max /\ store' \in Stores
  <2>1. store = [rolesRev |-> store.rolesRev, rows |-> store.rows, prefsRev |-> store.prefsRev,
                 imported |-> store.imported, seen |-> store.seen, max |-> store.max]
    BY <1>1 DEF Stores
  <2>2. store' = [rolesRev |-> store.rolesRev + 1, rows |-> rows, prefsRev |-> store.prefsRev,
                  imported |-> store.imported, seen |-> store.seen, max |-> store.max]
    BY <2>1 DEF PresetsAreIn
  <2>3. /\ store.rolesRev + 1 \in Nat /\ store.prefsRev \in Nat /\ store.imported \in BOOLEAN
        /\ store.seen \in SUBSET Templates /\ store.max \in Nat
    BY <1>1 DEF Stores
  <2> QED
    BY <1>7, <2>2, <2>3 DEF Stores
<1>12. history' = [lost |-> history.lost, back |-> history.back, deleted |-> history.deleted,
                   ever |-> history.ever \cup t.read, unrecorded |-> history.unrecorded \cup {t.no}]
  <2>1. /\ (IF t.auto /\ t.clean THEN history.back \cup (t.read \cap history.deleted)
             ELSE history.back) = history.back
        /\ history.lost \cup {i \in t.read : store.rows[i] # Presets!Before(t, i)}
             \cup Presets!ChangedBesides(rows, t.read) = history.lost
    BY <1>8, <1>9
  <2>2. history = [lost |-> history.lost, back |-> history.back, deleted |-> history.deleted,
                   ever |-> history.ever, unrecorded |-> history.unrecorded]
    BY <1>1 DEF Histories
  <2>3. history' = [history EXCEPT !.lost = history.lost, !.ever = @ \cup t.read,
                                   !.back = history.back, !.unrecorded = @ \cup {t.no}]
    BY <2>1 DEF PresetsAreIn
  <2> QED
    BY <2>2, <2>3
<1>13. /\ history' \in Histories /\ history'.lost = history.lost /\ history'.back = history.back
       /\ history'.deleted = history.deleted /\ history'.ever = history.ever \cup t.read
       /\ history'.unrecorded # {}
  <2>1. t.read \in SUBSET RoleIds /\ history.unrecorded \cup {t.no} \in SUBSET Nat
    BY <1>1, <1>2, <1>10, CatalogAssumption, UnrecordedOf
  <2> QED
    BY <1>1, <1>12, <2>1, HistoryOf
<1>14. Touched(store', history')
  BY <1>13 DEF Touched
<1>15. Later(store, history, store', history')
  BY <1>1, <1>11, <1>13, <1>14 DEF Later, Stores
<1>16. RowsTold(rows, store', history')
  <2>1. \A i \in RoleIds : RowTold(rows[i], store', history')
    BY <1>14 DEF RowTold
  <2>2. ASSUME NEW i \in Templates, Presets!IsTemplate(rows, i) PROVE i \in history'.ever
    <3>1. CASE i \in t.read
      BY <1>13, <3>1
    <3>2. CASE i \notin t.read
      <4>1. Presets!IsTemplate(store.rows, i)
        BY <1>6, <2>2, <3>2, CatalogAssumption DEF Presets!IsTemplate
      <4> QED
        BY <1>1, <1>13, <4>1 DEF StoreHolds, RowsTold
    <3> QED
      BY <3>1, <3>2
  <2> QED
    BY <2>1, <2>2 DEF RowsTold
<1>17. StoreHolds(store', history')
  BY <1>1, <1>11, <1>13, <1>14, <1>16 DEF StoreHolds
<1> QED
  BY <1>7, <1>11, <1>13, <1>15, <1>16, <1>17

LEMMA PresetWritesKeeps ==
  ASSUME CatalogInv, NEW w \in Windows, NEW reply, Presets!PresetWrites(w, reply)
  PROVE  CatalogInv'
<1> DEFINE t == task[w]
           rows == Presets!Applied(t, t.read)
           saved == [t EXCEPT !.at = "record", !.rows = rows, !.read = None, !.tries = 0]
           again == [t EXCEPT !.at = "choose", !.read = None]
           next == IF reply = "saved" THEN saved
                   ELSE IF t.kind = "import" THEN Presets!NoTask
                   ELSE IF reply = "conflict" THEN Presets!PreviewAgain(t) ELSE again
           p == IF t.kind = "import" /\ reply # "saved" THEN [phase[w] EXCEPT !.at = "over"] ELSE phase[w]
<1>1. /\ t \in PresetTasks /\ PresetHolds(t, store, history) /\ t.at = "write"
      /\ t.kind \in {"import", "sync"}
  BY PresetOf DEF Presets!PresetWrites
<1>2. /\ task' = [task EXCEPT ![w] = next] /\ Presets!Counted(reply, Presets!Effective(reply))
      /\ Presets!Result(reply, store.rolesRev, t.roles.rolesRev)
  BY DEF Presets!PresetWrites, Presets!Goes
<1>3. /\ phase[w] \in Phases /\ phase \in [Windows -> Phases] /\ store \in Stores
      /\ NoticeHolds(phase[w].notice, store, history) /\ history \in Histories
      /\ StoreHolds(store, history)
  BY DEF CatalogInv, CatalogShape
<1>4. p \in Phases /\ p.notice = phase[w].notice /\ phase' = [phase EXCEPT ![w] = p]
  BY <1>3 DEF Presets!PresetWrites, Presets!Over, Phases
<1>5. done' \in [tasks : Nat, failures : Nat, stamps : Nat]
  <2>1. Presets!Effective(reply) \in BOOLEAN
    BY DEF Presets!Effective
  <2> QED
    BY <1>2, <2>1, CountTyped
<1>6. /\ store' \in Stores /\ history' \in Histories
      /\ Later(store, history, store', history') /\ StoreHolds(store', history')
      /\ Presets!Effective(reply) => rows \in RowSets /\ RowsTold(rows, store', history')
  <2>1. CASE Presets!Effective(reply)
    <3>1. Presets!Fresh(store.rolesRev, t.roles.rolesRev)
      BY <1>2, <2>1 DEF Presets!Effective, Presets!Result
    <3> QED
      BY <1>1, <2>1, <3>1, PresetsWritten DEF Presets!PresetWrites, PresetsAreIn
  <2>2. CASE ~Presets!Effective(reply)
    <3>1. UNCHANGED <<store, history>>
      BY <2>2 DEF Presets!PresetWrites
    <3> QED
      BY <1>3, <2>2, <3>1, LaterRefl
  <2> QED
    BY SMTT(40), <2>1, <2>2
<1>7. PresetHolds(t, store', history')
  BY <1>1, <1>3, <1>6, PresetTask, TaskStays DEF TaskHolds
<1>8. next \in Tasks /\ TaskHolds(next, store', history')
  <2>1. CASE reply = "saved"
    <3>1. rows \in RowSets /\ RowsTold(rows, store', history')
      BY <1>6, <2>1 DEF Presets!Effective
    <3>2. saved \in PresetTasks
      BY <1>1, <3>1 DEF PresetTasks
    <3>3. PresetHolds(saved, store', history')
      BY <1>1, <1>7, <3>1 DEF PresetHolds, PresetTasks
    <3> QED
      BY <2>1, <3>2, <3>3, PresetTask
  <2>2. CASE next = Presets!NoTask
    BY <2>2, NoTaskHolds
  <2>3. CASE next = Presets!PreviewAgain(t)
    <3>1. t.kind = "sync" => ~t.auto
      BY <1>1 DEF PresetHolds
    <3> HIDE DEF t, next, again, saved, rows
    <3>2. Presets!PreviewAgain(t) \in PresetTasks /\ PresetHolds(Presets!PreviewAgain(t), store', history')
      BY <1>1, <3>1, PreviewAgainHolds
    <3> QED
      BY <2>3, <3>2, PresetTask
  <2>4. again \in Tasks /\ TaskHolds(again, store', history')
    <3>1. again \in PresetTasks
      BY <1>1 DEF PresetTasks
    <3>2. PresetHolds(again, store', history')
      BY <1>1, <1>7 DEF PresetHolds, PresetTasks
    <3> QED
      BY <3>1, <3>2, PresetTask
  <2> QED
    BY <2>1, <2>2, <2>3, <2>4
<1> HIDE DEF t, rows, saved, again, next, p
<1>9. NoticeHolds(p.notice, store', history')
  BY <1>3, <1>4, <1>6, NoticeStays
<1> QED
  BY <1>2, <1>4, <1>5, <1>6, <1>8, <1>9, StepKeeps

LEMMA RecordReadsKeeps ==
  ASSUME CatalogInv, NEW w \in Windows, Presets!RecordReads(w)
  PROVE  CatalogInv'
<1> DEFINE t == [task[w] EXCEPT !.at = "recording", !.read = Presets!PrefsRead]
<1>1. task[w] \in PresetTasks /\ PresetHolds(task[w], store, history) /\ task[w].at = "record"
  BY PresetOf DEF Presets!RecordReads
<1>2. t \in PresetTasks
  BY <1>1, Readings DEF PresetTasks
<1>3. PresetHolds(t, store, history)
  BY <1>1, Readings DEF PresetHolds, PresetTasks
<1>4. Presets!Goes(w, t) /\ UNCHANGED <<store, phase, done, history>>
  BY DEF Presets!RecordReads
<1> HIDE DEF t
<1> QED
  BY <1>2, <1>3, <1>4, PresetTask, GoesOn

LEMMA RetryRecordKeeps ==
  ASSUME CatalogInv, NEW w \in Windows, Presets!RetryRecord(w)
  PROVE  CatalogInv'
<1> DEFINE n == phase[w].notice
           t == [n EXCEPT !.kind = "record", !.at = "record", !.tries = 0]
<1>1. n # None /\ NoticeHolds(n, store, history)
  BY TaskOf DEF Presets!RetryRecord
<1>2. n \in PresetTasks
  BY <1>1 DEF NoticeHolds
<1>3. t \in PresetTasks
  BY <1>2 DEF PresetTasks
<1>4. PresetHolds(t, store, history)
  BY <1>1, <1>2 DEF PresetHolds, NoticeHolds, PresetTasks
<1>5. Presets!Opens(w, t) /\ UNCHANGED <<store, phase, history>>
  BY DEF Presets!RetryRecord
<1> HIDE DEF t
<1> QED
  BY <1>3, <1>4, <1>5, PresetTask, OpensKeeps

\* A record of what was imported is written at the revision it was read at.
LEMMA RecordWritten ==
  ASSUME CatalogInv, NEW t \in PresetTasks, PresetHolds(t, store, history), t.at = "recording",
         Presets!Fresh(store.prefsRev, t.read.prefsRev), RecordIsIn(t)
  PROVE  /\ store' \in Stores /\ history' \in Histories
         /\ Later(store, history, store', history') /\ StoreHolds(store', history')
<1>1. store \in Stores /\ history \in Histories /\ StoreHolds(store, history)
  BY DEF CatalogInv, CatalogShape
<1>2. /\ t.read \in PrefReads /\ PrefNote(t.read, store, history)
      /\ t.rows \in RowSets /\ RowsTold(t.rows, store, history)
      /\ t.roles \in RoleReads /\ RoleNote(t.roles, store, history)
  BY DEF PresetHolds
<1>3. t.read.max = store.max /\ t.read.seen \subseteq history.ever
  BY <1>2 DEF Presets!Fresh, PrefNote
<1>4. Presets!Recorded(t) \subseteq Templates /\ Presets!Recorded(t) \subseteq history.ever
  <2>1. Presets!Recorded(t) \subseteq Templates
    BY DEF Presets!Recorded
  <2>2. ASSUME NEW i \in Presets!Recorded(t) PROVE i \in history.ever
    <3>1. i \in Templates /\ t.rows[i] # None /\ (t.rows[i].preset \/ Presets!RowKind(t, i) = "same")
      BY <2>2 DEF Presets!Recorded
    <3>2. CASE t.rows[i].preset
      BY <1>2, <3>1, <3>2 DEF RowsTold, Presets!IsTemplate
    <3>3. CASE Presets!RowKind(t, i) = "same"
      <4>1. t.roles.rows[i] # None /\ t.roles.rows[i].same
        BY <3>3 DEF Presets!RowKind, Presets!Before
      <4>2. Presets!IsTemplate(t.roles.rows, i)
        BY <3>1, <4>1 DEF Presets!IsTemplate
      <4> QED
        BY <1>2, <3>1, <4>2 DEF RoleNote, RowsTold
    <3> QED
      BY <3>1, <3>2, <3>3
  <2> QED
    BY <2>1, <2>2
<1>5. /\ store' \in Stores /\ store'.rolesRev = store.rolesRev /\ store'.rows = store.rows
      /\ store'.prefsRev = store.prefsRev + 1 /\ store'.imported = TRUE
      /\ store'.seen = t.read.seen \cup Presets!Recorded(t)
  <2>1. store = [rolesRev |-> store.rolesRev, rows |-> store.rows, prefsRev |-> store.prefsRev,
                 imported |-> store.imported, seen |-> store.seen, max |-> store.max]
    BY <1>1 DEF Stores
  <2>2. store' = [rolesRev |-> store.rolesRev, rows |-> store.rows, prefsRev |-> store.prefsRev + 1,
                  imported |-> TRUE, seen |-> t.read.seen \cup Presets!Recorded(t), max |-> t.read.max]
    BY <2>1 DEF RecordIsIn
  <2>3. /\ store.rolesRev \in Nat /\ store.prefsRev + 1 \in Nat /\ store.rows \in RowSets
        /\ t.read.seen \cup Presets!Recorded(t) \in SUBSET Templates /\ t.read.max \in Nat
    BY <1>1, <1>2, <1>4 DEF Stores, PrefReads
  <2> QED
    BY <2>2, <2>3 DEF Stores
<1>6. history' = [lost |-> history.lost, back |-> history.back, deleted |-> history.deleted,
                  ever |-> history.ever \cup {}, unrecorded |-> history.unrecorded \ {t.no}]
  <2>1. history = [lost |-> history.lost, back |-> history.back, deleted |-> history.deleted,
                   ever |-> history.ever, unrecorded |-> history.unrecorded]
    BY <1>1 DEF Histories
  <2>2. history' = [history EXCEPT !.unrecorded = @ \ {t.no}, !.lost = history.lost]
    BY <1>3 DEF RecordIsIn
  <2> QED
    BY <2>1, <2>2
<1>7. /\ history' \in Histories /\ history'.lost = history.lost /\ history'.back = history.back
      /\ history'.deleted = history.deleted /\ history'.ever = history.ever
  <2>1. t.no \in Nat
    BY DEF PresetTasks
  <2>2. history.unrecorded \ {t.no} \in SUBSET Nat /\ {} \in SUBSET RoleIds
    BY <1>1, <2>1, UnrecordedOf
  <2> QED
    BY <1>1, <1>6, <2>2, HistoryOf
<1>8. Touched(store', history')
  BY <1>5 DEF Touched
<1>9. Later(store, history, store', history')
  BY <1>1, <1>5, <1>7, <1>8 DEF Later, Stores
<1>10. RowsTold(store'.rows, store', history')
  BY <1>1, <1>5, <1>9, NotesStay DEF StoreHolds
<1>11. StoreHolds(store', history')
  BY <1>1, <1>3, <1>4, <1>5, <1>7, <1>8, <1>10 DEF StoreHolds
<1> QED
  BY <1>5, <1>7, <1>9, <1>11

LEMMA RecordWritesKeeps ==
  ASSUME CatalogInv, NEW w \in Windows, NEW reply \in Presets!WriteResults, Presets!RecordWrites(w, reply)
  PROVE  CatalogInv'
<1> DEFINE t == task[w]
           again == [t EXCEPT !.at = "record", !.read = None, !.tries = 1]
           choose == [t EXCEPT !.at = "choose", !.read = None, !.rows = None]
           notice == [t EXCEPT !.read = None]
           ended == [phase[w] EXCEPT !.at = IF t.kind = "import" THEN "over" ELSE @]
           next == IF reply = "conflict" /\ t.tries = 0 THEN again
                   ELSE IF t.kind = "sync" /\ reply # "saved" THEN choose ELSE Presets!NoTask
           p == IF (reply = "conflict" /\ t.tries = 0) \/ t.kind = "sync" THEN phase[w]
                ELSE [ended EXCEPT !.notice = IF reply = "saved" THEN None ELSE notice]
<1>1. /\ t \in PresetTasks /\ PresetHolds(t, store, history) /\ t.at = "recording"
      /\ t.kind \in {"import", "sync", "record"}
  BY PresetOf DEF Presets!RecordWrites
<1>2. /\ task' = [task EXCEPT ![w] = next] /\ Presets!Counted(reply, FALSE)
      /\ Presets!Result(reply, store.prefsRev, t.read.prefsRev)
  BY DEF Presets!RecordWrites, Presets!Goes
<1>3. /\ phase[w] \in Phases /\ phase \in [Windows -> Phases] /\ store \in Stores
      /\ NoticeHolds(phase[w].notice, store, history) /\ history \in Histories
      /\ StoreHolds(store, history)
  BY DEF CatalogInv, CatalogShape
<1>4. /\ notice \in PresetTasks /\ notice.roles = t.roles /\ notice.prefs = t.prefs
      /\ notice.rows = t.rows
  BY <1>1 DEF PresetTasks
<1>5. phase' = [phase EXCEPT ![w] = p]
  <2>1. CASE reply = "conflict" /\ t.tries = 0
    BY <1>3, <2>1 DEF Presets!RecordWrites
  <2>2. CASE ~(reply = "conflict" /\ t.tries = 0)
    BY <1>3, <2>2 DEF Presets!RecordWrites
  <2> QED
    BY <2>1, <2>2
<1>6. p \in Phases /\ p.notice \in {phase[w].notice, None, notice}
  <2>1. ended \in Phases
    BY <1>3 DEF Phases
  <2> HIDE DEF ended, notice
  <2>2. [ended EXCEPT !.notice = None] \in Phases /\ [ended EXCEPT !.notice = None].notice = None
    BY <2>1 DEF Phases
  <2>3. [ended EXCEPT !.notice = notice] \in Phases /\ [ended EXCEPT !.notice = notice].notice = notice
    BY <1>4, <2>1 DEF Phases
  <2> QED
    BY <1>3, <2>2, <2>3
<1>7. done' \in [tasks : Nat, failures : Nat, stamps : Nat]
  BY <1>2, CountTyped
<1>8. /\ store' \in Stores /\ history' \in Histories
      /\ Later(store, history, store', history') /\ StoreHolds(store', history')
  <2>1. CASE Presets!Effective(reply)
    <3>1. Presets!Fresh(store.prefsRev, t.read.prefsRev)
      BY <1>2, <2>1 DEF Presets!Effective, Presets!Result
    <3> QED
      BY <1>1, <2>1, <3>1, RecordWritten DEF Presets!RecordWrites, RecordIsIn
  <2>2. CASE ~Presets!Effective(reply)
    <3>1. UNCHANGED <<store, history>>
      BY <2>2 DEF Presets!RecordWrites
    <3> QED
      BY <1>3, <2>2, <3>1, LaterRefl
  <2> QED
    BY <2>1, <2>2
<1>9. PresetHolds(t, store', history')
  BY <1>1, <1>3, <1>8, PresetTask, TaskStays DEF TaskHolds
<1>10. next \in Tasks /\ TaskHolds(next, store', history')
  <2>1. again \in PresetTasks /\ choose \in PresetTasks
    BY <1>1 DEF PresetTasks
  <2>2. PresetHolds(again, store', history') /\ PresetHolds(choose, store', history')
    BY <1>1, <1>9 DEF PresetHolds, PresetTasks
  <2> HIDE DEF again, choose
  <2> QED
    BY <2>1, <2>2, PresetTask, NoTaskHolds
<1>11. NoticeHolds(p.notice, store', history')
  <2>1. NoticeHolds(phase[w].notice, store', history')
    BY <1>3, <1>8, NoticeStays
  <2>2. NoticeHolds(None, store', history')
    BY DEF NoticeHolds
  <2>3. NoticeHolds(notice, store', history')
    BY <1>1, <1>4, <1>9 DEF NoticeHolds, PresetHolds
  <2> QED
    BY <1>6, <2>1, <2>2, <2>3
<1> HIDE DEF t, again, choose, notice, ended, next, p
<1> QED
  BY <1>2, <1>5, <1>6, <1>7, <1>8, <1>10, <1>11, StepKeeps

(* The editor of maxMembers. *)
LEMMA OpenMaxKeeps ==
  ASSUME CatalogInv, NEW w \in Windows, Presets!OpenMax(w)
  PROVE  CatalogInv'
<1> DEFINE t == [kind |-> "max", at |-> "open"]
<1>1. t \in LimitTasks /\ LimitHolds(t, store, history)
  BY DEF LimitTasks, LimitHolds
<1>2. Presets!Opens(w, t) /\ UNCHANGED <<store, phase, history>>
  BY DEF Presets!OpenMax
<1> HIDE DEF t
<1> QED
  BY <1>1, <1>2, LimitTask, OpensKeeps

LEMMA MaxLoadsKeeps ==
  ASSUME CatalogInv, NEW w \in Windows, Presets!MaxLoads(w)
  PROVE  CatalogInv'
<1> DEFINE t == [kind |-> "max", at |-> "editing", read |-> Presets!PrefsRead]
<1>1. t \in LimitTasks /\ LimitHolds(t, store, history)
  BY Readings DEF LimitTasks, LimitHolds
<1>2. Presets!Goes(w, t) /\ UNCHANGED <<store, phase, done, history>>
  BY DEF Presets!MaxLoads
<1> HIDE DEF t
<1> QED
  BY <1>1, <1>2, LimitTask, GoesOn

LEMMA MaxWritesKeeps ==
  ASSUME CatalogInv, NEW w \in Windows, NEW reply \in Presets!WriteResults, Presets!MaxWrites(w, reply)
  PROVE  CatalogInv'
<1> DEFINE t == task[w]
           next == IF reply = "saved" THEN Presets!NoTask ELSE t
<1>1. /\ t \in LimitTasks /\ LimitHolds(t, store, history) /\ t.at = "editing"
      /\ t \in Tasks /\ TaskHolds(t, store, history)
  BY TaskOf DEF Presets!MaxWrites, Presets!At
<1>2. t.read \in PrefReads /\ PrefNote(t.read, store, history)
  BY <1>1 DEF LimitTasks, LimitHolds
<1>3. /\ phase[w] \in Phases /\ phase \in [Windows -> Phases] /\ store \in Stores
      /\ NoticeHolds(phase[w].notice, store, history) /\ history \in Histories
      /\ StoreHolds(store, history) /\ done.stamps + 1 \in Nat /\ task \in [Windows -> Tasks]
  BY Readings DEF CatalogInv, CatalogShape
<1>4. task' = [task EXCEPT ![w] = next] /\ phase' = [phase EXCEPT ![w] = phase[w]]
  BY <1>3 DEF Presets!MaxWrites, Presets!Closes, Presets!Goes
<1>5. done' \in [tasks : Nat, failures : Nat, stamps : Nat]
  <2>1. Presets!Effective(reply) \in BOOLEAN /\ Presets!Counted(reply, Presets!Effective(reply))
    BY DEF Presets!Effective, Presets!MaxWrites
  <2> QED
    BY <2>1, CountTyped
<1>6. /\ store' \in Stores /\ history' \in Histories
      /\ Later(store, history, store', history') /\ StoreHolds(store', history')
  <2>1. CASE Presets!Effective(reply)
    <3>1. Presets!Fresh(store.prefsRev, t.read.prefsRev)
      BY <2>1 DEF Presets!MaxWrites, Presets!Effective, Presets!Result
    <3>2. t.read.imported = store.imported /\ t.read.seen = store.seen /\ t.read.max = store.max
      BY <1>2, <3>1 DEF Presets!Fresh, PrefNote
    <3>3. /\ store' = [store EXCEPT !.prefsRev = @ + 1, !.max = done.stamps + 1,
                                    !.imported = t.read.imported, !.seen = t.read.seen]
          /\ history' = [history EXCEPT !.lost = history.lost]
      BY <2>1, <3>2 DEF Presets!MaxWrites
    <3>4. history' = history
      BY <1>3, <3>3 DEF Histories
    <3>5. store = [rolesRev |-> store.rolesRev, rows |-> store.rows, prefsRev |-> store.prefsRev,
                   imported |-> store.imported, seen |-> store.seen, max |-> store.max]
      BY <1>3 DEF Stores
    <3>6. store' = [rolesRev |-> store.rolesRev, rows |-> store.rows, prefsRev |-> store.prefsRev + 1,
                    imported |-> store.imported, seen |-> store.seen, max |-> done.stamps + 1]
      BY <3>2, <3>3, <3>5
    <3>7. store' \in Stores
      BY <1>3, <3>6 DEF Stores
    <3>8. Later(store, history, store', history')
      BY <1>3, <3>4, <3>6 DEF Later, Stores, Touched
    <3>9. RowsTold(store'.rows, store', history')
      BY <1>3, <3>6, <3>7, <3>8, NotesStay DEF StoreHolds
    <3>10. StoreHolds(store', history')
      BY <1>3, <3>4, <3>6, <3>9 DEF StoreHolds, Touched
    <3> QED
      BY <1>3, <3>4, <3>7, <3>8, <3>10
  <2>2. CASE ~Presets!Effective(reply)
    <3>1. UNCHANGED <<store, history>>
      BY <2>2 DEF Presets!MaxWrites
    <3> QED
      BY <1>3, <3>1, LaterRefl
  <2> QED
    BY <2>1, <2>2
<1>7. next \in Tasks /\ TaskHolds(next, store', history')
  <2>1. TaskHolds(t, store', history')
    BY <1>1, <1>3, <1>6, TaskStays
  <2> QED
    BY <1>1, <2>1, NoTaskHolds
<1>8. NoticeHolds(phase[w].notice, store', history')
  BY <1>3, <1>6, NoticeStays
<1> HIDE DEF t, next
<1> QED
  BY <1>3, <1>4, <1>5, <1>6, <1>7, <1>8, StepKeeps

(* The windows. *)
LEMMA CloseStepKeeps ==
  ASSUME CatalogInv, NEW w \in Windows, Presets!Close(w)
  PROVE  CatalogInv'
BY CloseKeeps DEF Presets!Close

LEMMA ReopenKeeps ==
  ASSUME CatalogInv, NEW w \in Windows, Presets!Reopen(w)
  PROVE  CatalogInv'
<1> DEFINE p == [at |-> "idle", notice |-> None]
<1>1. p \in Phases /\ NoticeHolds(p.notice, store, history)
  BY DEF Phases, NoticeHolds
<1>2. /\ task[w] \in Tasks /\ task' = [task EXCEPT ![w] = task[w]] /\ TaskHolds(task[w], store, history)
      /\ phase' = [phase EXCEPT ![w] = p]
      /\ store' = store /\ history' = history /\ done' = done
  BY DEF Presets!Reopen, CatalogInv, CatalogShape
<1>3. /\ store \in Stores /\ history \in Histories /\ StoreHolds(store, history)
      /\ done \in [tasks : Nat, failures : Nat, stamps : Nat]
  BY DEF CatalogInv, CatalogShape
<1>4. Later(store, history, store', history')
  BY <1>2, <1>3, LaterRefl
<1> HIDE DEF p
<1> QED
  BY <1>1, <1>2, <1>3, <1>4, StepKeeps

LEMMA CatalogInit == Presets!Init => CatalogInv
<1> SUFFICES ASSUME Presets!Init PROVE CatalogInv
  OBVIOUS
<1>1. None \in Rows
  BY DEF Rows
<1>2. store \in Stores
  BY <1>1 DEF Presets!Init, Stores, RowSets
<1>3. history \in Histories /\ done \in [tasks : Nat, failures : Nat, stamps : Nat]
  <2>1. {} \in LostSets
    BY DEF LostSets
  <2> QED
    BY <2>1 DEF Presets!Init, Histories
<1>4. phase \in [Windows -> Phases] /\ \A w \in Windows : phase[w].notice = None
  BY DEF Presets!Init, Phases
<1>5. task \in [Windows -> Tasks] /\ \A w \in Windows : task[w] = Presets!NoTask
  BY NoTaskHolds DEF Presets!Init
<1>6. StoreHolds(store, history)
  BY CatalogAssumption DEF Presets!Init, StoreHolds, RowsTold, RowTold, Presets!IsTemplate
<1> QED
  BY <1>2, <1>3, <1>4, <1>5, <1>6, NoTaskHolds DEF CatalogInv, CatalogShape, NoticeHolds

LEMMA CatalogNext == CatalogInv /\ [Presets!Next]_Presets!catalogVars => CatalogInv'
<1> SUFFICES ASSUME CatalogInv, [Presets!Next]_Presets!catalogVars PROVE CatalogInv'
  OBVIOUS
<1>1. CASE UNCHANGED Presets!catalogVars
  <2>1. store' = store /\ phase' = phase /\ task' = task /\ done' = done /\ history' = history
    BY <1>1 DEF Presets!catalogVars
  <2> QED
    BY <2>1 DEF CatalogInv, CatalogShape
<1>2. ASSUME NEW w \in Windows, NEW i \in RoleIds, Presets!OpenEditor(w, i) \/ Presets!Remove(w, i) \/ Presets!Copy(w, i)
      PROVE  CatalogInv'
  BY <1>2, OpenEditorKeeps, RemoveKeeps
<1>3. ASSUME NEW w \in Windows,
             \/ Presets!EditorLoads(w) \/ Presets!Submit(w) \/ Presets!EditorReads(w) \/ Presets!EditAgain(w) \/ Presets!ReloadDraft(w)
             \/ Presets!FreshRoles(w)
      PROVE  CatalogInv'
  BY <1>3, EditorLoadsKeeps, SubmitKeeps, EditorReadsKeeps, EditAgainKeeps, ReloadDraftKeeps,
     FreshRolesKeeps
<1>4. ASSUME NEW w \in Windows,
             \/ Presets!PreviewRoles(w) \/ Presets!PreviewPrefs(w) \/ Presets!Previewed(w) \/ Presets!AutoImport(w) \/ Presets!ManualImport(w)
             \/ Presets!ImportReadsRoles(w) \/ Presets!ImportReadsPrefs(w)
      PROVE  CatalogInv'
  BY <1>4, PreviewKeeps, PreviewedKeeps, ImportKeeps, ImportReadsRolesKeeps,
     ImportReadsPrefsKeeps
<1>5. ASSUME NEW w \in Windows,
             \/ Presets!OpenSync(w) \/ (\E ids \in SUBSET Templates : Presets!Confirm(w, ids)) \/ Presets!SyncReadsRoles(w)
             \/ Presets!RecordReads(w) \/ Presets!RetryRecord(w)
      PROVE  CatalogInv'
  BY <1>5, OpenSyncKeeps, ConfirmKeeps, SyncReadsRolesKeeps, RecordReadsKeeps, RetryRecordKeeps
<1>6. ASSUME NEW w \in Windows, Presets!OpenMax(w) \/ Presets!MaxLoads(w) \/ Presets!Close(w) \/ Presets!Reopen(w)
      PROVE  CatalogInv'
  BY <1>6, OpenMaxKeeps, MaxLoadsKeeps, CloseStepKeeps, ReopenKeeps
<1>7. ASSUME NEW w \in Windows, NEW reply \in Presets!WriteResults,
             \/ Presets!EditorWrites(w, reply) \/ Presets!SaveRawRoles(w, reply) \/ Presets!PresetWrites(w, reply)
             \/ Presets!RecordWrites(w, reply) \/ Presets!MaxWrites(w, reply)
      PROVE  CatalogInv'
  BY <1>7, EditorWritesKeeps, SaveRawRolesKeeps, PresetWritesKeeps, RecordWritesKeeps, MaxWritesKeeps
<1> QED
  BY <1>1, <1>2, <1>3, <1>4, <1>5, <1>6, <1>7 DEF Presets!Next

(***************************************************************************)
(* II.  The version check.                                                 *)
(***************************************************************************)

SettingsAreReal == \A s \in Installations : s.facts \in Checking!Installations

Mid == {"record", "clean", "probe", "remove", "writeBack"}
CheckRecords == [pc : Checking!Steps, stale : SUBSET Checks, info : Checking!Infos, late : BOOLEAN]
CheckShape ==
  /\ kFacts \in Checking!Installations
  /\ kRefs \subseteq Checks /\ kFile \subseteq Checks
  /\ kCheck \in [Checks -> CheckRecords]
  /\ kSpoiled \in BOOLEAN

\* What a check that is under way may leave behind is in its own list, or is its
\* own ref while it removes that; both are on record.
OnRecord(c) ==
  /\ kCheck[c].stale \subseteq kFile
  /\ kCheck[c].pc # "record" => c \in kFile
  /\ kRefs \subseteq kCheck[c].stale \cup (IF kCheck[c].pc = "remove" THEN {c} ELSE {})
RefsInv ==
  ~kSpoiled =>
    /\ kRefs \subseteq kFile
    /\ \A c \in Checks : kCheck[c].pc \in Mid =>
         OnRecord(c) /\ \A d \in Checks \ {c} : kCheck[d].pc \notin Mid

\* What the button and the start look at holds of the installation itself.
Promised(f, info) ==
  /\ Checking!Source(f) \notin {"unknown", "npm"} /\ f.cli
  /\ Checking!Source(f) = "directory" => f.layout = "directory" /\ f.known /\ (f.isGit =>
       ~f.dirty /\ ~f.detached /\ f.upstream # "none")
  /\ info.relation # "unknown" => info.relation = "behind" /\ f.relation = "behind"
ButtonInv ==
  /\ \A c \in Checks : kCheck[c].info.found /\ kCheck[c].info.canUpdate => Promised(kFacts, kCheck[c].info)
  /\ kPress # "refused"
  /\ kPress = "blocked" =>
       \E c \in Checks : kCheck[c].pc = "ended" /\ kCheck[c].info.relation = "unknown"

CheckInv == CheckShape /\ RefsInv /\ ButtonInv

\* Only the private objects of the target may come to the installation.
LEMMA PresentOnly ==
  ASSUME NEW f \in Checking!Installations
  PROVE  LET g == [f EXCEPT !.present = TRUE] IN
         /\ g \in Checking!Installations
         /\ \A info : Promised(f, info) => Promised(g, info)
<1> DEFINE g == [f EXCEPT !.present = TRUE]
<1>1. g \in Checking!Installations
  BY DEF Checking!Installations
<1>2. /\ g.known = f.known /\ g.layout = f.layout /\ g.record = f.record /\ g.cli = f.cli
      /\ g.isGit = f.isGit /\ g.dirty = f.dirty /\ g.detached = f.detached
      /\ g.upstream = f.upstream /\ g.relation = f.relation
  BY DEF Checking!Installations
<1> HIDE DEF g
<1>3. Checking!Source(g) = Checking!Source(f)
  BY <1>2 DEF Checking!Source
<1>4. \A info : Promised(f, info) => Promised(g, info)
  BY <1>2, <1>3 DEF Promised
<1> QED
  BY <1>1, <1>4 DEF g

\* What a check finds out.
LEMMA DecideIsRight ==
  ASSUME NEW f \in Checking!Installations
  PROVE  LET info == Checking!Decide(f, Checking!Relate(f), Checking!Blockers(f) \cup Checking!TrackingReview(f)) IN
         /\ info \in Checking!Infos
         /\ info.found /\ info.canUpdate => Promised(f, info)
<1> DEFINE rel == Checking!Relate(f)
           blockers == Checking!Blockers(f) \cup Checking!TrackingReview(f)
           info == Checking!Decide(f, rel, blockers)
           available == ~(\/ Checking!Source(f) = "unknown" \/ Checking!Foreign(f)
                          \/ rel \in {"equal", "ahead", "diverged", "unrelated"})
           can == available /\ f.cli /\ blockers = {}
<1>1. rel \in Checking!Relations \cup {"unknown"} /\ (rel # "unknown" => rel = f.relation)
  BY DEF Checking!Relate, Checking!Installations, Checking!Relations
<1>2. info = [found |-> TRUE, relation |-> rel, updateAvailable |-> available, canUpdate |-> can]
  BY DEF Checking!Decide
<1>3. available \in BOOLEAN /\ can \in BOOLEAN
  BY DEF Checking!Installations
<1>4. info \in Checking!Infos /\ info.relation = rel /\ info.canUpdate = can
  <2> HIDE DEF rel, available, can, info
  <2> QED
    BY <1>1, <1>2, <1>3 DEF Checking!Infos
<1>5. ASSUME info.canUpdate PROVE Promised(f, info)
  <2>1. blockers = {} /\ f.cli /\ Checking!Source(f) # "unknown" /\ ~Checking!Foreign(f)
        /\ rel \notin {"equal", "ahead", "diverged", "unrelated"}
    BY <1>4, <1>5
  <2>2. Checking!Source(f) \notin {"unknown", "npm"}
    BY <2>1 DEF Checking!Foreign
  <2>3. Checking!CheckoutBlockers(f) = {}
    BY <2>1 DEF Checking!Blockers
  <2>4. Checking!Source(f) = "directory" => f.layout = "directory" /\ f.known
    BY DEF Checking!Source
  <2>5. Checking!Checkout(f) => Checking!If(Checking!Checkout(f) /\ f.dirty, "dirty") = {} /\ Checking!If(Checking!Checkout(f) /\ f.detached, "detached_head") = {}
                       /\ Checking!If(Checking!OnBranch(f) /\ f.upstream = "none", "no_upstream") = {}
    BY <2>3 DEF Checking!CheckoutBlockers
  <2>6. Checking!Checkout(f) => ~f.dirty /\ ~f.detached /\ f.upstream # "none"
    BY <2>5 DEF Checking!If, Checking!OnBranch
  <2>7. Checking!Source(f) = "directory" => (f.isGit => Checking!Checkout(f))
    BY <2>4 DEF Checking!Checkout
  <2>8. rel # "unknown" => rel = "behind" /\ f.relation = "behind"
    BY <1>1, <2>1 DEF Checking!Relations
  <2> QED
    BY <1>4, <2>1, <2>2, <2>4, <2>6, <2>7, <2>8 DEF Promised
<1> QED
  BY <1>4, <1>5

\* A step of one check.
LEMMA InfoIsKept ==
  ASSUME ButtonInv, CheckShape, NEW c \in Checks, NEW r \in CheckRecords,
         kCheck' = [kCheck EXCEPT ![c] = r],
         r.info = kCheck[c].info \/ r.info = Checking!NoInfo,
         kCheck[c].pc # "ended",
         kFacts' = kFacts \/ kFacts' = [kFacts EXCEPT !.present = TRUE], kPress' = kPress
  PROVE  ButtonInv'
<1>1. \A info : Promised(kFacts, info) => Promised(kFacts', info)
  BY PresentOnly DEF CheckShape
<1>2. ASSUME NEW d \in Checks, kCheck'[d].info.found, kCheck'[d].info.canUpdate
      PROVE  Promised(kFacts', kCheck'[d].info)
  <2>1. kCheck'[d].info = kCheck[d].info \/ kCheck'[d].info = Checking!NoInfo
    BY DEF CheckShape
  <2>2. kCheck'[d].info = kCheck[d].info
    BY <1>2, <2>1 DEF Checking!NoInfo
  <2> QED
    BY <1>1, <1>2, <2>2 DEF ButtonInv
<1>3. kPress' = "blocked" =>
        \E d \in Checks : kCheck'[d].pc = "ended" /\ kCheck'[d].info.relation = "unknown"
  <2>1. SUFFICES ASSUME kPress' = "blocked"
                 PROVE  \E d \in Checks : kCheck'[d].pc = "ended" /\ kCheck'[d].info.relation = "unknown"
    OBVIOUS
  <2>2. PICK d \in Checks : kCheck[d].pc = "ended" /\ kCheck[d].info.relation = "unknown"
    BY <2>1 DEF ButtonInv
  <2>3. d # c /\ kCheck'[d] = kCheck[d]
    BY <2>2 DEF CheckShape
  <2> QED
    BY <2>2, <2>3
<1> QED
  BY <1>2, <1>3 DEF ButtonInv

\* The step of a check that touches neither the refs nor the file, and does not
\* get under way.
LEMMA RefsAreKept ==
  ASSUME RefsInv, CheckShape, NEW c \in Checks, NEW r \in CheckRecords,
         kCheck' = [kCheck EXCEPT ![c] = r], kRefs' = kRefs, kFile' = kFile, kSpoiled' = kSpoiled,
         \/ r.pc \notin Mid
         \/ r.pc = kCheck[c].pc /\ r.stale = kCheck[c].stale
  PROVE  RefsInv'
<1>1. SUFFICES ASSUME ~kSpoiled PROVE /\ kRefs \subseteq kFile
        /\ \A d \in Checks : kCheck'[d].pc \in Mid =>
             OnRecord(d)' /\ \A e \in Checks \ {d} : kCheck'[e].pc \notin Mid
  BY DEF RefsInv
<1>2. /\ kRefs \subseteq kFile
      /\ \A d \in Checks : kCheck[d].pc \in Mid =>
             OnRecord(d) /\ \A e \in Checks \ {d} : kCheck[e].pc \notin Mid
  BY <1>1 DEF RefsInv
<1>3. \A d \in Checks : kCheck'[d].pc \in Mid =>
         kCheck'[d].pc = kCheck[d].pc /\ kCheck'[d].stale = kCheck[d].stale
  BY DEF CheckShape
<1> QED
  BY <1>2, <1>3 DEF OnRecord

\* The step of a check that is under way: no other one is.
LEMMA RefsMove ==
  ASSUME RefsInv, CheckShape, NEW c \in Checks, NEW r \in CheckRecords,
         kCheck' = [kCheck EXCEPT ![c] = r], kCheck[c].pc \in Mid,
         ~kSpoiled' =>
           /\ ~kSpoiled /\ kRefs' \subseteq kFile'
           /\ r.pc \in Mid =>
                /\ r.stale \subseteq kFile'
                /\ r.pc # "record" => c \in kFile'
                /\ kRefs' \subseteq r.stale \cup (IF r.pc = "remove" THEN {c} ELSE {})
  PROVE  RefsInv'
<1>1. SUFFICES ASSUME ~kSpoiled'
               PROVE  /\ kRefs' \subseteq kFile'
                      /\ \A d \in Checks : kCheck'[d].pc \in Mid =>
                           OnRecord(d)' /\ \A e \in Checks \ {d} : kCheck'[e].pc \notin Mid
  BY DEF RefsInv
<1>2. \A e \in Checks \ {c} : kCheck'[e].pc \notin Mid
  <2>1. \A e \in Checks \ {c} : kCheck[e].pc \notin Mid
    BY <1>1 DEF RefsInv
  <2> QED
    BY <2>1 DEF CheckShape
<1>3. kCheck'[c] = r
  BY DEF CheckShape
<1>4. r.pc \in Mid => OnRecord(c)'
  BY <1>1, <1>3 DEF OnRecord
<1> QED
  BY <1>1, <1>2, <1>3, <1>4

LEMMA ShapeOfCheck ==
  ASSUME CheckShape, NEW c \in Checks
  PROVE  /\ kCheck[c] \in CheckRecords /\ kCheck[c].pc \in Checking!Steps /\ kCheck[c].info \in Checking!Infos
         /\ kCheck[c].stale \in SUBSET Checks /\ kCheck[c].late \in BOOLEAN
BY DEF CheckShape, CheckRecords
LEMMA CheckIs ==
  ASSUME CheckInv, NEW c \in Checks
  PROVE  kCheck[c] \in CheckRecords
BY DEF CheckInv, CheckShape

\* The step of check c to r.
LEMMA CheckGoes ==
  ASSUME CheckShape, NEW c \in Checks, NEW r \in CheckRecords, kCheck' = [kCheck EXCEPT ![c] = r],
         kFacts' \in Checking!Installations, kRefs' \subseteq Checks, kFile' \subseteq Checks, kSpoiled' \in BOOLEAN
  PROVE  CheckShape'
BY DEF CheckShape

LEMMA CheckStartsKeeps ==
  ASSUME CheckInv, NEW c \in Checks, Checking!CheckStarts(c)
  PROVE  CheckInv'
<1> DEFINE l == IF \E d \in Checks : Checking!InList(d) /\ ~kCheck[d].late THEN "ended" ELSE "discover"
           r == [kCheck[c] EXCEPT !.pc = l, !.stale = kCheck[c].stale]
<1>1. l \in Checking!Steps /\ l \notin Mid
  BY DEF Checking!Steps, Checking!Listing, Mid
<1>2. kCheck[c].pc = "idle" /\ kCheck' = [kCheck EXCEPT ![c].pc = l]
      /\ UNCHANGED <<kSetting, kFacts, kRefs, kFile, kPress, kCrashes, kSpoiled>>
  BY DEF Checking!CheckStarts, Checking!At, Checking!Goto
<1> HIDE DEF l
<1>3. r \in CheckRecords /\ r.pc = l /\ r.info = kCheck[c].info
  BY <1>1, CheckIs DEF CheckRecords
<1>4. kCheck' = [kCheck EXCEPT ![c] = r]
  BY <1>2 DEF CheckInv, CheckShape, CheckRecords
<1> HIDE DEF r
<1>5. CheckShape'
  BY <1>2, <1>3, <1>4, CheckGoes DEF CheckInv, CheckShape
<1>6. RefsInv'
  BY <1>1, <1>2, <1>3, <1>4, RefsAreKept DEF CheckInv
<1>7. ButtonInv'
  BY <1>2, <1>3, <1>4, InfoIsKept DEF CheckInv
<1> QED
  BY <1>5, <1>6, <1>7 DEF CheckInv

LEMMA DiscoverKeeps ==
  ASSUME CheckInv, NEW c \in Checks, Checking!Discover(c)
  PROVE  CheckInv'
<1> DEFINE info == Checking!Decide(kFacts, Checking!Relate(kFacts), Checking!Blockers(kFacts) \cup Checking!TrackingReview(kFacts))
<1>1. kCheck[c].pc = "discover" /\ UNCHANGED <<kSetting, kFacts, kRefs, kFile, kPress, kCrashes, kSpoiled>>
  BY DEF Checking!Discover, Checking!At
<1>2. kFacts \in Checking!Installations /\ kCheck[c] \in CheckRecords
  BY ShapeOfCheck DEF CheckInv, CheckShape
<1>3. info \in Checking!Infos /\ (info.found /\ info.canUpdate => Promised(kFacts, info))
  BY <1>2, DecideIsRight
<1>4. CASE ~Checking!TargetFound(kFacts)
  <2> DEFINE r == [kCheck[c] EXCEPT !.pc = "ended", !.stale = kCheck[c].stale]
  <2>1. "ended" \in Checking!Steps /\ "ended" \notin Mid
    BY DEF Checking!Steps, Mid
  <2>2. r \in CheckRecords /\ r.pc = "ended" /\ r.info = kCheck[c].info
    BY <2>1, CheckIs DEF CheckRecords
  <2>3. kCheck' = [kCheck EXCEPT ![c] = r]
    BY <1>4 DEF Checking!Discover, Checking!Goto, CheckInv, CheckShape, CheckRecords
  <2> HIDE DEF r
  <2>4. CheckShape'
    BY <1>1, <2>2, <2>3, CheckGoes DEF CheckInv, CheckShape
  <2>5. RefsInv'
    BY <1>1, <2>1, <2>2, <2>3, RefsAreKept DEF CheckInv
  <2>6. ButtonInv'
    BY <1>1, <2>2, <2>3, InfoIsKept DEF CheckInv
  <2> QED
    BY <2>4, <2>5, <2>6 DEF CheckInv
<1>5. CASE Checking!TargetFound(kFacts)
  <2>1. PICK l \in {"readStale", "ended"} : kCheck' = [kCheck EXCEPT ![c].pc = l, ![c].info = info]
    BY <1>5 DEF Checking!Discover
  <2> HIDE DEF info
  <2> DEFINE r == [kCheck[c] EXCEPT !.pc = l, !.info = info]
  <2>2. l \in Checking!Steps /\ l \notin Mid
    BY DEF Checking!Steps, Checking!Listing, Mid
  <2>3. r \in CheckRecords /\ r.pc = l /\ r.info = info
    BY <1>2, <1>3, <2>2 DEF CheckRecords
  <2>4. kCheck' = [kCheck EXCEPT ![c] = r]
    BY <2>1 DEF CheckInv, CheckShape
  <2> HIDE DEF r
  <2>5. CheckShape'
    BY <1>1, <2>3, <2>4, CheckGoes DEF CheckInv, CheckShape
  <2>6. RefsInv'
    BY <1>1, <2>2, <2>3, <2>4, RefsAreKept DEF CheckInv
  <2>7. ASSUME NEW d \in Checks, kCheck'[d].info.found, kCheck'[d].info.canUpdate
        PROVE  Promised(kFacts, kCheck'[d].info)
    <3>1. CASE d = c
      BY <1>3, <2>3, <2>4, <2>7, <3>1 DEF CheckInv, CheckShape
    <3>2. CASE d # c
      BY <2>4, <2>7, <3>2 DEF CheckInv, CheckShape, ButtonInv
    <3> QED
      BY <3>1, <3>2
  <2>8. kPress = "blocked" =>
          \E d \in Checks : kCheck'[d].pc = "ended" /\ kCheck'[d].info.relation = "unknown"
    <3>1. SUFFICES ASSUME kPress = "blocked"
                   PROVE  \E d \in Checks : kCheck'[d].pc = "ended" /\ kCheck'[d].info.relation = "unknown"
      OBVIOUS
    <3>2. PICK d \in Checks : kCheck[d].pc = "ended" /\ kCheck[d].info.relation = "unknown"
      BY <3>1 DEF CheckInv, ButtonInv
    <3>3. d # c /\ kCheck'[d] = kCheck[d]
      BY <1>1, <2>4, <3>2 DEF CheckInv, CheckShape
    <3> QED
      BY <3>2, <3>3
  <2>9. ButtonInv'
    BY <1>1, <2>7, <2>8 DEF CheckInv, ButtonInv
  <2> QED
    BY <2>5, <2>6, <2>9 DEF CheckInv
<1> QED
  BY <1>4, <1>5

\* A step of a check in its list that keeps what it found.
LEMMA ListStep ==
  ASSUME CheckInv, NEW c \in Checks, NEW r \in CheckRecords, r.info = kCheck[c].info,
         kCheck[c].pc # "ended", kCheck' = [kCheck EXCEPT ![c] = r],
         kFacts' = kFacts \/ kFacts' = [kFacts EXCEPT !.present = TRUE], kPress' = kPress,
         kRefs' \subseteq Checks, kFile' \subseteq Checks, kSpoiled' \in BOOLEAN
  PROVE  CheckShape' /\ ButtonInv'
<1>1. kFacts' \in Checking!Installations
  BY PresentOnly DEF CheckInv, CheckShape
<1> QED
  BY <1>1, CheckGoes, InfoIsKept DEF CheckInv

LEMMA ReadStaleKeeps ==
  ASSUME CheckInv, NEW c \in Checks, Checking!ReadStale(c)
  PROVE  CheckInv'
<1> DEFINE r == [kCheck[c] EXCEPT !.pc = "record", !.stale = kFile]
<1>1. kCheck[c].pc = "readStale" /\ UNCHANGED <<kSetting, kFacts, kRefs, kFile, kPress, kCrashes>>
      /\ kSpoiled' = (kSpoiled \/ \E d \in Checks \ {c} : Checking!InList(d))
  BY DEF Checking!ReadStale, Checking!At
<1>2. kCheck' = [kCheck EXCEPT ![c] = r]
  BY DEF Checking!ReadStale, CheckInv, CheckShape
<1>3. kFile \in SUBSET Checks /\ kRefs \in SUBSET Checks /\ "record" \in Checking!Steps /\ kSpoiled' \in BOOLEAN
  BY <1>1 DEF CheckInv, CheckShape, Checking!Steps, Checking!Listing
<1>5. r.pc = "record" /\ r.stale = kFile /\ r \in CheckRecords /\ r.info = kCheck[c].info
  BY ZenonT(60), <1>3, CheckIs DEF CheckRecords
<1> HIDE DEF r
<1>4. CheckShape' /\ ButtonInv'
  BY <1>1, <1>2, <1>3, <1>5, ListStep
<1>6. RefsInv'
  <2>1. SUFFICES ASSUME ~kSpoiled'
                 PROVE  /\ kRefs' \subseteq kFile'
                        /\ \A d \in Checks : kCheck'[d].pc \in Mid =>
                             OnRecord(d)' /\ \A e \in Checks \ {d} : kCheck'[e].pc \notin Mid
    BY DEF RefsInv
  <2>2. ~kSpoiled /\ kRefs \subseteq kFile /\ \A d \in Checks \ {c} : kCheck[d].pc \notin Mid
    BY <1>1, <2>1 DEF CheckInv, RefsInv, Checking!InList, Checking!Listing, Mid
  <2>3. kCheck'[c] = r /\ \A d \in Checks \ {c} : kCheck'[d].pc \notin Mid
    BY <1>2, <2>2 DEF CheckInv, CheckShape
  <2>4. OnRecord(c)'
    BY <1>1, <1>5, <2>2, <2>3 DEF OnRecord
  <2> QED
    BY <1>1, <2>2, <2>3, <2>4
<1> QED
  BY <1>4, <1>6 DEF CheckInv

LEMMA RecordKeeps ==
  ASSUME CheckInv, NEW c \in Checks, Checking!Record(c)
  PROVE  CheckInv'
<1> DEFINE r == [kCheck[c] EXCEPT !.pc = "clean", !.stale = kCheck[c].stale]
<1>1. /\ kCheck[c].pc = "record" /\ UNCHANGED <<kSetting, kFacts, kRefs, kPress, kCrashes>>
      /\ \/ kFile' = kCheck[c].stale \cup {c} /\ UNCHANGED kSpoiled
         \/ UNCHANGED kFile /\ kSpoiled' = TRUE
  BY DEF Checking!Record, Checking!At, Checking!WriteStaleRefs
<1>2. kCheck' = [kCheck EXCEPT ![c] = r]
  BY DEF Checking!Record, Checking!Goto, CheckInv, CheckShape, CheckRecords
<1>3. /\ kCheck[c].stale \in SUBSET Checks /\ kRefs \in SUBSET Checks /\ "clean" \in Checking!Steps
      /\ kFile' \subseteq Checks /\ kSpoiled' \in BOOLEAN
  BY <1>1, ShapeOfCheck DEF CheckInv, CheckShape, Checking!Steps, Checking!Listing
<1>5. r.pc = "clean" /\ r.stale = kCheck[c].stale /\ r \in CheckRecords /\ r.info = kCheck[c].info
  BY ZenonT(60), <1>3, CheckIs DEF CheckRecords
<1> HIDE DEF r
<1>4. CheckShape' /\ ButtonInv'
  BY <1>1, <1>2, <1>3, <1>5, ListStep
<1>6. ~kSpoiled => kRefs \subseteq kCheck[c].stale /\ kRefs \subseteq kFile
  BY <1>1 DEF CheckInv, RefsInv, OnRecord, Mid
<1>7. ~kSpoiled' => /\ ~kSpoiled /\ kRefs' \subseteq kFile' /\ r.stale \subseteq kFile'
                   /\ c \in kFile' /\ kRefs' \subseteq r.stale
  BY <1>1, <1>5, <1>6
<1>8. RefsInv'
  BY <1>1, <1>2, <1>5, <1>7, RefsMove DEF CheckInv, Mid
<1> QED
  BY <1>4, <1>8 DEF CheckInv

LEMMA CleanKeeps ==
  ASSUME CheckInv, NEW c \in Checks, Checking!Clean(c)
  PROVE  CheckInv'
<1>1. PICK swept \in SUBSET kCheck[c].stale : \E seen \in SUBSET swept :
        /\ kRefs' = kRefs \ swept
        /\ kCheck' = [kCheck EXCEPT ![c].pc = "probe", ![c].stale = @ \ seen]
  BY DEF Checking!Clean
<1>2. PICK seen \in SUBSET swept :
        /\ kRefs' = kRefs \ swept
        /\ kCheck' = [kCheck EXCEPT ![c].pc = "probe", ![c].stale = @ \ seen]
  BY <1>1
<1> DEFINE s == kCheck[c].stale \ seen
           r == [kCheck[c] EXCEPT !.pc = "probe", !.stale = s]
<1>3. kCheck[c].pc = "clean" /\ UNCHANGED <<kSetting, kFacts, kFile, kPress, kCrashes, kSpoiled>>
  BY DEF Checking!Clean, Checking!At
<1>4. kCheck' = [kCheck EXCEPT ![c] = r]
  BY <1>2 DEF CheckInv, CheckShape, CheckRecords
<1>5. /\ s \in SUBSET Checks /\ kRefs' \subseteq Checks /\ "probe" \in Checking!Steps
      /\ kFile' \subseteq Checks /\ kSpoiled' \in BOOLEAN
  BY <1>2, <1>3, ShapeOfCheck DEF CheckInv, CheckShape, Checking!Steps, Checking!Listing
<1>7. r.pc = "probe" /\ r.stale = s /\ r \in CheckRecords /\ r.info = kCheck[c].info
  BY ZenonT(60), <1>5, CheckIs DEF CheckRecords
<1> HIDE DEF r
<1>6. CheckShape' /\ ButtonInv'
  BY <1>3, <1>4, <1>5, <1>7, ListStep
<1>8. ~kSpoiled => /\ kRefs \subseteq kCheck[c].stale /\ kRefs \subseteq kFile
                  /\ kCheck[c].stale \subseteq kFile /\ c \in kFile
  BY <1>3 DEF CheckInv, RefsInv, OnRecord, Mid
<1>9. ~kSpoiled' => /\ ~kSpoiled /\ kRefs' \subseteq kFile' /\ r.stale \subseteq kFile'
                   /\ c \in kFile' /\ kRefs' \subseteq r.stale
  BY <1>2, <1>3, <1>7, <1>8
<1>10. RefsInv'
  BY <1>3, <1>4, <1>7, <1>9, RefsMove DEF CheckInv, Mid
<1> QED
  BY <1>6, <1>10 DEF CheckInv

LEMMA ProbeKeeps ==
  ASSUME CheckInv, NEW c \in Checks, Checking!Probe(c)
  PROVE  CheckInv'
<1>1. kCheck[c].pc = "probe" /\ UNCHANGED <<kSetting, kFile, kPress, kCrashes, kSpoiled>>
  BY DEF Checking!Probe, Checking!At
<1>2. PICK l \in {"writeBack", "remove"} : kCheck' = [kCheck EXCEPT ![c].pc = l]
        /\ \/ kFacts' = kFacts /\ kRefs' = kRefs
           \/ l = "remove" /\ kRefs' = kRefs \cup {c} /\ kFacts' = [kFacts EXCEPT !.present = TRUE]
  BY DEF Checking!Probe, Checking!Goto
<1> DEFINE r == [kCheck[c] EXCEPT !.pc = l, !.stale = kCheck[c].stale]
<1>3. kCheck' = [kCheck EXCEPT ![c] = r]
  BY <1>2 DEF CheckInv, CheckShape, CheckRecords
<1>4. /\ kCheck[c].stale \in SUBSET Checks /\ kRefs' \subseteq Checks /\ l \in Checking!Steps
      /\ kFile' \subseteq Checks /\ kSpoiled' \in BOOLEAN
  BY <1>1, <1>2, ShapeOfCheck DEF CheckInv, CheckShape, Checking!Steps, Checking!Listing
<1>6. r.pc = l /\ r.stale = kCheck[c].stale /\ r \in CheckRecords /\ r.info = kCheck[c].info
  BY ZenonT(60), <1>4, CheckIs DEF CheckRecords
<1> HIDE DEF r
<1>5. CheckShape' /\ ButtonInv'
  BY <1>1, <1>2, <1>3, <1>4, <1>6, ListStep
<1>7. ~kSpoiled => /\ kRefs \subseteq kCheck[c].stale /\ kRefs \subseteq kFile
                  /\ kCheck[c].stale \subseteq kFile /\ c \in kFile
  BY <1>1 DEF CheckInv, RefsInv, OnRecord, Mid
<1>8. ~kSpoiled' => /\ ~kSpoiled /\ kRefs' \subseteq kFile' /\ r.stale \subseteq kFile'
                   /\ c \in kFile'
                   /\ kRefs' \subseteq r.stale \cup (IF r.pc = "remove" THEN {c} ELSE {})
  BY <1>1, <1>2, <1>6, <1>7
<1>9. RefsInv'
  BY <1>1, <1>3, <1>6, <1>8, RefsMove DEF CheckInv, Mid
<1> QED
  BY <1>5, <1>9 DEF CheckInv

LEMMA RefRemovalKeeps ==
  ASSUME CheckInv, NEW c \in Checks, Checking!Remove(c)
  PROVE  CheckInv'
<1>1. kCheck[c].pc = "remove" /\ UNCHANGED <<kSetting, kFacts, kFile, kPress, kCrashes, kSpoiled>>
  BY DEF Checking!Remove, Checking!At
<1>2. PICK s \in SUBSET Checks :
        /\ kCheck' = [kCheck EXCEPT ![c] = [kCheck[c] EXCEPT !.pc = "writeBack", !.stale = s]]
        /\ s \subseteq kCheck[c].stale \cup {c} /\ kRefs' \subseteq kRefs
        /\ kRefs \subseteq kCheck[c].stale \cup {c} => kRefs' \subseteq s
  <2>1. kCheck[c].stale \in SUBSET Checks /\ kCheck[c].stale \cup {c} \in SUBSET Checks
    BY ShapeOfCheck DEF CheckInv
  <2>2. CASE kRefs' = kRefs \ {c} /\ Checking!Goto(c, "writeBack")
    <3>1. kCheck' = [kCheck EXCEPT ![c] =
                      [kCheck[c] EXCEPT !.pc = "writeBack", !.stale = kCheck[c].stale]]
      BY <2>2 DEF Checking!Goto, CheckInv, CheckShape, CheckRecords
    <3> QED
      BY <2>1, <2>2, <3>1
  <2>3. CASE \E swept \in SUBSET {c} :
          /\ kRefs' = kRefs \ swept
          /\ kCheck' = [kCheck EXCEPT ![c].pc = "writeBack", ![c].stale = @ \cup {c}]
    <3>1. kCheck' = [kCheck EXCEPT ![c] =
                      [kCheck[c] EXCEPT !.pc = "writeBack", !.stale = kCheck[c].stale \cup {c}]]
      BY <2>3 DEF CheckInv, CheckShape, CheckRecords
    <3>2. kRefs' \subseteq kRefs
      BY <2>3
    <3> QED
      BY <2>1, <3>1, <3>2
  <2> QED
    BY <2>2, <2>3 DEF Checking!Remove
<1> DEFINE r == [kCheck[c] EXCEPT !.pc = "writeBack", !.stale = s]
<1>3. kCheck' = [kCheck EXCEPT ![c] = r]
  BY <1>2
<1>4. /\ kRefs' \subseteq Checks /\ "writeBack" \in Checking!Steps
      /\ kFile' \subseteq Checks /\ kSpoiled' \in BOOLEAN
  BY <1>1, <1>2, ShapeOfCheck DEF CheckInv, CheckShape, Checking!Steps, Checking!Listing
<1>6. r.pc = "writeBack" /\ r.stale = s /\ r \in CheckRecords /\ r.info = kCheck[c].info
  BY ZenonT(60), <1>4, CheckIs DEF CheckRecords
<1> HIDE DEF r
<1>5. CheckShape' /\ ButtonInv'
  BY <1>1, <1>3, <1>4, <1>6, ListStep
<1>7. ~kSpoiled => /\ kRefs \subseteq kCheck[c].stale \cup {c} /\ kRefs \subseteq kFile
                  /\ kCheck[c].stale \subseteq kFile /\ c \in kFile
  BY <1>1 DEF CheckInv, RefsInv, OnRecord, Mid
<1>8. ~kSpoiled' => /\ ~kSpoiled /\ kRefs' \subseteq kFile' /\ r.stale \subseteq kFile'
                   /\ c \in kFile' /\ kRefs' \subseteq r.stale
  BY <1>1, <1>2, <1>6, <1>7
<1>9. RefsInv'
  BY <1>1, <1>3, <1>6, <1>8, RefsMove DEF CheckInv, Mid
<1> QED
  BY <1>5, <1>9 DEF CheckInv

LEMMA WriteBackKeeps ==
  ASSUME CheckInv, NEW c \in Checks, Checking!WriteBack(c)
  PROVE  CheckInv'
<1> DEFINE r == [kCheck[c] EXCEPT !.pc = "ended", !.stale = kCheck[c].stale]
<1>1. /\ kCheck[c].pc = "writeBack" /\ UNCHANGED <<kSetting, kFacts, kRefs, kPress, kCrashes>>
      /\ \/ kFile' = kCheck[c].stale /\ UNCHANGED kSpoiled
         \/ UNCHANGED kFile /\ kSpoiled' = TRUE
  BY DEF Checking!WriteBack, Checking!At, Checking!WriteStaleRefs
<1>2. kCheck' = [kCheck EXCEPT ![c] = r]
  BY DEF Checking!WriteBack, Checking!Goto, CheckInv, CheckShape, CheckRecords
<1>3. /\ kCheck[c].stale \in SUBSET Checks /\ kRefs' \subseteq Checks /\ "ended" \in Checking!Steps
      /\ kFile' \subseteq Checks /\ kSpoiled' \in BOOLEAN
  BY <1>1, ShapeOfCheck DEF CheckInv, CheckShape, Checking!Steps
<1>5. r.pc = "ended" /\ r \in CheckRecords /\ r.info = kCheck[c].info
  BY ZenonT(60), <1>3, CheckIs DEF CheckRecords
<1> HIDE DEF r
<1>4. CheckShape' /\ ButtonInv'
  BY <1>1, <1>2, <1>3, <1>5, ListStep
<1>6. ~kSpoiled => kRefs \subseteq kCheck[c].stale
  BY <1>1 DEF CheckInv, RefsInv, OnRecord, Mid
<1>7. ~kSpoiled' => ~kSpoiled /\ kRefs' \subseteq kFile'
  BY <1>1, <1>6
<1>8. RefsInv'
  BY <1>1, <1>2, <1>5, <1>7, RefsMove DEF CheckInv, Mid
<1> QED
  BY <1>4, <1>8 DEF CheckInv

LEMMA TimesOutKeeps ==
  ASSUME CheckInv, NEW c \in Checks, Checking!TimesOut(c)
  PROVE  CheckInv'
<1> DEFINE r == [kCheck[c] EXCEPT !.late = TRUE, !.info = Checking!NoInfo]
<1>1. /\ kCheck[c].pc \in Checking!Listing /\ UNCHANGED <<kSetting, kFacts, kRefs, kFile, kPress, kCrashes, kSpoiled>>
      /\ kCheck' = [kCheck EXCEPT ![c].late = TRUE, ![c].info = Checking!NoInfo]
  BY DEF Checking!TimesOut, Checking!InList
<1>2. kCheck[c] \in CheckRecords /\ Checking!NoInfo \in Checking!Infos
  BY ShapeOfCheck DEF CheckInv, Checking!NoInfo, Checking!Infos
<1>3. r \in CheckRecords /\ r.pc = kCheck[c].pc /\ r.stale = kCheck[c].stale /\ r.info = Checking!NoInfo
  BY <1>2 DEF CheckRecords
<1>4. kCheck' = [kCheck EXCEPT ![c] = r]
  BY <1>1 DEF CheckInv, CheckShape
<1> HIDE DEF r
<1>5. CheckShape'
  BY <1>1, <1>3, <1>4, CheckGoes DEF CheckInv, CheckShape
<1>6. RefsInv'
  BY <1>1, <1>3, <1>4, RefsAreKept DEF CheckInv
<1>7. ButtonInv'
  BY <1>1, <1>3, <1>4, InfoIsKept DEF CheckInv, Checking!Listing
<1> QED
  BY <1>5, <1>6, <1>7 DEF CheckInv

LEMMA RestartKeeps ==
  ASSUME CheckInv, Checking!Restart
  PROVE  CheckInv'
<1>1. /\ UNCHANGED <<kSetting, kFacts, kRefs, kFile, kPress, kSpoiled>>
      /\ kCheck' = [c \in Checks |->
           IF Checking!InList(c) \/ Checking!At(c, "discover") THEN [kCheck[c] EXCEPT !.pc = "lost", !.info = Checking!NoInfo]
           ELSE kCheck[c]]
  BY DEF Checking!Restart
<1>2. ASSUME NEW c \in Checks
      PROVE  /\ kCheck'[c] \in CheckRecords /\ kCheck'[c].pc \notin Mid
             /\ kCheck'[c].info \in {kCheck[c].info, Checking!NoInfo}
             /\ kCheck[c].pc = "ended" => kCheck'[c] = kCheck[c]
  <2>1. CASE Checking!InList(c) \/ Checking!At(c, "discover")
    <3>1. kCheck[c] \in CheckRecords /\ Checking!NoInfo \in Checking!Infos /\ "lost" \in Checking!Steps
      BY ShapeOfCheck DEF CheckInv, Checking!NoInfo, Checking!Infos, Checking!Steps
    <3>2. kCheck'[c] = [kCheck[c] EXCEPT !.pc = "lost", !.info = Checking!NoInfo]
      BY <1>1, <2>1
    <3> QED
      BY <2>1, <3>1, <3>2 DEF CheckRecords, Checking!InList, Checking!At, Checking!Listing, Mid
  <2>2. CASE ~(Checking!InList(c) \/ Checking!At(c, "discover"))
    BY <1>1, <2>2, ShapeOfCheck DEF CheckInv, Checking!InList, Checking!Listing, Mid
  <2> QED
    BY <2>1, <2>2
<1>3. CheckShape'
  BY <1>1, <1>2 DEF CheckInv, CheckShape
<1>4. RefsInv'
  BY <1>1, <1>2 DEF CheckInv, RefsInv
<1>5. ButtonInv'
  <2>1. \A c \in Checks : kCheck'[c].info.found /\ kCheck'[c].info.canUpdate
          => Promised(kFacts, kCheck'[c].info)
    BY <1>2 DEF CheckInv, ButtonInv, Checking!NoInfo
  <2>2. kPress = "blocked" =>
          \E c \in Checks : kCheck'[c].pc = "ended" /\ kCheck'[c].info.relation = "unknown"
    BY <1>2 DEF CheckInv, ButtonInv
  <2> QED
    BY <1>1, <2>1, <2>2 DEF CheckInv, ButtonInv
<1> QED
  BY <1>3, <1>4, <1>5 DEF CheckInv

LEMMA PressedKeeps ==
  ASSUME CheckInv, NEW c \in Checks, Checking!Press(c)
  PROVE  CheckInv'
<1> DEFINE info == kCheck[c].info
<1>1. /\ kCheck[c].pc = "ended" /\ Checking!ButtonEnabled(kFacts, info)
      /\ UNCHANGED <<kSetting, kFacts, kRefs, kFile, kCheck, kCrashes, kSpoiled>>
      /\ kPress' = IF ~info.canUpdate \/ ~info.updateAvailable \/ ~kFacts.cli THEN "refused"
                  ELSE IF Checking!Source(kFacts) = "git" THEN "managed"
                  ELSE IF Checking!DirectoryPreflight(kFacts) THEN "passed"
                  ELSE "blocked"
  BY DEF Checking!Press, Checking!At
<1>2. info.found /\ info.updateAvailable /\ info.canUpdate
  BY <1>1 DEF Checking!ButtonEnabled
<1>3. Promised(kFacts, info)
  BY <1>2 DEF CheckInv, ButtonInv
<1>4. kPress' # "refused"
  BY <1>1, <1>2, <1>3 DEF Promised
<1>5. kPress' = "blocked" => info.relation = "unknown"
  <2>1. SUFFICES ASSUME kPress' = "blocked", info.relation # "unknown" PROVE FALSE
    OBVIOUS
  <2>2. Checking!Source(kFacts) # "git" /\ ~Checking!DirectoryPreflight(kFacts)
    BY <1>1, <2>1
  <2>3. Checking!Source(kFacts) = "directory"
    BY <1>3, <2>2 DEF Promised, Checking!Source
  <2>4. kFacts.isGit
    BY <1>1, <2>3 DEF Checking!ButtonEnabled
  <2>5. ~kFacts.dirty /\ ~kFacts.detached /\ kFacts.upstream # "none" /\ kFacts.relation = "behind"
    BY <1>3, <2>1, <2>3, <2>4 DEF Promised
  <2> QED
    BY <2>2, <2>5 DEF Checking!DirectoryPreflight
<1>6. ButtonInv'
  BY <1>1, <1>4, <1>5 DEF CheckInv, ButtonInv
<1>7. CheckShape' /\ RefsInv'
  BY <1>1 DEF CheckInv, CheckShape, RefsInv, OnRecord
<1> QED
  BY <1>6, <1>7 DEF CheckInv

LEMMA CheckInit ==
  ASSUME SettingsAreReal, Checking!Init
  PROVE  CheckInv
<1>1. Checking!NoInfo \in Checking!Infos /\ "idle" \in Checking!Steps /\ "idle" \notin Mid /\ ~Checking!NoInfo.found
  BY DEF Checking!NoInfo, Checking!Infos, Checking!Steps, Mid
<1>2. CheckShape
  BY <1>1 DEF Checking!Init, SettingsAreReal, CheckShape, CheckRecords
<1>3. RefsInv
  BY <1>1 DEF Checking!Init, RefsInv
<1>4. ButtonInv
  BY <1>1 DEF Checking!Init, ButtonInv
<1> QED
  BY <1>2, <1>3, <1>4 DEF CheckInv

LEMMA CheckNext == CheckInv /\ [Checking!Next]_Checking!vars => CheckInv'
<1> SUFFICES ASSUME CheckInv, [Checking!Next]_Checking!vars PROVE CheckInv'
  OBVIOUS
<1>1. CASE UNCHANGED Checking!vars
  BY <1>1 DEF Checking!vars, CheckInv, CheckShape, RefsInv, OnRecord, ButtonInv
<1>2. ASSUME NEW c \in Checks,
             \/ Checking!CheckStarts(c) \/ Checking!Discover(c) \/ Checking!ReadStale(c) \/ Checking!Record(c) \/ Checking!Clean(c)
             \/ Checking!Probe(c) \/ Checking!Remove(c) \/ Checking!WriteBack(c) \/ Checking!TimesOut(c) \/ Checking!Press(c)
      PROVE  CheckInv'
  BY <1>2, CheckStartsKeeps, DiscoverKeeps, ReadStaleKeeps, RecordKeeps, CleanKeeps, ProbeKeeps,
     RefRemovalKeeps, WriteBackKeeps, TimesOutKeeps, PressedKeeps
<1> QED
  BY <1>1, <1>2, RestartKeeps DEF Checking!Next

(***************************************************************************)
(* III.  The start of a design.                                            *)
(***************************************************************************)

(* The size of a set means the same in DesignStart as here. *)
LEMMA SameSize == \A S : Starting!Cardinality(S) = Cardinality(S)
BY DEF Starting!Cardinality, Cardinality

Events == [nonce : Nat, host : PageHosts, text : Texts]
Slots == [host : PageHosts, gap : BOOLEAN, event : Events]
Drafts == Texts \cup {None}
Cards == [text : Drafts, version : Nat, pending : Starting!Pendings \cup {None},
          retry : Starting!Retries \cup {None}, seq : Nat, seen : Nat \cup {None},
          asking : Events \cup {None}, last : Starting!Lasts \cup {None}]
PageStates == [host : PageHosts, mount : Nat, token : Nat \cup {None}, slot : Slots \cup {None},
               contract : {"v2", "baseline"}]
DesignJobs == [host : PageHosts, id : Nat, payload : Starting!Payloads, ask : Nat, active : BOOLEAN]
Spendings == [presses : Nat, moves : Nat, losses : Nat]
AppliedOnes == [nonce : Nat, made : PageHosts, on : PageHosts]

StartConstants ==
  /\ Limit \in Nat
  /\ None \notin Starting!StartCalls /\ None \notin Starting!Pendings /\ None \notin Starting!Retries /\ None \notin Starting!Lasts

StartShape ==
  /\ StartConstants
  /\ page \in PageStates /\ card \in Cards
  /\ starts \in SUBSET Starting!StartCalls /\ busy \in [PageHosts -> Starting!StartCalls \cup {None}]
  /\ designs \in SUBSET DesignJobs /\ IsFiniteSet(designs)
  /\ prefills \in [queue : SUBSET Events, reading : SUBSET Events, tried : SUBSET Nat]
  /\ used \in Spendings
  /\ gone \in SUBSET [host : PageHosts, text : Texts]
  /\ applied \in Seq(AppliedOnes)

\* A request keeps its id for as long as its outcome is not known.
AskOf(k) ==
  /\ k.pending # None => k.pending.id = k.pending.ask
  /\ k.retry # None => /\ k.last # None /\ k.last.outcome = "unknown"
                       /\ k.last.text = k.retry.text /\ k.last.ask = k.retry.id
  /\ k.pending = None /\ k.last # None /\ k.last.outcome = "unknown" => k.retry # None
AsksInv ==
  /\ \A j \in designs : j.id = j.ask
  /\ \A c \in starts : c.id = c.ask
  /\ AskOf(card)

\* The pending submission, and the calls of the page's card.
PendingOf(k) ==
  k.pending # None =>
    /\ k.pending.seq <= k.seq /\ k.pending.version <= k.version
    /\ k.pending.version = k.version => k.text = k.pending.text
CallOf(c, p, k) ==
  /\ c.mount <= p.mount
  /\ c.mount = p.mount => /\ c.seq <= k.seq /\ c.host = p.host
                          /\ k.pending # None /\ c.seq = k.pending.seq => c.payload[1] = k.pending.text
MadeAJob(c, d) == \E j \in d : j.host = c.host /\ j.payload = c.payload
CallsInv ==
  /\ PendingOf(card)
  /\ \A c \in starts : CallOf(c, page, card) /\ (c.at = "accepted" => MadeAJob(c, designs))
DraftsInv == \A g \in gone : \E j \in designs : j.host = g.host /\ j.payload[1] = g.text

\* A host whose job is being created has room for it.
AdmitInv ==
  /\ \A c \in starts : c.at = "creating" => busy[c.host] = c
  /\ \A h \in PageHosts :
       /\ Cardinality(Starting!ActiveOn(h)) <= Limit
       /\ busy[h] # None => Cardinality(Starting!ActiveOn(h)) < Limit

\* Where a prefill is: queued or being read, in the slot, asked about, or applied.
Waiting(f) == f.queue \cup f.reading
FreshPrefills(f, m) ==
  /\ \A e \in Waiting(f) : e.nonce <= m
  /\ \A d, e \in Waiting(f) : d.nonce = e.nonce => d = e
SlotOf(s, f, k, a, m) ==
  s # None =>
    /\ s.event.nonce <= m /\ s.event.host = s.host
    /\ \A e \in Waiting(f) : e.nonce # s.event.nonce
    /\ \A i \in DOMAIN a : a[i].nonce = s.event.nonce => k.seen = s.event.nonce
AskingOf(k, s, f, a, h, m) ==
  k.asking # None =>
    /\ k.asking.nonce <= m /\ k.asking.host = h
    /\ \A e \in Waiting(f) : e.nonce # k.asking.nonce
    /\ \A i \in DOMAIN a : a[i].nonce # k.asking.nonce
    /\ s # None /\ s.event.nonce = k.asking.nonce => k.seen = k.asking.nonce
AppliedOf(a, f, m) ==
  /\ \A i \in DOMAIN a : /\ a[i].made = a[i].on /\ a[i].nonce <= m
                         /\ \A e \in Waiting(f) : e.nonce # a[i].nonce
  /\ \A i, j \in DOMAIN a : a[i].nonce = a[j].nonce => i = j
PrefillsInv ==
  /\ FreshPrefills(prefills, used.moves)
  /\ SlotOf(page.slot, prefills, card, applied, used.moves)
  /\ AskingOf(card, page.slot, prefills, applied, page.host, used.moves)
  /\ AppliedOf(applied, prefills, used.moves)

Apart == prefills.queue \cap prefills.reading = {}

StartInv == StartShape /\ AsksInv /\ CallsInv /\ DraftsInv /\ AdmitInv /\ PrefillsInv /\ Apart

(* What each part depends on. *)
LEMMA AsksStay ==
  ASSUME AsksInv, starts' \subseteq starts, designs' = designs,
         card'.pending = card.pending, card'.retry = card.retry, card'.last = card.last
  PROVE  AsksInv'
BY DEF AsksInv, AskOf

LEMMA CallsStay ==
  ASSUME StartShape, CallsInv, starts' \subseteq starts, designs' = designs,
         page'.mount = page.mount, page'.host = page.host,
         card'.pending = card.pending, card'.seq = card.seq, card'.version \in Nat,
         \/ card'.version > card.version
         \/ card'.version = card.version /\ card'.text = card.text
  PROVE  CallsInv'
<1>1. PendingOf(card')
  BY DEF StartShape, Cards, Starting!Pendings, CallsInv, PendingOf
<1>2. \A c \in starts : CallOf(c, page, card) => CallOf(c, page', card')
  BY DEF CallOf
<1> QED
  BY <1>1, <1>2 DEF CallsInv

LEMMA AdmitStay ==
  ASSUME AdmitInv, starts' \subseteq starts, busy' = busy, designs' = designs
  PROVE  AdmitInv'
BY DEF AdmitInv, Starting!ActiveOn

LEMMA DraftsStay ==
  ASSUME DraftsInv, gone' = gone, designs \subseteq designs'
  PROVE  DraftsInv'
BY DEF DraftsInv

LEMMA PrefillsStay ==
  ASSUME PrefillsInv, Waiting(prefills') \subseteq Waiting(prefills), page'.slot = page.slot,
         page'.host = page.host, card'.seen = card.seen, card'.asking \in {card.asking, None},
         applied' = applied, used.moves \in Nat, used'.moves \in Nat, used'.moves >= used.moves,
         StartShape
  PROVE  PrefillsInv'
<1> DEFINE m == used.moves
           n == used'.moves
<1>1. \A k \in Nat : k <= m => k <= n
  OBVIOUS
<1>2. FreshPrefills(prefills', n)
  BY <1>1 DEF PrefillsInv, FreshPrefills, StartShape, Events, Waiting
<1>3. SlotOf(page'.slot, prefills', card', applied', n)
  <2>1. page.slot # None => page.slot.event.nonce \in Nat
    BY DEF StartShape, PageStates, Slots, Events
  <2> QED
    BY <1>1, <2>1 DEF PrefillsInv, SlotOf
<1>4. AskingOf(card', page'.slot, prefills', applied', page'.host, n)
  <2>1. card.asking # None => card.asking.nonce \in Nat
    BY DEF StartShape, Cards, Events
  <2> QED
    BY <1>1, <2>1 DEF PrefillsInv, AskingOf
<1>5. AppliedOf(applied', prefills', n)
  <2>1. \A i \in DOMAIN applied : applied[i].nonce \in Nat
    <3>1. \A i \in DOMAIN applied : applied[i] \in AppliedOnes
      BY DEF StartShape
    <3> QED
      BY <3>1 DEF AppliedOnes
  <2> QED
    BY <1>1, <2>1 DEF PrefillsInv, AppliedOf
<1> QED
  BY <1>2, <1>3, <1>4, <1>5 DEF PrefillsInv

\* Types of the parts.
LEMMA StartTypes ==
  ASSUME StartShape
  PROVE  /\ StartConstants /\ page \in PageStates /\ card \in Cards /\ used \in Spendings
         /\ used.moves \in Nat /\ used.presses \in Nat /\ used.losses \in Nat
         /\ card.version \in Nat /\ card.seq \in Nat /\ card.text \in Drafts
         /\ page.host \in PageHosts /\ page.mount \in Nat
         /\ card.pending # None => card.pending \in Starting!Pendings
         /\ card.asking # None => card.asking \in Events
         /\ page.slot # None => page.slot \in Slots
BY DEF StartShape, PageStates, Cards, Spendings

LEMMA MovedMoves ==
  ASSUME StartShape, Starting!Moved
  PROVE  /\ used' \in Spendings /\ used'.moves = used.moves + 1 /\ used'.presses = used.presses
BY DEF Starting!Moved, StartShape, Spendings
LEMMA LostMoves ==
  ASSUME StartShape, Starting!Lost
  PROVE  /\ used' \in Spendings /\ used'.moves = used.moves
BY DEF Starting!Lost, StartShape, Spendings

(* The card. *)
\* The text of the card is changed.
Changed(k, text) == [k EXCEPT !.text = text, !.version = @ + 1]
LEMMA TextChanges ==
  ASSUME NEW k \in Cards, NEW text \in Drafts, NEW k2,
         k2 = Changed(k, text)
  PROVE  /\ k2 \in Cards /\ k2.pending = k.pending /\ k2.retry = k.retry /\ k2.last = k.last
         /\ k2.seq = k.seq /\ k2.seen = k.seen /\ k2.asking = k.asking
         /\ k2.text = text /\ k2.version = k.version + 1 /\ k2.version > k.version
         /\ k2.version \in Nat
<1>1. k2 = [text |-> text, version |-> k.version + 1, pending |-> k.pending, retry |-> k.retry,
            seq |-> k.seq, seen |-> k.seen, asking |-> k.asking, last |-> k.last]
  BY DEF Cards, Changed
<1>2. k.version \in Nat /\ k.version + 1 \in Nat /\ k.version + 1 > k.version
  BY DEF Cards
<1>3. k2 \in Cards
  BY <1>1, <1>2 DEF Cards
<1> QED
  BY <1>1, <1>2, <1>3

LEMMA EditKeeps ==
  ASSUME StartInv, NEW text \in Drafts, Starting!Edit(text)
  PROVE  StartInv'
<1>1. /\ card' = [card EXCEPT !.text = text, !.version = @ + 1] /\ Starting!Moved
      /\ UNCHANGED <<page, starts, busy, designs, prefills, gone, applied>>
  BY DEF Starting!Edit
<1>2. /\ card' \in Cards /\ card'.pending = card.pending /\ card'.retry = card.retry
      /\ card'.last = card.last /\ card'.seq = card.seq /\ card'.seen = card.seen
      /\ card'.asking = card.asking /\ card'.version > card.version /\ card'.version \in Nat
  <2>1. card \in Cards
    BY DEF StartInv, StartShape
  <2>2. card' = Changed(card, text)
    BY <1>1 DEF Changed
  <2> QED
    BY <2>1, <2>2, TextChanges
<1>3. used' \in Spendings /\ used'.moves >= used.moves /\ used'.moves \in Nat /\ used.moves \in Nat
  BY <1>1, MovedMoves, StartTypes DEF StartInv
<1>4. StartShape'
  BY <1>1, <1>2, <1>3 DEF StartInv, StartShape
<1>5. AsksInv' /\ AdmitInv' /\ DraftsInv'
  BY <1>1, <1>2, AsksStay, AdmitStay, DraftsStay DEF StartInv
<1>6. CallsInv'
  BY <1>1, <1>2, CallsStay DEF StartInv
<1>7. PrefillsInv'
  BY <1>1, <1>2, <1>3, PrefillsStay DEF StartInv
<1> QED
  BY <1>1, <1>4, <1>5, <1>6, <1>7 DEF StartInv, Apart

LEMMA PressKeeps ==
  ASSUME StartInv, Starting!Press
  PROVE  StartInv'
<1> DEFINE id == Starting!RequestId(card.text)
           ask == IF Starting!AsksAgain(card.text) THEN card.last.ask ELSE used.presses + 1
           pending == [id |-> id, seq |-> card.seq + 1, version |-> card.version,
                       text |-> card.text, ask |-> ask]
           call == [mount |-> page.mount, seq |-> card.seq + 1, host |-> page.host,
                    id |-> id, payload |-> Starting!Payload(card.text), ask |-> ask,
                    at |-> "sent", heard |-> TRUE]
<1>1. /\ card.pending = None /\ card.text # None
      /\ used' = [used EXCEPT !.presses = @ + 1]
      /\ card' = [card EXCEPT !.pending = pending, !.seq = @ + 1, !.retry = None]
      /\ starts' = starts \cup {call}
      /\ UNCHANGED <<page, busy, designs, prefills, gone, applied>>
  BY DEF Starting!Press
<1>2. card.text \in Texts /\ card \in Cards /\ page \in PageStates /\ used \in Spendings
  BY <1>1, StartTypes DEF StartInv, Drafts
<1>3. id = ask /\ ask \in Nat
  <2>1. card.retry # None => card.retry \in Starting!Retries /\ card.retry.id \in Nat
    BY <1>2 DEF Cards, Starting!Retries
  <2>2. card.last # None => card.last \in Starting!Lasts /\ card.last.ask \in Nat
    BY <1>2 DEF Cards, Starting!Lasts
  <2>3. used.presses + 1 \in Nat
    BY <1>2 DEF Spendings
  <2>4. AskOf(card)
    BY DEF StartInv, AsksInv
  <2>5. CASE Starting!AsksAgain(card.text)
    <3>1. card.last # None /\ card.last.text = card.text /\ card.last.outcome = "unknown"
      BY <2>5 DEF Starting!AsksAgain
    <3>2. card.retry # None /\ card.retry.text = card.text /\ card.retry.id = card.last.ask
      BY <1>1, <2>4, <3>1 DEF AskOf
    <3> QED
      BY <2>2, <2>5, <3>1, <3>2 DEF Starting!RequestId
  <2>6. CASE ~Starting!AsksAgain(card.text)
    <3>1. ~(card.retry # None /\ card.retry.text = card.text)
      BY <2>4, <2>6 DEF AskOf, Starting!AsksAgain
    <3> QED
      BY <2>3, <2>6, <3>1 DEF Starting!RequestId
  <2> QED
    BY <2>5, <2>6
<1> HIDE DEF id, ask
<1>4. pending \in Starting!Pendings /\ pending # None
  <2>1. card.seq + 1 \in Nat /\ card.version \in Nat
    BY <1>2 DEF Cards
  <2>2. pending \in Starting!Pendings
    BY <1>2, <1>3, <2>1 DEF Starting!Pendings
  <2> QED
    BY <2>2 DEF StartInv, StartShape, StartConstants
<1>5. call \in Starting!StartCalls
  <2>1. card.seq + 1 \in Nat /\ page.mount \in Nat /\ page.host \in PageHosts
    BY <1>2 DEF Cards, PageStates
  <2>2. Starting!Payload(card.text) \in Starting!Payloads
    BY <1>2 DEF Starting!Payload, Starting!Payloads
  <2> QED
    BY <1>3, <2>1, <2>2 DEF Starting!StartCalls, Starting!CallSteps
<1>6. /\ pending.id = pending.ask /\ pending.seq = card.seq + 1 /\ pending.version = card.version
      /\ pending.text = card.text
      /\ call.id = call.ask /\ call.at = "sent" /\ call.mount = page.mount /\ call.host = page.host
      /\ call.seq = card.seq + 1 /\ call.payload[1] = card.text
  BY <1>3 DEF Starting!Payload
<1> HIDE DEF pending, call
<1>7. /\ card' \in Cards /\ card'.pending = pending /\ card'.retry = None /\ card'.last = card.last
      /\ card'.seq = card.seq + 1 /\ card'.version = card.version /\ card'.text = card.text
      /\ card'.seen = card.seen /\ card'.asking = card.asking
  <2>1. card' = [text |-> card.text, version |-> card.version, pending |-> pending, retry |-> None,
                 seq |-> card.seq + 1, seen |-> card.seen, asking |-> card.asking, last |-> card.last]
    BY <1>1, <1>2 DEF Cards
  <2>2. card' \in Cards
    BY <1>2, <1>4, <2>1 DEF Cards
  <2> QED
    BY <2>1, <2>2
<1>8. used' \in Spendings /\ used'.moves = used.moves /\ used.moves \in Nat
  BY <1>1, <1>2 DEF Spendings
<1>9. StartShape'
  BY <1>1, <1>5, <1>7, <1>8 DEF StartInv, StartShape
<1>10. AsksInv'
  <2>1. AskOf(card')
    BY <1>4, <1>6, <1>7 DEF AskOf
  <2> QED
    BY <1>1, <1>6, <2>1 DEF StartInv, AsksInv
<1>11. CallsInv'
  <2>1. card.seq \in Nat /\ card.version \in Nat /\ page.mount \in Nat
    BY <1>2 DEF Cards, PageStates
  <2>2. PendingOf(card')
    BY <1>6, <1>7, <2>1 DEF PendingOf
  <2>3. CallOf(call, page, card')
    BY <1>6, <1>7, <2>1 DEF CallOf
  <2>4. ASSUME NEW c \in starts PROVE CallOf(c, page, card')
    <3>1. CallOf(c, page, card) /\ c.seq \in Nat
      BY DEF StartInv, StartShape, Starting!StartCalls, CallsInv
    <3> QED
      BY <1>6, <1>7, <2>1, <3>1 DEF CallOf
  <2> QED
    BY <1>1, <1>6, <2>2, <2>3, <2>4 DEF StartInv, CallsInv
<1>12. AdmitInv' /\ DraftsInv'
  BY <1>1, <1>6, DraftsStay DEF StartInv, AdmitInv, Starting!ActiveOn
<1>13. PrefillsInv'
  BY <1>1, <1>7, <1>8, PrefillsStay DEF StartInv
<1> QED
  BY <1>1, <1>9, <1>10, <1>11, <1>12, <1>13 DEF StartInv, Apart

\* The submission is put down.
PutDownWith(k, p, last, retry) == [k EXCEPT !.pending = p, !.last = last, !.retry = retry]
LEMMA PutDown ==
  ASSUME NEW k \in Cards, NEW p \in Starting!Pendings \cup {None}, NEW last \in Starting!Lasts \cup {None},
         NEW retry \in Starting!Retries \cup {None}, NEW k2, k2 = PutDownWith(k, p, last, retry)
  PROVE  k2 = [text |-> k.text, version |-> k.version, pending |-> p, retry |-> retry,
               seq |-> k.seq, seen |-> k.seen, asking |-> k.asking, last |-> last]
BY DEF Cards, PutDownWith

\* The card after its call was answered, or was given up.
LEMMA SettledCard ==
  ASSUME StartInv, card.pending # None, NEW o \in Starting!Outcomes, NEW k, k = Starting!Settled(o)
  PROVE  /\ k \in Cards /\ AskOf(k) /\ k.pending = None /\ k.seq = card.seq
         /\ k.seen = card.seen /\ k.asking = card.asking
         /\ IF Starting!Clears(o) THEN k.text = None /\ k.version = card.version + 1
            ELSE k.text = card.text /\ k.version = card.version
<1> DEFINE p == card.pending
           last == [text |-> p.text, outcome |-> o, ask |-> p.ask]
           retry == IF o = "unknown" THEN [id |-> p.id, text |-> p.text] ELSE None
           settled == [card EXCEPT !.pending = None, !.last = last, !.retry = retry]
<1>1. card \in Cards /\ p \in Starting!Pendings /\ p.id = p.ask
  BY StartTypes DEF StartInv, AsksInv, AskOf
<1>2. last \in Starting!Lasts /\ last # None /\ last.text = p.text /\ last.outcome = o /\ last.ask = p.ask
  <2>1. last \in Starting!Lasts
    BY <1>1 DEF Starting!Lasts, Starting!Pendings
  <2> QED
    BY <2>1 DEF StartInv, StartShape, StartConstants
<1>3. /\ o = "unknown" => /\ retry \in Starting!Retries /\ retry # None /\ retry.id = p.id
                          /\ retry.text = p.text
      /\ o # "unknown" => retry = None
  <2>1. o = "unknown" => retry \in Starting!Retries
    BY <1>1 DEF Starting!Retries, Starting!Pendings
  <2> QED
    BY <2>1 DEF StartInv, StartShape, StartConstants
<1>4. k = IF Starting!Clears(o) THEN [settled EXCEPT !.text = None, !.version = @ + 1] ELSE settled
  BY DEF Starting!Settled
<1> HIDE DEF last, retry
<1>5. /\ settled \in Cards /\ settled.pending = None /\ settled.last = last /\ settled.retry = retry
      /\ settled.seq = card.seq /\ settled.seen = card.seen /\ settled.asking = card.asking
      /\ settled.text = card.text /\ settled.version = card.version
  <2>1. settled = [text |-> card.text, version |-> card.version, pending |-> None, retry |-> retry,
                   seq |-> card.seq, seen |-> card.seen, asking |-> card.asking, last |-> last]
    <3>1. card \in Cards /\ last \in Starting!Lasts /\ retry \in Starting!Retries \cup {None}
      BY <1>1, <1>2, <1>3
    <3>2. settled = PutDownWith(card, None, last, retry)
      BY DEF PutDownWith
    <3> QED
      BY <3>1, <3>2, PutDown
  <2>2. settled \in Cards
    BY <1>1, <1>2, <1>3, <2>1 DEF Cards
  <2> QED
    BY <2>1, <2>2
<1> HIDE DEF settled
<1>6. /\ k \in Cards /\ k.pending = None /\ k.last = last /\ k.retry = retry /\ k.seq = card.seq
      /\ k.seen = card.seen /\ k.asking = card.asking
      /\ IF Starting!Clears(o) THEN k.text = None /\ k.version = card.version + 1
         ELSE k.text = card.text /\ k.version = card.version
  <2>1. CASE Starting!Clears(o)
    <3>1. None \in Drafts /\ k = Changed(settled, None)
      BY <1>4, <2>1 DEF Drafts, Changed
    <3>2. /\ k \in Cards /\ k.pending = settled.pending /\ k.retry = settled.retry
          /\ k.last = settled.last /\ k.seq = settled.seq /\ k.seen = settled.seen
          /\ k.asking = settled.asking /\ k.text = None /\ k.version = settled.version + 1
      BY <1>5, <3>1, TextChanges
    <3> QED
      BY <1>5, <2>1, <3>2
  <2>2. CASE ~Starting!Clears(o)
    BY <1>4, <1>5, <2>2
  <2> QED
    BY <2>1, <2>2
<1>7. AskOf(k)
  BY <1>1, <1>2, <1>3, <1>6 DEF AskOf
<1> QED
  BY <1>6, <1>7

\* The card is settled, or stays: nothing else but the calls and the history.
LEMMA SettlingKeeps ==
  ASSUME StartInv, NEW o \in Starting!Outcomes,
         \/ card' = card
         \/ card.pending # None /\ card' = Starting!Settled(o),
         UNCHANGED <<page, designs, prefills, applied>>, used' \in Spendings,
         used'.moves = used.moves,
         starts' \in SUBSET Starting!StartCalls, busy' \in [PageHosts -> Starting!StartCalls \cup {None}],
         gone' \in SUBSET [host : PageHosts, text : Texts],
         \A c \in starts' : \/ c \in starts
                            \/ \E d \in starts : c = [d EXCEPT !.heard = FALSE]
  PROVE  StartShape' /\ AsksInv' /\ CallsInv' /\ PrefillsInv'
<1>1. /\ card' \in Cards /\ AskOf(card') /\ card'.seq = card.seq /\ card'.seen = card.seen
      /\ card'.asking = card.asking
      /\ card'.pending = None \/ card' = card
  BY SettledCard, StartTypes DEF StartInv, AsksInv
<1>2. StartShape'
  BY <1>1 DEF StartInv, StartShape
<1>3. ASSUME NEW c \in starts'
      PROVE  \E d \in starts : /\ c.id = d.id /\ c.ask = d.ask /\ c.mount = d.mount /\ c.seq = d.seq
                               /\ c.host = d.host /\ c.payload = d.payload /\ c.at = d.at
  <2>1. CASE c \in starts
    BY <2>1
  <2>2. CASE \E d \in starts : c = [d EXCEPT !.heard = FALSE]
    <3>1. PICK d \in starts : c = [d EXCEPT !.heard = FALSE]
      BY <2>2
    <3>2. d \in Starting!StartCalls
      BY DEF StartInv, StartShape
    <3> QED
      BY <3>1, <3>2 DEF Starting!StartCalls
  <2> QED
    BY <2>1, <2>2
<1>4. AsksInv'
  BY <1>1, <1>3 DEF StartInv, AsksInv
<1>5. CallsInv'
  <2>1. PendingOf(card')
    BY <1>1 DEF PendingOf, StartInv, CallsInv
  <2>2. ASSUME NEW c \in starts' PROVE CallOf(c, page, card') /\ (c.at = "accepted" => MadeAJob(c, designs))
    <3>1. PICK d \in starts : /\ c.id = d.id /\ c.ask = d.ask /\ c.mount = d.mount /\ c.seq = d.seq
                              /\ c.host = d.host /\ c.payload = d.payload /\ c.at = d.at
      BY <1>3
    <3>2. CallOf(d, page, card) /\ (d.at = "accepted" => MadeAJob(d, designs))
      BY DEF StartInv, CallsInv
    <3> QED
      BY <1>1, <3>1, <3>2 DEF CallOf, MadeAJob
  <2> QED
    BY <2>1, <2>2 DEF CallsInv
<1>6. PrefillsInv'
  BY <1>1, StartTypes, PrefillsStay DEF StartInv
<1> QED
  BY <1>2, <1>4, <1>5, <1>6

LEMMA AnswerKeeps ==
  ASSUME StartInv, NEW c \in starts, Starting!Answer(c)
  PROVE  StartInv'
<1>1. /\ c.at \in {"accepted", "rejected"} /\ starts' = starts \ {c}
      /\ IF Starting!ForMe(c) THEN card' = Starting!Settled(c.at) /\ Starting!Replace(card'.text, FALSE)
         ELSE UNCHANGED <<card, gone>>
      /\ UNCHANGED <<page, busy, designs, prefills, used, applied>>
  BY DEF Starting!Answer
<1>2. c.at \in Starting!Outcomes /\ used \in Spendings
  BY <1>1, StartTypes DEF Starting!Outcomes, StartInv
<1>3. DraftsInv' /\ gone' \in SUBSET [host : PageHosts, text : Texts]
  <2>1. CASE gone' = gone
    BY <1>1, <2>1, DraftsStay DEF StartInv, StartShape
  <2>2. CASE gone' # gone
    <3>1. /\ Starting!ForMe(c) /\ card' = Starting!Settled(c.at) /\ card.text \notin {None, card'.text}
          /\ gone' = gone \cup {[host |-> page.host, text |-> card.text]}
      BY <1>1, <2>2 DEF Starting!Replace
    <3>2. card.pending # None /\ c.mount = page.mount /\ c.seq = card.pending.seq
      BY <3>1 DEF Starting!ForMe
    <3>3. Starting!Clears(c.at)
      BY <1>2, <3>1, <3>2, SettledCard
    <3>4. c.at = "accepted" /\ card.version = card.pending.version
      BY <3>3 DEF Starting!Clears
    <3>5. card.text = card.pending.text
      BY <3>2, <3>4 DEF StartInv, CallsInv, PendingOf
    <3>6. c.host = page.host /\ c.payload[1] = card.text /\ MadeAJob(c, designs)
      BY <3>2, <3>4, <3>5 DEF StartInv, CallsInv, CallOf
    <3>7. \E j \in designs : j.host = page.host /\ j.payload[1] = card.text
      BY <3>6 DEF MadeAJob
    <3>8. card.text \in Texts /\ page.host \in PageHosts
      BY <3>1, StartTypes DEF StartInv, Drafts
    <3> QED
      BY <1>1, <3>1, <3>7, <3>8 DEF StartInv, StartShape, DraftsInv
  <2> QED
    BY <2>1, <2>2
<1>4. card' = card \/ (card.pending # None /\ card' = Starting!Settled(c.at))
  BY <1>1 DEF Starting!ForMe
<1>5. StartShape' /\ AsksInv' /\ CallsInv' /\ PrefillsInv'
  <2>1. starts' \in SUBSET Starting!StartCalls /\ busy' \in [PageHosts -> Starting!StartCalls \cup {None}]
    BY <1>1 DEF StartInv, StartShape
  <2> QED
    BY <1>1, <1>2, <1>3, <1>4, <2>1, SettlingKeeps
<1>6. AdmitInv'
  BY <1>1, AdmitStay DEF StartInv
<1> QED
  BY <1>1, <1>3, <1>5, <1>6 DEF StartInv, Apart

LEMMA AnswerLostKeeps ==
  ASSUME StartInv, NEW c \in starts, Starting!AnswerLost(c)
  PROVE  StartInv'
<1> DEFINE deaf == [c EXCEPT !.heard = FALSE]
<1>1. /\ c.heard /\ Starting!Lost
      /\ starts' = (starts \ {c}) \cup (IF c.at \in {"sent", "creating"} THEN {deaf} ELSE {})
      /\ busy' = [h \in PageHosts |-> IF busy[h] = c THEN deaf ELSE busy[h]]
      /\ card' = IF Starting!ForMe(c) THEN Starting!Settled("unknown") ELSE card
      /\ UNCHANGED <<page, designs, prefills, gone, applied>>
  BY DEF Starting!AnswerLost
<1>2. c \in Starting!StartCalls /\ c # None
  BY DEF StartInv, StartShape, StartConstants
<1>3. deaf \in Starting!StartCalls /\ deaf.at = c.at /\ deaf.host = c.host /\ deaf.heard = FALSE
  BY <1>2 DEF Starting!StartCalls
<1>4. starts' \in SUBSET Starting!StartCalls /\ busy' \in [PageHosts -> Starting!StartCalls \cup {None}]
  BY <1>1, <1>3 DEF StartInv, StartShape
<1>5. used' \in Spendings /\ used'.moves = used.moves
  BY <1>1, LostMoves DEF StartInv
<1>6. StartShape' /\ AsksInv' /\ CallsInv' /\ PrefillsInv'
  <2>1. "unknown" \in Starting!Outcomes
    BY DEF Starting!Outcomes
  <2>2. card' = card \/ (card.pending # None /\ card' = Starting!Settled("unknown"))
    BY <1>1 DEF Starting!ForMe
  <2>3. gone' \in SUBSET [host : PageHosts, text : Texts]
    BY <1>1 DEF StartInv, StartShape
  <2>4. \A d \in starts' : d \in starts \/ \E e \in starts : d = [e EXCEPT !.heard = FALSE]
    BY <1>1
  <2> QED
    BY <1>1, <1>4, <1>5, <2>1, <2>2, <2>3, <2>4, SettlingKeeps
<1>7. DraftsInv'
  BY <1>1, DraftsStay DEF StartInv
<1> HIDE DEF deaf
<1>8. AdmitInv'
  <2>1. ASSUME NEW d \in starts', d.at = "creating" PROVE busy'[d.host] = d
    <3>1. CASE d = deaf /\ c.at = "creating"
      <4>1. busy[c.host] = c /\ c.host \in PageHosts
        BY <1>2, <3>1 DEF StartInv, AdmitInv, Starting!StartCalls
      <4> QED
        BY <1>1, <1>3, <3>1, <4>1
    <3>2. CASE d \in starts /\ d # c
      <4>1. busy[d.host] = d /\ d.host \in PageHosts
        BY <2>1, <3>2 DEF StartInv, StartShape, AdmitInv, Starting!StartCalls
      <4> QED
        BY <1>1, <3>2, <4>1
    <3> QED
      BY <1>1, <1>3, <2>1, <3>1, <3>2
  <2>2. \A h \in PageHosts : busy'[h] # None => busy[h] # None
    BY <1>1, <1>2
  <2> QED
    BY <1>1, <2>1, <2>2 DEF StartInv, AdmitInv, Starting!ActiveOn
<1> QED
  BY <1>1, <1>6, <1>7, <1>8 DEF StartInv, Apart

(* The service. *)
LEMMA ActiveCount ==
  ASSUME StartShape, NEW h
  PROVE  IsFiniteSet(Starting!ActiveOn(h)) /\ Cardinality(Starting!ActiveOn(h)) \in Nat
<1>1. IsFiniteSet(designs) /\ Starting!ActiveOn(h) \subseteq designs
  BY DEF StartShape, Starting!ActiveOn
<1>2. IsFiniteSet(Starting!ActiveOn(h))
  BY <1>1, FS_Subset
<1> QED
  BY <1>2, FS_CardinalityType

\* A call is one step further.
LEMMA CallMoves ==
  ASSUME StartInv, NEW c \in starts, NEW at \in Starting!CallSteps, NEW d, d = [c EXCEPT !.at = at],
         starts' = (starts \ {c}) \cup {d}, UNCHANGED <<page, card, prefills, gone, applied>>,
         designs \subseteq designs', \A j \in designs' \ designs : j.id = j.ask,
         at = "accepted" => MadeAJob(c, designs'), used'.moves = used.moves
  PROVE  /\ d \in Starting!StartCalls /\ d.at = at /\ d.host = c.host /\ starts' \in SUBSET Starting!StartCalls
         /\ AsksInv' /\ CallsInv' /\ DraftsInv' /\ PrefillsInv' /\ Apart'
<1>1. c \in Starting!StartCalls
  BY DEF StartInv, StartShape
<1>2. /\ d \in Starting!StartCalls /\ d.at = at /\ d.host = c.host /\ d.id = c.id /\ d.ask = c.ask
      /\ d.mount = c.mount /\ d.seq = c.seq /\ d.payload = c.payload
  BY <1>1 DEF Starting!StartCalls
<1>3. starts' \in SUBSET Starting!StartCalls
  BY <1>2 DEF StartInv, StartShape
<1>4. AsksInv'
  BY <1>2 DEF StartInv, AsksInv
<1>5. CallsInv'
  <2>1. \A e \in starts : MadeAJob(e, designs) => MadeAJob(e, designs')
    BY DEF MadeAJob
  <2>2. CallOf(d, page, card) /\ (d.at = "accepted" => MadeAJob(d, designs'))
    BY <1>2 DEF StartInv, CallsInv, CallOf, MadeAJob
  <2> QED
    BY <2>1, <2>2 DEF StartInv, CallsInv
<1>6. DraftsInv'
  BY DraftsStay DEF StartInv
<1>7. PrefillsInv'
  BY StartTypes, PrefillsStay DEF StartInv
<1>8. Apart'
  BY DEF StartInv, Apart
<1> QED
  BY <1>2, <1>3, <1>4, <1>5, <1>6, <1>7, <1>8

LEMMA AdmitKeeps ==
  ASSUME StartInv, NEW c \in starts, Starting!Admit(c)
  PROVE  StartInv'
<1> DEFINE known == {j \in designs : j.host = c.host /\ j.id = c.id}
           creating == [c EXCEPT !.at = "creating"]
           reply == IF \E j \in known : j.payload = c.payload THEN "accepted" ELSE "rejected"
<1>1. c.at = "sent" /\ busy[c.host] = None /\ UNCHANGED <<page, card, designs, prefills, used, gone, applied>>
  BY DEF Starting!Admit, Starting!Admitted
<1>2. c \in Starting!StartCalls /\ c.host \in PageHosts
  BY DEF StartInv, StartShape, Starting!StartCalls
<1>3. "creating" \in Starting!CallSteps /\ "accepted" \in Starting!CallSteps /\ "rejected" \in Starting!CallSteps
  BY DEF Starting!CallSteps
<1>4. CASE known = {} /\ Cardinality(Starting!ActiveOn(c.host)) < Limit
  <2>1. /\ starts' = (starts \ {c}) \cup {creating}
        /\ busy' = [busy EXCEPT ![c.host] = creating]
    BY <1>4, SameSize DEF Starting!Admit
  <2>2. /\ creating \in Starting!StartCalls /\ creating.at = "creating" /\ creating.host = c.host
        /\ starts' \in SUBSET Starting!StartCalls
        /\ AsksInv' /\ CallsInv' /\ DraftsInv' /\ PrefillsInv' /\ Apart'
    BY <1>1, <1>3, <2>1, CallMoves
  <2> HIDE DEF creating
  <2>3. busy' \in [PageHosts -> Starting!StartCalls \cup {None}]
    BY <1>2, <2>1, <2>2 DEF StartInv, StartShape
  <2>4. StartShape'
    BY <1>1, <2>2, <2>3 DEF StartInv, StartShape
  <2>5. \A h \in PageHosts : busy'[h] = IF h = c.host THEN creating ELSE busy[h]
    BY <1>2, <2>1 DEF StartInv, StartShape
  <2>6. AdmitInv'
    <3>1. ASSUME NEW d \in starts', d.at = "creating" PROVE busy'[d.host] = d
      <4>1. CASE d = creating
        BY <1>2, <2>2, <2>5, <4>1
      <4>2. CASE d # creating
        <5>1. d \in starts /\ d.host \in PageHosts /\ d # None /\ busy[d.host] = d
          BY <2>1, <3>1, <4>2 DEF StartInv, StartShape, StartConstants, Starting!StartCalls, AdmitInv
        <5> QED
          BY <1>1, <2>5, <5>1
      <4> QED
        BY <4>1, <4>2
    <3>2. ASSUME NEW h \in PageHosts
          PROVE  /\ Cardinality(Starting!ActiveOn(h)) <= Limit
                 /\ busy'[h] # None => Cardinality(Starting!ActiveOn(h)) < Limit
      BY <1>4, <2>5 DEF StartInv, AdmitInv
    <3> QED
      BY <1>1, <3>1, <3>2 DEF AdmitInv, Starting!ActiveOn
  <2> QED
    BY <2>2, <2>4, <2>6 DEF StartInv
<1>5. CASE ~(known = {} /\ Cardinality(Starting!ActiveOn(c.host)) < Limit)
  <2> DEFINE replied == [c EXCEPT !.at = reply]
  <2>1. starts' = (starts \ {c}) \cup {replied} /\ busy' = busy
    BY <1>5, SameSize DEF Starting!Admit, Starting!Replied
  <2>2. reply \in Starting!CallSteps /\ reply # "creating" /\ (reply = "accepted" => MadeAJob(c, designs'))
    BY <1>1, <1>3 DEF MadeAJob
  <2> HIDE DEF reply
  <2>3. /\ replied \in Starting!StartCalls /\ replied.at = reply /\ replied.host = c.host
        /\ starts' \in SUBSET Starting!StartCalls
        /\ AsksInv' /\ CallsInv' /\ DraftsInv' /\ PrefillsInv' /\ Apart'
    BY <1>1, <2>1, <2>2, CallMoves
  <2>4. StartShape'
    BY <1>1, <2>1, <2>3 DEF StartInv, StartShape
  <2> HIDE DEF replied
  <2>5. AdmitInv'
    BY <1>1, <2>1, <2>2, <2>3 DEF StartInv, AdmitInv, Starting!ActiveOn
  <2> QED
    BY <2>3, <2>4, <2>5 DEF StartInv
<1> QED
  BY <1>4, <1>5

LEMMA CreateKeeps ==
  ASSUME StartInv, NEW c \in starts, NEW fails \in BOOLEAN, Starting!Create(c, fails)
  PROVE  StartInv'
<1> DEFINE reply == IF fails THEN "rejected" ELSE "accepted"
           replied == [c EXCEPT !.at = reply]
           newJob == [host |-> c.host, id |-> c.id, payload |-> c.payload, ask |-> c.ask, active |-> TRUE]
<1>1. /\ c.at = "creating" /\ starts' = (starts \ {c}) \cup {replied}
      /\ busy' = [busy EXCEPT ![c.host] = IF @ = c THEN None ELSE @]
      /\ designs' = IF fails THEN designs ELSE designs \cup {newJob}
      /\ UNCHANGED <<page, card, prefills, gone, applied>>
  BY DEF Starting!Create, Starting!Replied
<1>2. used' \in Spendings /\ used'.moves = used.moves
  <2>1. CASE fails
    BY <2>1, LostMoves DEF Starting!Create, StartInv
  <2>2. CASE ~fails
    BY <2>2, StartTypes DEF Starting!Create, StartInv
  <2> QED
    BY <2>1, <2>2
<1>3. c \in Starting!StartCalls /\ c.host \in PageHosts /\ c.id = c.ask
  BY DEF StartInv, StartShape, Starting!StartCalls, AsksInv
<1>4. newJob \in DesignJobs /\ newJob.host = c.host /\ newJob.payload = c.payload /\ newJob.id = newJob.ask
  BY <1>3 DEF DesignJobs, Starting!StartCalls
<1> HIDE DEF newJob
<1>5. reply \in Starting!CallSteps /\ reply # "creating" /\ (reply = "accepted" => MadeAJob(c, designs'))
  BY <1>1, <1>4 DEF Starting!CallSteps, MadeAJob
<1> HIDE DEF reply
<1>6. designs \subseteq designs' /\ \A j \in designs' \ designs : j.id = j.ask
  BY <1>1, <1>4
<1>7. /\ replied \in Starting!StartCalls /\ replied.at = reply /\ replied.host = c.host
      /\ starts' \in SUBSET Starting!StartCalls
      /\ AsksInv' /\ CallsInv' /\ DraftsInv' /\ PrefillsInv' /\ Apart'
  BY ZenonT(60), <1>1, <1>2, <1>5, <1>6, CallMoves
<1> HIDE DEF replied
<1>8. busy[c.host] = c
  BY <1>1 DEF StartInv, AdmitInv
<1>9. /\ busy' \in [PageHosts -> Starting!StartCalls \cup {None}]
      /\ \A h \in PageHosts : busy'[h] = IF h = c.host THEN None ELSE busy[h]
  BY <1>1, <1>3, <1>8 DEF StartInv, StartShape
<1>10. designs' \in SUBSET DesignJobs /\ IsFiniteSet(designs')
  <2>1. IsFiniteSet(designs \cup {newJob})
    BY FS_AddElement DEF StartInv, StartShape
  <2> QED
    BY <1>1, <1>4, <2>1 DEF StartInv, StartShape
<1>11. StartShape'
  BY <1>1, <1>2, <1>7, <1>9, <1>10 DEF StartInv, StartShape
<1>12. AdmitInv'
  <2>1. ASSUME NEW d \in starts', d.at = "creating" PROVE busy'[d.host] = d
    <3>1. d \in starts /\ d # c /\ d.host \in PageHosts /\ busy[d.host] = d
      BY <1>1, <1>5, <1>7, <2>1 DEF StartInv, StartShape, Starting!StartCalls, AdmitInv
    <3> QED
      BY <1>8, <1>9, <3>1
  <2>2. ASSUME NEW h \in PageHosts, h = c.host
        PROVE  Cardinality(Starting!ActiveOn(h)') <= Limit
    <3>1. Starting!ActiveOn(h)' \subseteq Starting!ActiveOn(h) \cup {newJob}
      BY <1>1 DEF Starting!ActiveOn
    <3>2. IsFiniteSet(Starting!ActiveOn(h)) /\ Cardinality(Starting!ActiveOn(h)) \in Nat
      BY ActiveCount DEF StartInv
    <3>3. /\ IsFiniteSet(Starting!ActiveOn(h) \cup {newJob})
          /\ Cardinality(Starting!ActiveOn(h) \cup {newJob}) <= Cardinality(Starting!ActiveOn(h)) + 1
      <4>1. /\ IsFiniteSet(Starting!ActiveOn(h) \cup {newJob})
            /\ Cardinality(Starting!ActiveOn(h) \cup {newJob})
                 = IF newJob \in Starting!ActiveOn(h) THEN Cardinality(Starting!ActiveOn(h)) ELSE Cardinality(Starting!ActiveOn(h)) + 1
        BY <3>2, FS_AddElement
      <4> QED
        BY <3>2, <4>1
    <3>4. Cardinality(Starting!ActiveOn(h)') <= Cardinality(Starting!ActiveOn(h) \cup {newJob})
      BY <3>1, <3>3, FS_Subset
    <3>5. Cardinality(Starting!ActiveOn(h)) < Limit /\ Limit \in Nat
      <4>1. busy[h] # None
        BY <1>3, <1>8, <2>2 DEF StartInv, StartShape, StartConstants
      <4> QED
        BY <4>1 DEF StartInv, StartShape, StartConstants, AdmitInv
    <3>6. Cardinality(Starting!ActiveOn(h)') \in Nat /\ Cardinality(Starting!ActiveOn(h) \cup {newJob}) \in Nat
      BY <3>1, <3>3, FS_Subset, FS_CardinalityType
    <3> QED
      BY <3>2, <3>3, <3>4, <3>5, <3>6
  <2>3. ASSUME NEW h \in PageHosts, h # c.host
        PROVE  Starting!ActiveOn(h)' = Starting!ActiveOn(h)
    BY <1>1, <1>4, <2>3 DEF Starting!ActiveOn
  <2>4. ASSUME NEW h \in PageHosts
        PROVE  /\ Cardinality(Starting!ActiveOn(h)') <= Limit
               /\ busy'[h] # None => Cardinality(Starting!ActiveOn(h)') < Limit
    BY <1>9, <2>2, <2>3 DEF StartInv, AdmitInv
  <2> QED
    BY <2>1, <2>4 DEF AdmitInv
<1> QED
  BY <1>7, <1>11, <1>12 DEF StartInv

LEMMA JobEndsKeeps ==
  ASSUME StartInv, NEW j \in designs, Starting!JobEnds(j)
  PROVE  StartInv'
<1> DEFINE ended == [j EXCEPT !.active = FALSE]
<1>1. /\ designs' = (designs \ {j}) \cup {ended}
      /\ UNCHANGED <<page, card, starts, busy, prefills, used, gone, applied>>
  BY DEF Starting!JobEnds
<1>2. j \in DesignJobs
  BY DEF StartInv, StartShape
<1>3. /\ ended \in DesignJobs /\ ended.host = j.host /\ ended.id = j.id /\ ended.ask = j.ask
      /\ ended.payload = j.payload /\ ended.active = FALSE
  BY <1>2 DEF DesignJobs
<1> HIDE DEF ended
<1>4. designs' \in SUBSET DesignJobs /\ IsFiniteSet(designs')
  <2>1. IsFiniteSet(designs \ {j})
    BY FS_Subset DEF StartInv, StartShape
  <2>2. IsFiniteSet((designs \ {j}) \cup {ended})
    BY <2>1, FS_AddElement
  <2> QED
    BY <1>1, <1>3, <2>2 DEF StartInv, StartShape
<1>5. StartShape'
  BY <1>1, <1>4 DEF StartInv, StartShape
<1>6. AsksInv'
  BY <1>1, <1>3 DEF StartInv, AsksInv
<1>7. \A i \in designs : \E k \in designs' : k.host = i.host /\ k.payload = i.payload
  BY <1>1, <1>3
<1>8. CallsInv'
  <2>1. \A e \in starts : MadeAJob(e, designs) => MadeAJob(e, designs')
    BY <1>7 DEF MadeAJob
  <2> QED
    BY <1>1, <2>1 DEF StartInv, CallsInv
<1>9. DraftsInv'
  BY <1>1, <1>7 DEF StartInv, DraftsInv
<1>10. AdmitInv'
  <2>1. ASSUME NEW h \in PageHosts
        PROVE  /\ Cardinality(Starting!ActiveOn(h)') \in Nat /\ Cardinality(Starting!ActiveOn(h)) \in Nat
               /\ Cardinality(Starting!ActiveOn(h)') <= Cardinality(Starting!ActiveOn(h))
    <3>1. Starting!ActiveOn(h)' \subseteq Starting!ActiveOn(h)
      BY <1>1, <1>3 DEF Starting!ActiveOn
    <3> QED
      BY <3>1, ActiveCount, FS_Subset, FS_CardinalityType DEF StartInv
  <2>2. Limit \in Nat
    BY DEF StartInv, StartShape, StartConstants
  <2>3. ASSUME NEW h \in PageHosts
        PROVE  /\ Cardinality(Starting!ActiveOn(h)') <= Limit
               /\ busy'[h] # None => Cardinality(Starting!ActiveOn(h)') < Limit
    <3>1. /\ Cardinality(Starting!ActiveOn(h)) <= Limit
          /\ busy[h] # None => Cardinality(Starting!ActiveOn(h)) < Limit
      BY DEF StartInv, AdmitInv
    <3> QED
      BY <1>1, <2>1, <2>2, <3>1
  <2> QED
    BY <1>1, <2>3 DEF StartInv, AdmitInv
<1>11. PrefillsInv' /\ Apart'
  BY <1>1, StartTypes, PrefillsStay DEF StartInv, Apart
<1> QED
  BY <1>5, <1>6, <1>8, <1>9, <1>10, <1>11 DEF StartInv

(* Prefills. *)
LEMMA Nonces ==
  ASSUME StartShape
  PROVE  /\ \A e \in Waiting(prefills) : e \in Events /\ e.nonce \in Nat /\ e.host \in PageHosts
         /\ page.slot # None => page.slot.event \in Events /\ page.slot.event.nonce \in Nat
         /\ card.asking # None => card.asking.nonce \in Nat
         /\ \A i \in DOMAIN applied : applied[i].nonce \in Nat
<1>1. \A e \in Events : e.nonce \in Nat /\ e.host \in PageHosts
  BY DEF Events
<1>2. \A e \in Waiting(prefills) : e \in Events
  BY DEF StartShape, Waiting
<1>3. page.slot # None => page.slot.event \in Events
  BY StartTypes DEF Slots
<1>4. card.asking # None => card.asking \in Events
  BY StartTypes
<1>5. \A i \in DOMAIN applied : applied[i].nonce \in Nat
  <2>1. \A i \in DOMAIN applied : applied[i] \in AppliedOnes
    BY DEF StartShape
  <2> QED
    BY <2>1 DEF AppliedOnes
<1> QED
  BY <1>1, <1>2, <1>3, <1>4, <1>5

\* A prefill with a new nonce comes up.
LEMMA PrefillsGrow ==
  ASSUME StartInv, used'.moves = used.moves + 1, NEW e \in Events, e.nonce = used.moves + 1,
         Waiting(prefills') = Waiting(prefills) \cup {e}, page'.slot = page.slot,
         page'.host = page.host, card' = card, applied' = applied
  PROVE  PrefillsInv'
<1> DEFINE m == used.moves
           n == used'.moves
<1>1. m \in Nat /\ n = m + 1 /\ e.nonce = m + 1
  BY StartTypes DEF StartInv
<1>2. \A k \in Nat : k <= m => k <= n /\ k # e.nonce
  BY <1>1
<1> HIDE DEF m, n
<1>3. FreshPrefills(prefills, m) /\ SlotOf(page.slot, prefills, card, applied, m)
      /\ AskingOf(card, page.slot, prefills, applied, page.host, m) /\ AppliedOf(applied, prefills, m)
  BY DEF StartInv, PrefillsInv, m
<1>4. /\ \A d \in Waiting(prefills) : d.nonce \in Nat
      /\ page.slot # None => page.slot.event.nonce \in Nat
      /\ card.asking # None => card.asking.nonce \in Nat
      /\ \A i \in DOMAIN applied : applied[i].nonce \in Nat
  BY Nonces DEF StartInv
<1>5. FreshPrefills(prefills', n)
  BY <1>1, <1>2, <1>3, <1>4 DEF FreshPrefills
<1>6. SlotOf(page'.slot, prefills', card', applied', n)
  BY <1>2, <1>3, <1>4 DEF SlotOf
<1>7. AskingOf(card', page'.slot, prefills', applied', page'.host, n)
  BY <1>2, <1>3, <1>4 DEF AskingOf
<1>8. AppliedOf(applied', prefills', n)
  BY <1>2, <1>3, <1>4 DEF AppliedOf
<1> QED
  BY <1>5, <1>6, <1>7, <1>8 DEF PrefillsInv, n

\* The slot takes a prefill that waited.
LEMMA SlotFilled ==
  ASSUME StartInv, NEW e \in Waiting(prefills), Waiting(prefills') \subseteq Waiting(prefills) \ {e},
         page'.slot.event = e, page'.slot.host = e.host, page'.host = page.host, card' = card,
         applied' = applied, used' = used
  PROVE  PrefillsInv'
<1>1. FreshPrefills(prefills', used'.moves)
  BY DEF StartInv, PrefillsInv, FreshPrefills
<1>2. /\ e.nonce <= used.moves
      /\ \A d \in Waiting(prefills') : d.nonce # e.nonce
      /\ \A i \in DOMAIN applied : applied[i].nonce # e.nonce
      /\ card.asking # None => card.asking.nonce # e.nonce
  BY DEF StartInv, PrefillsInv, FreshPrefills, AppliedOf, AskingOf
<1>3. SlotOf(page'.slot, prefills', card', applied', used'.moves)
  BY <1>2 DEF SlotOf
<1>4. AskingOf(card', page'.slot, prefills', applied', page'.host, used'.moves)
  BY <1>2 DEF StartInv, PrefillsInv, AskingOf
<1>5. AppliedOf(applied', prefills', used'.moves)
  BY DEF StartInv, PrefillsInv, AppliedOf
<1> QED
  BY <1>1, <1>3, <1>4, <1>5 DEF PrefillsInv

\* What the prefills leave alone.
LEMMA OnlyPrefills ==
  ASSUME StartInv, UNCHANGED <<card, starts, busy, designs, gone, applied>>,
         page' \in PageStates, page'.host = page.host, page'.mount = page.mount,
         prefills' \in [queue : SUBSET Events, reading : SUBSET Events, tried : SUBSET Nat],
         used' \in Spendings
  PROVE  StartShape' /\ AsksInv' /\ CallsInv' /\ DraftsInv' /\ AdmitInv'
<1>1. StartShape'
  BY DEF StartInv, StartShape
<1>2. AsksInv' /\ DraftsInv' /\ AdmitInv'
  BY AsksStay, DraftsStay, AdmitStay DEF StartInv
<1>3. CallsInv'
  BY StartTypes, CallsStay DEF StartInv
<1> QED
  BY <1>1, <1>2, <1>3

LEMMA SlashKeeps ==
  ASSUME StartInv, NEW text \in Texts, Starting!Slash(text)
  PROVE  StartInv'
<1> DEFINE token == used.moves + 1
           e == [nonce |-> token, host |-> page.host, text |-> text]
<1>1. /\ Starting!Moved /\ prefills' = [prefills EXCEPT !.queue = @ \cup {e}]
      /\ page' = [page EXCEPT !.token = token]
      /\ UNCHANGED <<card, starts, busy, designs, gone, applied>>
  BY DEF Starting!Slash
<1>2. /\ used' \in Spendings /\ used'.moves = token /\ token \in Nat
  BY <1>1, MovedMoves, StartTypes DEF StartInv
<1>3. e \in Events /\ e.nonce = token
  BY <1>2, StartTypes DEF Events, StartInv
<1>4. /\ page' \in PageStates /\ page'.host = page.host /\ page'.mount = page.mount
      /\ page'.slot = page.slot
  <2>1. page \in PageStates
    BY DEF StartInv, StartShape
  <2> QED
    BY <1>1, <1>2, <2>1 DEF PageStates
<1>5. e \notin prefills.reading
  <2>1. \A d \in prefills.reading : d.nonce <= used.moves
    BY DEF StartInv, PrefillsInv, FreshPrefills, Waiting
  <2> QED
    BY <1>3, <2>1, StartTypes DEF StartInv
<1> HIDE DEF e
<1>6. /\ prefills' \in [queue : SUBSET Events, reading : SUBSET Events, tried : SUBSET Nat]
      /\ prefills'.queue = prefills.queue \cup {e} /\ prefills'.reading = prefills.reading
  BY <1>1, <1>3 DEF StartInv, StartShape
<1>7. StartShape' /\ AsksInv' /\ CallsInv' /\ DraftsInv' /\ AdmitInv'
  BY <1>1, <1>2, <1>4, <1>6, OnlyPrefills
<1>8. PrefillsInv'
  <2>1. Waiting(prefills') = Waiting(prefills) \cup {e}
    BY <1>6 DEF Waiting
  <2> QED
    BY <1>1, <1>2, <1>3, <1>4, <2>1, PrefillsGrow
<1>9. Apart'
  BY <1>5, <1>6 DEF StartInv, Apart
<1> QED
  BY <1>7, <1>8, <1>9 DEF StartInv

LEMMA DeliverKeeps ==
  ASSUME StartInv, Starting!Deliver
  PROVE  StartInv'
<1> DEFINE mine == {e \in prefills.queue : e.nonce = page.token /\ e.host = page.host}
           event == CHOOSE e \in mine : TRUE
           slot == [host |-> page.host, gap |-> FALSE, event |-> event]
<1>1. /\ page.token # None
      /\ prefills' = [prefills EXCEPT !.tried = @ \cup {page.token}, !.queue = @ \ mine]
      /\ page' = IF mine = {} THEN page ELSE [page EXCEPT !.slot = slot]
      /\ UNCHANGED <<card, starts, busy, designs, used, gone, applied>>
  BY DEF Starting!Deliver
<1>2. page \in PageStates /\ page.token \in Nat /\ page.host \in PageHosts
  BY <1>1 DEF StartInv, StartShape, PageStates
<1>3. mine # {} => event \in mine
  OBVIOUS
<1>4. mine \subseteq prefills.queue /\ \A e \in mine : e.host = page.host /\ e.nonce = page.token
  OBVIOUS
<1> HIDE DEF mine, event
<1>5. /\ prefills' \in [queue : SUBSET Events, reading : SUBSET Events, tried : SUBSET Nat]
      /\ prefills'.queue = prefills.queue \ mine /\ prefills'.reading = prefills.reading
  BY <1>1, <1>2 DEF StartInv, StartShape
<1>6. mine # {} => /\ slot \in Slots /\ event \in Waiting(prefills) /\ event.host = page.host
                   /\ slot.event = event /\ slot.host = page.host
  BY <1>2, <1>3, <1>4 DEF StartInv, StartShape, Slots, Waiting
<1> HIDE DEF slot
<1>7. /\ page' \in PageStates /\ page'.host = page.host /\ page'.mount = page.mount
      /\ page'.slot = IF mine = {} THEN page.slot ELSE slot
  BY <1>1, <1>2, <1>6 DEF PageStates
<1>8. StartShape' /\ AsksInv' /\ CallsInv' /\ DraftsInv' /\ AdmitInv'
  BY <1>1, <1>5, <1>7, OnlyPrefills, StartTypes DEF StartInv
<1>9. Apart'
  BY <1>5 DEF StartInv, Apart
<1>10. PrefillsInv'
  <2>1. Waiting(prefills') \subseteq Waiting(prefills)
    BY <1>5 DEF Waiting
  <2>2. CASE mine = {}
    BY <1>1, <1>7, <2>1, <2>2, StartTypes, PrefillsStay DEF StartInv
  <2>3. CASE mine # {}
    <3>1. event \notin Waiting(prefills')
      BY <1>3, <1>4, <1>5, <2>3 DEF StartInv, Apart, Waiting
    <3> QED
      BY <1>1, <1>6, <1>7, <2>1, <2>3, <3>1, SlotFilled
  <2> QED
    BY <2>2, <2>3
<1> QED
  BY <1>8, <1>9, <1>10 DEF StartInv

LEMMA ExpireKeeps ==
  ASSUME StartInv, Starting!Expire
  PROVE  StartInv'
<1>1. /\ prefills' = [prefills EXCEPT !.queue = {}]
      /\ UNCHANGED <<page, card, starts, busy, designs, used, gone, applied>>
  BY DEF Starting!Expire
<1>2. /\ prefills' \in [queue : SUBSET Events, reading : SUBSET Events, tried : SUBSET Nat]
      /\ prefills'.queue = {} /\ prefills'.reading = prefills.reading
  BY <1>1 DEF StartInv, StartShape
<1>3. StartShape' /\ AsksInv' /\ CallsInv' /\ DraftsInv' /\ AdmitInv'
  BY <1>1, <1>2, OnlyPrefills, StartTypes DEF StartInv
<1>4. PrefillsInv' /\ Apart'
  BY <1>1, <1>2, StartTypes, PrefillsStay DEF StartInv, Apart, Waiting
<1> QED
  BY <1>3, <1>4 DEF StartInv

LEMMA GapRetryKeeps ==
  ASSUME StartInv, NEW j \in designs, Starting!GapRetry(j)
  PROVE  StartInv'
<1> DEFINE e == [nonce |-> used.moves + 1, host |-> j.host, text |-> j.payload[1]]
<1>1. /\ Starting!Moved /\ prefills' = [prefills EXCEPT !.reading = @ \cup {e}]
      /\ UNCHANGED <<page, card, starts, busy, designs, gone, applied>>
  BY DEF Starting!GapRetry
<1>2. /\ used' \in Spendings /\ used'.moves = used.moves + 1 /\ used.moves \in Nat
  BY <1>1, MovedMoves, StartTypes DEF StartInv
<1>3. e \in Events /\ e.nonce = used.moves + 1
  <2>1. j.host \in PageHosts /\ j.payload[1] \in Texts
    BY DEF StartInv, StartShape, DesignJobs, Starting!Payloads
  <2> QED
    BY <1>2, <2>1 DEF Events
<1> HIDE DEF e
<1>4. e \notin prefills.queue
  <2>1. \A d \in prefills.queue : d.nonce <= used.moves
    BY DEF StartInv, PrefillsInv, FreshPrefills, Waiting
  <2> QED
    BY <1>2, <1>3, <2>1
<1>5. /\ prefills' \in [queue : SUBSET Events, reading : SUBSET Events, tried : SUBSET Nat]
      /\ prefills'.queue = prefills.queue /\ prefills'.reading = prefills.reading \cup {e}
  BY <1>1, <1>3 DEF StartInv, StartShape
<1>6. StartShape' /\ AsksInv' /\ CallsInv' /\ DraftsInv' /\ AdmitInv'
  BY <1>1, <1>2, <1>5, OnlyPrefills, StartTypes DEF StartInv
<1>7. PrefillsInv'
  <2>1. Waiting(prefills') = Waiting(prefills) \cup {e}
    BY <1>5 DEF Waiting
  <2> QED
    BY <1>1, <1>2, <1>3, <2>1, PrefillsGrow
<1>8. Apart'
  BY <1>4, <1>5 DEF StartInv, Apart
<1> QED
  BY <1>6, <1>7, <1>8 DEF StartInv

LEMMA GapSeedReadKeeps ==
  ASSUME StartInv, NEW e \in prefills.reading, Starting!GapSeedRead(e)
  PROVE  StartInv'
<1> DEFINE slot == [host |-> e.host, gap |-> TRUE, event |-> e]
<1>1. /\ prefills' = [prefills EXCEPT !.reading = @ \ {e}]
      /\ page' = [page EXCEPT !.slot = slot]
      /\ UNCHANGED <<card, starts, busy, designs, used, gone, applied>>
  BY DEF Starting!GapSeedRead
<1>2. e \in Waiting(prefills) /\ e \in Events /\ e.host \in PageHosts
  BY Nonces DEF StartInv, Waiting
<1>3. slot \in Slots /\ slot.event = e /\ slot.host = e.host
  BY <1>2 DEF Slots
<1> HIDE DEF slot
<1>4. /\ page' \in PageStates /\ page'.host = page.host /\ page'.mount = page.mount
      /\ page'.slot = slot
  <2>1. page \in PageStates
    BY DEF StartInv, StartShape
  <2> QED
    BY <1>1, <1>3, <2>1 DEF PageStates
<1>5. /\ prefills' \in [queue : SUBSET Events, reading : SUBSET Events, tried : SUBSET Nat]
      /\ prefills'.queue = prefills.queue /\ prefills'.reading = prefills.reading \ {e}
  BY <1>1 DEF StartInv, StartShape
<1>6. StartShape' /\ AsksInv' /\ CallsInv' /\ DraftsInv' /\ AdmitInv'
  BY <1>1, <1>4, <1>5, OnlyPrefills, StartTypes DEF StartInv
<1>7. PrefillsInv'
  <2>1. Waiting(prefills') \subseteq Waiting(prefills) \ {e}
    BY <1>5 DEF StartInv, Apart, Waiting
  <2> QED
    BY <1>1, <1>2, <1>3, <1>4, <2>1, SlotFilled
<1>8. Apart'
  BY <1>5 DEF StartInv, Apart
<1> QED
  BY <1>6, <1>7, <1>8 DEF StartInv

\* Only the card and what it took up change.
LEMMA OnlyCard ==
  ASSUME StartInv, UNCHANGED <<page, starts, busy, designs, prefills, used>>,
         card' \in Cards, card'.pending = card.pending, card'.retry = card.retry,
         card'.last = card.last, card'.seq = card.seq,
         \/ card'.version > card.version
         \/ card'.version = card.version /\ card'.text = card.text,
         gone' = gone, applied' \in Seq(AppliedOnes)
  PROVE  StartShape' /\ AsksInv' /\ CallsInv' /\ DraftsInv' /\ AdmitInv' /\ Apart'
<1>1. StartShape' /\ Apart'
  BY DEF StartInv, StartShape, Apart
<1>2. AsksInv' /\ DraftsInv' /\ AdmitInv'
  BY AsksStay, DraftsStay, AdmitStay DEF StartInv
<1>3. CallsInv'
  <2>1. card'.version \in Nat
    BY DEF Cards
  <2> QED
    BY <2>1, CallsStay DEF StartInv
<1> QED
  BY <1>1, <1>2, <1>3

\* The card notes which prefill it has seen, and may ask about one.
Noted(k, nonce) == [k EXCEPT !.seen = nonce]
LEMMA CardNotes ==
  ASSUME NEW k \in Cards, NEW nonce \in Nat, NEW k2, k2 = Noted(k, nonce)
  PROVE  /\ k2 \in Cards /\ k2.seen = nonce /\ k2.asking = k.asking /\ k2.pending = k.pending
         /\ k2.retry = k.retry /\ k2.last = k.last /\ k2.seq = k.seq /\ k2.version = k.version
         /\ k2.text = k.text
<1>1. k2 = [text |-> k.text, version |-> k.version, pending |-> k.pending, retry |-> k.retry,
            seq |-> k.seq, seen |-> nonce, asking |-> k.asking, last |-> k.last]
  BY DEF Cards, Noted
<1>2. k2 \in Cards
  BY <1>1 DEF Cards
<1> QED
  BY <1>1, <1>2
Asked(k, asking) == [k EXCEPT !.asking = asking]
LEMMA CardAsks ==
  ASSUME NEW k \in Cards, NEW asking \in Events \cup {None}, NEW k2, k2 = Asked(k, asking)
  PROVE  /\ k2 \in Cards /\ k2.seen = k.seen /\ k2.asking = asking /\ k2.pending = k.pending
         /\ k2.retry = k.retry /\ k2.last = k.last /\ k2.seq = k.seq /\ k2.version = k.version
         /\ k2.text = k.text
<1>1. k2 = [text |-> k.text, version |-> k.version, pending |-> k.pending, retry |-> k.retry,
            seq |-> k.seq, seen |-> k.seen, asking |-> asking, last |-> k.last]
  BY DEF Cards, Asked
<1>2. k2 \in Cards
  BY <1>1 DEF Cards
<1> QED
  BY <1>1, <1>2

\* A prefill that is applied nowhere yet reaches the card.
LEMMA Reaches ==
  ASSUME StartInv, NEW event \in Events, NEW changed \in Cards, Starting!Apply(event, changed),
         changed.pending = card.pending, changed.retry = card.retry, changed.last = card.last,
         changed.seq = card.seq, changed.version = card.version,
         UNCHANGED <<page, starts, busy, designs, prefills, used>>, gone' = gone,
         event.host = page.host, event.nonce <= used.moves,
         \A e \in Waiting(prefills) : e.nonce # event.nonce,
         \A i \in DOMAIN applied : applied[i].nonce # event.nonce,
         changed.asking \in {card.asking, None},
         changed.asking # None => changed.asking.nonce # event.nonce,
         page.slot # None =>
           /\ page.slot.event.nonce = event.nonce => changed.seen = event.nonce
           /\ card.seen = page.slot.event.nonce => changed.seen = card.seen
  PROVE  StartInv'
<1> DEFINE entry == [nonce |-> event.nonce, made |-> event.host, on |-> page.host]
<1>1. card' = Changed(changed, event.text) /\ applied' = Append(applied, entry)
  BY DEF Starting!Apply, Changed
<1>2. event.text \in Drafts /\ event.nonce \in Nat /\ event.host \in PageHosts
  BY DEF Events, Drafts
<1>3. /\ card' \in Cards /\ card'.pending = changed.pending /\ card'.retry = changed.retry
      /\ card'.last = changed.last /\ card'.seq = changed.seq /\ card'.seen = changed.seen
      /\ card'.asking = changed.asking /\ card'.version > changed.version
  BY <1>1, <1>2, TextChanges
<1>4. /\ entry \in AppliedOnes /\ entry.nonce = event.nonce /\ entry.made = entry.on
  BY <1>2, StartTypes DEF AppliedOnes, StartInv
<1> HIDE DEF entry
<1>5. /\ applied' \in Seq(AppliedOnes) /\ DOMAIN applied = 1..Len(applied) /\ Len(applied) \in Nat
      /\ DOMAIN applied' = 1..(Len(applied) + 1)
      /\ \A i \in DOMAIN applied : applied'[i] = applied[i]
      /\ applied'[Len(applied) + 1] = entry
  BY <1>1, <1>4 DEF StartInv, StartShape
<1>6. \A i \in DOMAIN applied' : i \in DOMAIN applied \/ (applied'[i] = entry /\ i = Len(applied) + 1)
  <2>1. \A i \in 1..(Len(applied) + 1) : i \in 1..Len(applied) \/ i = Len(applied) + 1
    BY <1>5
  <2>2. ASSUME NEW i \in DOMAIN applied'
        PROVE  i \in DOMAIN applied \/ (applied'[i] = entry /\ i = Len(applied) + 1)
    <3>1. i \in 1..(Len(applied) + 1)
      BY <1>5
    <3>2. i \in 1..Len(applied) \/ i = Len(applied) + 1
      BY <2>1, <3>1
    <3>3. CASE i \in 1..Len(applied)
      BY <1>5, <3>3
    <3>4. CASE i = Len(applied) + 1
      BY <1>5, <3>4
    <3> QED
      BY <3>2, <3>3, <3>4
  <2> QED
    BY <2>2
<1>7. StartShape' /\ AsksInv' /\ CallsInv' /\ DraftsInv' /\ AdmitInv' /\ Apart'
  BY <1>3, <1>5, OnlyCard
<1>8. FreshPrefills(prefills', used'.moves)
  BY DEF StartInv, PrefillsInv
<1>9. SlotOf(page'.slot, prefills', card', applied', used'.moves)
  BY <1>3, <1>4, <1>5, <1>6 DEF StartInv, PrefillsInv, SlotOf
<1>10. AskingOf(card', page'.slot, prefills', applied', page'.host, used'.moves)
  <2>1. SUFFICES ASSUME changed.asking # None
                 PROVE  AskingOf(card', page'.slot, prefills', applied', page'.host, used'.moves)
    BY <1>3 DEF AskingOf
  <2>2. changed.asking = card.asking /\ card.asking # None
    BY <2>1
  <2>3. page.slot # None /\ page.slot.event.nonce = card.asking.nonce => card.seen = card.asking.nonce
    BY <2>2 DEF StartInv, PrefillsInv, AskingOf
  <2> QED
    BY <1>3, <1>4, <1>5, <1>6, <2>2, <2>3 DEF StartInv, PrefillsInv, AskingOf
<1>11. AppliedOf(applied', prefills', used'.moves)
  BY <1>4, <1>5, <1>6 DEF StartInv, PrefillsInv, AppliedOf
<1> QED
  BY <1>7, <1>8, <1>9, <1>10, <1>11 DEF StartInv, PrefillsInv

LEMMA TakePrefillKeeps ==
  ASSUME StartInv, Starting!TakePrefill
  PROVE  StartInv'
<1> DEFINE event == page.slot.event
           noted == [card EXCEPT !.seen = event.nonce]
<1>1. /\ page.slot # None /\ page.slot.host = page.host /\ card.seen # event.nonce
      /\ IF page.slot.gap /\ Starting!ShouldConfirm(event)
         THEN card' = [noted EXCEPT !.asking = event] /\ UNCHANGED <<gone, applied>>
         ELSE Starting!Apply(event, noted) /\ Starting!Replace(event.text, ~page.slot.gap)
      /\ UNCHANGED <<page, starts, busy, designs, prefills, used>>
  BY DEF Starting!TakePrefill, Starting!ForThisHost
<1>2. card \in Cards /\ event \in Events /\ event.nonce \in Nat
  BY <1>1, StartTypes, Nonces DEF StartInv
<1>3. noted = Noted(card, event.nonce)
  BY DEF Noted
<1> HIDE DEF noted
<1>4. /\ noted \in Cards /\ noted.seen = event.nonce /\ noted.asking = card.asking
      /\ noted.pending = card.pending /\ noted.retry = card.retry /\ noted.last = card.last
      /\ noted.seq = card.seq /\ noted.version = card.version /\ noted.text = card.text
  BY <1>2, <1>3, CardNotes
<1>5. /\ event.nonce <= used.moves /\ event.host = page.host
      /\ \A e \in Waiting(prefills) : e.nonce # event.nonce
      /\ \A i \in DOMAIN applied : applied[i].nonce # event.nonce
      /\ card.asking # None => card.asking.nonce # event.nonce
  BY <1>1 DEF StartInv, PrefillsInv, SlotOf, AskingOf
<1>6. CASE page.slot.gap /\ Starting!ShouldConfirm(event)
  <2>1. card' = Asked(noted, event) /\ UNCHANGED <<gone, applied>>
    BY <1>1, <1>6 DEF Asked
  <2>2. /\ card' \in Cards /\ card'.seen = event.nonce /\ card'.asking = event
        /\ card'.pending = card.pending /\ card'.retry = card.retry /\ card'.last = card.last
        /\ card'.seq = card.seq /\ card'.version = card.version /\ card'.text = card.text
    BY <1>2, <1>4, <2>1, CardAsks
  <2>3. StartShape' /\ AsksInv' /\ CallsInv' /\ DraftsInv' /\ AdmitInv' /\ Apart'
    BY <1>1, <2>1, <2>2, OnlyCard DEF StartInv, StartShape
  <2>4. PrefillsInv'
    BY <1>1, <1>5, <2>1, <2>2 DEF StartInv, PrefillsInv, SlotOf, AskingOf
  <2> QED
    BY <2>3, <2>4 DEF StartInv
<1>7. CASE ~(page.slot.gap /\ Starting!ShouldConfirm(event))
  <2>1. Starting!Apply(event, noted) /\ Starting!Replace(event.text, ~page.slot.gap)
    BY <1>1, <1>7
  <2>2. gone' = gone
    BY <1>7, <2>1 DEF Starting!Replace, Starting!ShouldConfirm
  <2> QED
    BY <1>1, <1>2, <1>4, <1>5, <2>1, <2>2, Reaches
<1> QED
  BY <1>6, <1>7

LEMMA AgreeKeeps ==
  ASSUME StartInv, Starting!Agree
  PROVE  StartInv'
<1> DEFINE event == card.asking
           cleared == [card EXCEPT !.asking = None]
<1>1. /\ event # None /\ Starting!Apply(event, cleared) /\ Starting!Replace(event.text, TRUE)
      /\ UNCHANGED <<page, starts, busy, designs, prefills, used>>
  BY DEF Starting!Agree
<1>2. card \in Cards /\ event \in Events
  BY <1>1, StartTypes DEF StartInv
<1>3. cleared = Asked(card, None)
  BY DEF Asked
<1> HIDE DEF cleared
<1>4. /\ cleared \in Cards /\ cleared.seen = card.seen /\ cleared.asking = None
      /\ cleared.pending = card.pending /\ cleared.retry = card.retry /\ cleared.last = card.last
      /\ cleared.seq = card.seq /\ cleared.version = card.version /\ cleared.text = card.text
  BY <1>2, <1>3, CardAsks
<1>5. /\ event.nonce <= used.moves /\ event.host = page.host
      /\ \A e \in Waiting(prefills) : e.nonce # event.nonce
      /\ \A i \in DOMAIN applied : applied[i].nonce # event.nonce
      /\ page.slot # None /\ page.slot.event.nonce = event.nonce => card.seen = event.nonce
  BY <1>1 DEF StartInv, PrefillsInv, AskingOf
<1>6. gone' = gone
  BY <1>1 DEF Starting!Replace
<1> QED
  BY <1>1, <1>2, <1>4, <1>5, <1>6, Reaches

LEMMA DeclineKeeps ==
  ASSUME StartInv, Starting!Decline
  PROVE  StartInv'
<1>1. /\ card' = Asked(card, None)
      /\ UNCHANGED <<page, starts, busy, designs, prefills, used, gone, applied>>
  BY DEF Starting!Decline, Asked
<1>2. /\ card' \in Cards /\ card'.seen = card.seen /\ card'.asking = None
      /\ card'.pending = card.pending /\ card'.retry = card.retry /\ card'.last = card.last
      /\ card'.seq = card.seq /\ card'.version = card.version /\ card'.text = card.text
  BY <1>1, StartTypes, CardAsks DEF StartInv
<1>3. StartShape' /\ AsksInv' /\ CallsInv' /\ DraftsInv' /\ AdmitInv' /\ Apart'
  BY <1>1, <1>2, OnlyCard DEF StartInv, StartShape
<1>4. PrefillsInv'
  BY <1>1, <1>2, StartTypes, PrefillsStay DEF StartInv
<1> QED
  BY <1>3, <1>4 DEF StartInv

(* The page. *)
LEMMA BlankIsACard == Starting!BlankCard \in Cards
<1>1. /\ None \in Drafts /\ None \in Starting!Pendings \cup {None} /\ None \in Starting!Retries \cup {None}
      /\ None \in Nat \cup {None} /\ None \in Events \cup {None} /\ None \in Starting!Lasts \cup {None}
  BY DEF Drafts
<1> QED
  BY <1>1 DEF Starting!BlankCard, Cards

Elsewhere(p, h, slot) == [p EXCEPT !.host = h, !.mount = @ + 1, !.slot = slot]
LEMMA PageMoves ==
  ASSUME NEW p \in PageStates, NEW h \in PageHosts, NEW slot \in Slots \cup {None}, NEW p2,
         p2 = Elsewhere(p, h, slot)
  PROVE  p2 \in PageStates /\ p2.slot = slot /\ p2.mount = p.mount + 1 /\ p.mount \in Nat
<1>1. p2 = [host |-> h, mount |-> p.mount + 1, token |-> p.token, slot |-> slot,
            contract |-> p.contract]
  BY DEF PageStates, Elsewhere
<1>2. p.mount \in Nat /\ p.mount + 1 \in Nat
  BY DEF PageStates
<1>3. p2 \in PageStates
  BY <1>1, <1>2 DEF PageStates
<1> QED
  BY <1>1, <1>2, <1>3

LEMMA SwitchHostKeeps ==
  ASSUME StartInv, NEW h \in PageHosts, Starting!SwitchHost(h)
  PROVE  StartInv'
<1>1. /\ Starting!Moved /\ page' = [page EXCEPT !.host = h, !.mount = @ + 1, !.slot = None]
      /\ card' = Starting!BlankCard /\ prefills' = [prefills EXCEPT !.tried = {}]
      /\ UNCHANGED <<starts, busy, designs, gone, applied>>
  BY DEF Starting!SwitchHost
<1>2. /\ used' \in Spendings /\ used'.moves = used.moves + 1 /\ used.moves \in Nat
  BY <1>1, MovedMoves, StartTypes DEF StartInv
<1>3. /\ page' \in PageStates /\ page'.slot = None /\ page'.mount = page.mount + 1
      /\ page.mount \in Nat
  <2>1. page \in PageStates
    BY DEF StartInv, StartShape
  <2>2. page' = Elsewhere(page, h, None)
    BY <1>1 DEF Elsewhere
  <2> QED
    BY <2>1, <2>2, PageMoves
<1>4. /\ card' \in Cards /\ card'.pending = None /\ card'.retry = None /\ card'.last = None
      /\ card'.asking = None
  BY <1>1, BlankIsACard DEF Starting!BlankCard
<1>5. /\ prefills' \in [queue : SUBSET Events, reading : SUBSET Events, tried : SUBSET Nat]
      /\ prefills'.queue = prefills.queue /\ prefills'.reading = prefills.reading
  BY <1>1 DEF StartInv, StartShape
<1>6. StartShape' /\ Apart'
  BY <1>1, <1>2, <1>3, <1>4, <1>5 DEF StartInv, StartShape, Apart
<1>7. AsksInv' /\ AdmitInv' /\ DraftsInv'
  <2>1. AskOf(card')
    BY <1>4 DEF AskOf
  <2> QED
    BY <1>1, <2>1, AdmitStay, DraftsStay DEF StartInv, AsksInv
<1>8. CallsInv'
  <2>1. PendingOf(card')
    BY <1>4 DEF PendingOf
  <2>2. ASSUME NEW c \in starts PROVE CallOf(c, page', card')
    <3>1. c.mount <= page.mount /\ c.mount \in Nat
      BY DEF StartInv, StartShape, Starting!StartCalls, CallsInv, CallOf
    <3> QED
      BY <1>3, <3>1 DEF CallOf
  <2> QED
    BY <1>1, <2>1, <2>2 DEF StartInv, CallsInv
<1>9. PrefillsInv'
  <2>1. \A k \in Nat : k <= used.moves => k <= used'.moves
    BY <1>2
  <2>2. Waiting(prefills') = Waiting(prefills)
    BY <1>5 DEF Waiting
  <2>3. FreshPrefills(prefills', used'.moves)
    BY <2>1, <2>2, Nonces DEF StartInv, PrefillsInv, FreshPrefills
  <2>4. AppliedOf(applied', prefills', used'.moves)
    BY <1>1, <2>1, <2>2, Nonces DEF StartInv, PrefillsInv, AppliedOf
  <2>5. /\ SlotOf(page'.slot, prefills', card', applied', used'.moves)
        /\ AskingOf(card', page'.slot, prefills', applied', page'.host, used'.moves)
    BY <1>3, <1>4 DEF SlotOf, AskingOf
  <2> QED
    BY <2>3, <2>4, <2>5 DEF PrefillsInv
<1> QED
  BY <1>6, <1>7, <1>8, <1>9 DEF StartInv

LEMMA ContractKeeps ==
  ASSUME StartInv, Starting!ContractChanges
  PROVE  StartInv'
<1>1. /\ Starting!Moved /\ page' = [page EXCEPT !.contract = IF @ = "v2" THEN "baseline" ELSE "v2"]
      /\ UNCHANGED <<card, starts, busy, designs, prefills, gone, applied>>
  BY DEF Starting!ContractChanges
<1>2. /\ used' \in Spendings /\ used'.moves = used.moves + 1 /\ used.moves \in Nat
  BY <1>1, MovedMoves, StartTypes DEF StartInv
<1>3. /\ page' \in PageStates /\ page'.host = page.host /\ page'.mount = page.mount
      /\ page'.slot = page.slot
  <2>1. page \in PageStates
    BY DEF StartInv, StartShape
  <2> QED
    BY <1>1, <2>1 DEF PageStates
<1>4. StartShape' /\ AsksInv' /\ CallsInv' /\ DraftsInv' /\ AdmitInv'
  <2>1. prefills' \in [queue : SUBSET Events, reading : SUBSET Events, tried : SUBSET Nat]
    BY <1>1 DEF StartInv, StartShape
  <2> QED
    BY <1>1, <1>2, <1>3, <2>1, OnlyPrefills
<1>5. PrefillsInv' /\ Apart'
  BY <1>1, <1>2, <1>3, PrefillsStay DEF StartInv, Apart
<1> QED
  BY <1>4, <1>5 DEF StartInv

LEMMA StartInit ==
  ASSUME StartConstants, Starting!Init
  PROVE  StartInv
<1>1. PICK h \in PageHosts :
        page = [host |-> h, mount |-> 1, token |-> None, slot |-> None, contract |-> "v2"]
  BY DEF Starting!Init
<1>2. /\ card = Starting!BlankCard /\ starts = {} /\ busy = [k \in PageHosts |-> None] /\ designs = {}
      /\ prefills = [queue |-> {}, reading |-> {}, tried |-> {}]
      /\ used = [presses |-> 0, moves |-> 0, losses |-> 0] /\ gone = {} /\ applied = <<>>
  BY DEF Starting!Init
<1>3. page \in PageStates /\ page.slot = None
  <2>1. None \in Slots \cup {None} /\ None \in Nat \cup {None} /\ "v2" \in {"v2", "baseline"}
    OBVIOUS
  <2> QED
    BY <1>1, <2>1 DEF PageStates
<1>4. /\ card \in Cards /\ card.pending = None /\ card.retry = None /\ card.last = None
      /\ card.asking = None
  BY <1>2, BlankIsACard DEF Starting!BlankCard
<1>5. StartShape
  <2>1. IsFiniteSet(designs)
    BY <1>2, FS_EmptySet
  <2>2. prefills \in [queue : SUBSET Events, reading : SUBSET Events, tried : SUBSET Nat]
    BY <1>2
  <2>3. used \in Spendings /\ applied \in Seq(AppliedOnes)
    BY <1>2 DEF Spendings
  <2> QED
    BY <1>2, <1>3, <1>4, <2>1, <2>2, <2>3 DEF StartShape
<1>6. AsksInv /\ CallsInv /\ DraftsInv
  BY <1>2, <1>4 DEF AsksInv, AskOf, CallsInv, PendingOf, DraftsInv
<1>7. AdmitInv
  <2>1. \A k : Starting!ActiveOn(k) = {}
    BY <1>2 DEF Starting!ActiveOn
  <2>2. Cardinality({}) = 0
    BY FS_EmptySet
  <2>3. Limit \in Nat /\ 0 <= Limit
    BY DEF StartConstants
  <2>4. \A k \in PageHosts : Cardinality(Starting!ActiveOn(k)) <= Limit /\ busy[k] = None
    BY <1>2, <2>1, <2>2, <2>3
  <2> QED
    BY <1>2, <2>4 DEF AdmitInv
<1>8. PrefillsInv /\ Apart
  <2>1. Waiting(prefills) = {} /\ DOMAIN applied = {}
    BY <1>2 DEF Waiting
  <2>2. Apart
    BY <1>2 DEF Apart
  <2> QED
    BY <1>3, <1>4, <2>1, <2>2 DEF PrefillsInv, FreshPrefills, SlotOf, AskingOf, AppliedOf
<1> QED
  BY <1>5, <1>6, <1>7, <1>8 DEF StartInv

LEMMA StartNext ==
  ASSUME StartInv, [Starting!Next]_Starting!startVars
  PROVE  StartInv'
<1>1. CASE Starting!Next
  <2>1. CASE \E text \in Texts \cup {None} : Starting!Edit(text)
    BY <2>1, EditKeeps DEF Drafts
  <2>2. CASE \E text \in Texts : Starting!Slash(text)
    BY <2>2, SlashKeeps
  <2>3. CASE Starting!Press \/ Starting!Deliver \/ Starting!Expire \/ Starting!TakePrefill \/ Starting!Agree \/ Starting!Decline
    BY <2>3, PressKeeps, DeliverKeeps, ExpireKeeps, TakePrefillKeeps, AgreeKeeps, DeclineKeeps
  <2>4. CASE (\E h \in PageHosts : Starting!SwitchHost(h)) \/ Starting!ContractChanges
    BY <2>4, SwitchHostKeeps, ContractKeeps
  <2>5. CASE \E c \in starts : \/ Starting!Admit(c) \/ (\E fails \in BOOLEAN : Starting!Create(c, fails))
                              \/ Starting!Answer(c) \/ Starting!AnswerLost(c)
    BY <2>5, AdmitKeeps, CreateKeeps, AnswerKeeps, AnswerLostKeeps
  <2>6. CASE \E j \in designs : Starting!JobEnds(j) \/ Starting!GapRetry(j)
    BY <2>6, JobEndsKeeps, GapRetryKeeps
  <2>7. CASE \E e \in prefills.reading : Starting!GapSeedRead(e)
    BY <2>7, GapSeedReadKeeps
  <2> QED
    BY <1>1, <2>1, <2>2, <2>3, <2>4, <2>5, <2>6, <2>7 DEF Starting!Next
<1>2. CASE UNCHANGED Starting!startVars
  BY <1>2 DEF Starting!startVars, StartInv, StartShape, AsksInv, CallsInv, DraftsInv, AdmitInv, Starting!ActiveOn,
              PrefillsInv, Apart
<1> QED
  BY <1>1, <1>2

LEMMA StartSafe ==
  ASSUME StartInv
  PROVE  Starting!OneJobPerAsk /\ Starting!DraftsAreJobs /\ Starting!PrefillsAtHome /\ Starting!AdmissionHolds
BY SameSize DEF StartInv, AsksInv, DraftsInv, AdmitInv, PrefillsInv, AppliedOf,
       Starting!OneJobPerAsk, Starting!DraftsAreJobs, Starting!PrefillsAtHome, Starting!AdmissionHolds

(***************************************************************************)
(* IV.  The plans of the Teams page.                                       *)
(***************************************************************************)

Keys == Scopes \cup {NoScope}
PlanResults == UNION {[K -> Nat] : K \in SUBSET Nat}
KeptLists == [key : Keys, results : PlanResults, context : Snapshots \cup {None}, old : BOOLEAN]
Timers == [epoch : Nat, seq : Nat]
DraftStates == {"idle", "pending", "error", "result"}
Sessions == [timer : Timers \cup {None}, scheduled : PlanDrafts \cup {None}, seq : Nat,
             last : PlanDrafts \cup {None}, state : DraftStates]
Clients ==
  [scope : Keys, epoch : Nat, mode : Plans!Modes, batch : Nat, chunks : Seq(SUBSET Nat),
   pending : BOOLEAN, total : Nat, done : Nat, cacheKey : Keys, inFlightKey : Keys,
   results : PlanResults, failed : SUBSET Nat, error : BOOLEAN,
   context : Snapshots \cup {None}, cache : SUBSET KeptLists, probed : Keys, saved : Nat,
   refreshed : {"never", "fresh", "stale"}, probing : BOOLEAN, active : BOOLEAN,
   timer : BOOLEAN, draft : Sessions, calls : SUBSET Plans!Call, destroyed : BOOLEAN]

\* The calls for chunks, and those of the last batch.
ChunkCalls(c) == {k \in c.calls : k.kind = "chunk"}
Mine(c) == {k \in ChunkCalls(c) : k.number = c.batch}

\* No call is of a later epoch or batch.
CallsFit(c) ==
  /\ IsFiniteSet(c.calls)
  /\ \A k \in c.calls : /\ k.epoch <= c.epoch /\ (c.destroyed => k.epoch < c.epoch)
                        /\ k.kind = "chunk" => k.number <= c.batch
  /\ Cardinality(ChunkCalls(c)) <= MaxConcurrent

\* The guard of a list under way: its chunks are counted, to be sent, or called for.
Distinct(chunks) == \A i, j \in DOMAIN chunks : chunks[i] = chunks[j] => i = j
UnderWay(c) ==
  /\ c.inFlightKey = c.scope /\ c.cacheKey = c.scope /\ ~c.destroyed
  /\ \A k \in Mine(c) : k.epoch = c.epoch /\ \A i \in DOMAIN c.chunks : c.chunks[i] # k.keys
  /\ Distinct(c.chunks)
  /\ c.done + Cardinality(Mine(c)) + Len(c.chunks) = c.total /\ c.done < c.total
AtRest(c) == c.chunks = <<>> /\ \A k \in Mine(c) : k.epoch < c.epoch
BatchInv(c) == IF c.inFlightKey # NoScope THEN UnderWay(c) ELSE AtRest(c)
Pumped(c) == c.chunks # <<>> => Cardinality(ChunkCalls(c)) = MaxConcurrent

\* What is shown and kept was asked in this epoch.
AsOf(results, epoch) == \A k \in DOMAIN results : results[k] = epoch
ShownInv(c) ==
  /\ AsOf(c.results, c.epoch) /\ (DOMAIN c.results # {} => c.scope # NoScope)
  /\ \A e \in c.cache : AsOf(e.results, c.epoch)
\* While a kept list is young no other is asked for, so the context stays its own.
KeptInv(c) ==
  \A e \in c.cache : e.key = c.scope /\ ~e.old => e.context = c.context /\ c.inFlightKey = NoScope

DraftInv(c) ==
  ~c.destroyed =>
    /\ c.mode = "legacy" => c.draft.last = None
    /\ c.draft.timer # None => c.draft.timer = [epoch |-> c.epoch, seq |-> c.draft.seq]
    /\ c.draft.last # None =>
         /\ c.scope # NoScope /\ c.draft.state # "idle"
         /\ c.draft.state = "pending" =>
              \/ c.draft.timer # None
              \/ \E k \in c.calls : k.kind = "draft" /\ Plans!SameDraft(c, k)

ActiveInv(c) == c.timer = c.active /\ (c.active => ~c.destroyed /\ c.scope # NoScope)

ClientInv(c) ==
  /\ c \in Clients /\ CallsFit(c) /\ BatchInv(c) /\ Pumped(c) /\ ShownInv(c) /\ KeptInv(c)
  /\ DraftInv(c) /\ ActiveInv(c)
PlanInv ==
  /\ ClientInv(client) /\ plans.last = client.scope
  /\ plans \in [last : Keys, editor : BOOLEAN]

(* What the operators of the client change. *)
LEMMA EmptyPlans == <<>> \in PlanResults /\ DOMAIN <<>> = {}
BY DEF PlanResults
LEMMA EmptyChunks == <<>> \in Seq(SUBSET Nat) /\ Len(<<>>) = 0 /\ DOMAIN <<>> = {}
OBVIOUS
LEMMA SameCount == \A S : Plans!Cardinality(S) = Cardinality(S)
BY DEF Plans!Cardinality, Cardinality
LEMMA RunningIs == \A c : Plans!Running(c) = Cardinality(ChunkCalls(c))
BY SameCount DEF Plans!Running, ChunkCalls

\* What two states of the client have in common.
SameView(c, d) == d.scope = c.scope /\ d.epoch = c.epoch /\ d.destroyed = c.destroyed
SameBatch(c, d) == /\ d.batch = c.batch /\ d.chunks = c.chunks /\ d.total = c.total /\ d.done = c.done
                   /\ d.cacheKey = c.cacheKey /\ d.inFlightKey = c.inFlightKey
SameShown(c, d) == /\ d.results = c.results /\ d.failed = c.failed /\ d.error = c.error
                   /\ d.context = c.context /\ d.cache = c.cache
SameActive(c, d) == d.active = c.active /\ d.timer = c.timer /\ d.refreshed = c.refreshed

LEMMA DroppedIs ==
  ASSUME NEW c \in Clients
  PROVE  LET d == Plans!Dropped(c) IN
         /\ d \in Clients /\ d.epoch = c.epoch + 1 /\ DOMAIN d.results = {} /\ d.cache = {}
         /\ d.chunks = <<>> /\ d.inFlightKey = NoScope /\ d.context = None
         /\ d.scope = c.scope /\ d.mode = c.mode /\ d.batch = c.batch /\ d.cacheKey = c.cacheKey
         /\ d.saved = c.saved /\ SameActive(c, d)
         /\ d.draft = c.draft /\ d.calls = c.calls /\ d.destroyed = c.destroyed
<1> DEFINE d == Plans!Dropped(c)
<1>1. c.epoch + 1 \in Nat /\ NoScope \in Keys
  BY DEF Clients, Keys
<1>2. /\ d.epoch = c.epoch + 1 /\ d.results = <<>> /\ d.cache = {}
      /\ d.chunks = <<>> /\ d.inFlightKey = NoScope /\ d.context = None
  BY DEF Clients, Plans!Dropped
<1>3. /\ d.scope = c.scope /\ d.mode = c.mode /\ d.batch = c.batch /\ d.cacheKey = c.cacheKey
      /\ d.saved = c.saved /\ SameActive(c, d)
      /\ d.draft = c.draft /\ d.calls = c.calls /\ d.destroyed = c.destroyed
  BY DEF Clients, Plans!Dropped, SameActive
<1>4. d \in Clients
  BY ZenonT(60), <1>1, EmptyPlans, EmptyChunks DEF Clients, Plans!Dropped
<1> QED
  BY <1>2, <1>3, <1>4, EmptyPlans

\* A draft session of its own.
LEMMA SessionsAre ==
  ASSUME NEW s \in Sessions
  PROVE  /\ Plans!TimerCleared(s) \in Sessions /\ Plans!TimerCleared(s).timer = None
         /\ Plans!TimerCleared(s).last = s.last /\ Plans!TimerCleared(s).state = s.state /\ Plans!TimerCleared(s).seq = s.seq
         /\ Plans!SessionReset(s) \in Sessions /\ Plans!SessionReset(s).timer = None /\ Plans!SessionReset(s).last = s.last
         /\ Plans!DraftHidden(s) \in Sessions /\ Plans!DraftHidden(s).timer = None /\ Plans!DraftHidden(s).last = None
<1>1. /\ Plans!TimerCleared(s) \in Sessions /\ Plans!TimerCleared(s).timer = None
      /\ Plans!TimerCleared(s).last = s.last /\ Plans!TimerCleared(s).state = s.state /\ Plans!TimerCleared(s).seq = s.seq
  BY DEF Plans!TimerCleared, Sessions
<1> DEFINE t == Plans!TimerCleared(s)
<1> HIDE DEF t
<1>2. Plans!SessionReset(s) = [t EXCEPT !.state = "idle"]
  BY DEF Plans!SessionReset, t
<1>3. Plans!SessionReset(s) \in Sessions /\ Plans!SessionReset(s).timer = None /\ Plans!SessionReset(s).last = s.last
  BY <1>1, <1>2 DEF Sessions, DraftStates, t
<1> DEFINE r == Plans!SessionReset(s)
<1> HIDE DEF r
<1>4. Plans!DraftHidden(s) = [r EXCEPT !.last = None, !.seq = @ + 1]
  BY DEF Plans!DraftHidden, r
<1>5. r \in Sessions /\ r.timer = None /\ r.seq + 1 \in Nat
  BY <1>3 DEF Sessions, r
<1>6. Plans!DraftHidden(s) \in Sessions
  BY <1>4, <1>5 DEF Sessions
<1>7. Plans!DraftHidden(s).timer = None /\ Plans!DraftHidden(s).last = None
  BY <1>4, <1>5 DEF Sessions
<1> QED
  BY <1>1, <1>3, <1>6, <1>7

\* Another draft, and nothing else.
WithDraft(c, s) == [c EXCEPT !.draft = s]
SameButDraft(c, d) ==
  /\ SameView(c, d) /\ SameBatch(c, d) /\ SameShown(c, d) /\ SameActive(c, d)
  /\ d.mode = c.mode /\ d.saved = c.saved /\ d.calls = c.calls
LEMMA WithDraftIs ==
  ASSUME NEW c \in Clients, NEW s \in Sessions
  PROVE  LET d == WithDraft(c, s) IN d \in Clients /\ d.draft = s /\ SameButDraft(c, d)
<1> DEFINE d == WithDraft(c, s)
<1>1. d \in Clients /\ d.draft = s
  BY DEF Clients, WithDraft
<1>2. SameButDraft(c, d)
  BY DEF Clients, WithDraft, SameButDraft, SameView, SameBatch, SameShown, SameActive
<1> QED
  BY <1>1, <1>2

LEMMA SetModeIs ==
  ASSUME NEW c \in Clients, NEW m \in Plans!Modes
  PROVE  LET d == Plans!SetMode(c, m) IN
         /\ d \in Clients /\ d.mode = m /\ SameView(c, d) /\ SameBatch(c, d) /\ SameActive(c, d)
         /\ d.context = c.context /\ d.cache = c.cache /\ d.saved = c.saved /\ d.calls = c.calls
         /\ m # "legacy" \/ c.mode = "legacy" => SameShown(c, d) /\ d.draft = c.draft
         /\ ~(m # "legacy" \/ c.mode = "legacy") =>
              DOMAIN d.results = {} /\ d.draft.last = None /\ d.draft.timer = None
<1> DEFINE d == Plans!SetMode(c, m)
<1>1. CASE m # "legacy" \/ c.mode = "legacy"
  <2>1. d = [c EXCEPT !.mode = m]
    BY <1>1 DEF Plans!SetMode
  <2>2. d \in Clients /\ d.mode = m
    BY <2>1 DEF Clients
  <2>3. /\ SameView(c, d) /\ SameBatch(c, d) /\ SameActive(c, d) /\ SameShown(c, d)
        /\ d.saved = c.saved /\ d.calls = c.calls /\ d.draft = c.draft
    BY <2>1 DEF Clients, SameView, SameBatch, SameShown, SameActive
  <2> QED
    BY <1>1, <2>2, <2>3 DEF SameShown
<1>2. CASE ~(m # "legacy" \/ c.mode = "legacy")
  <2> DEFINE s == IF Plans!InUse(c.draft) \/ c.draft.last # None THEN Plans!DraftHidden(c.draft) ELSE c.draft
  <2>1. s \in Sessions /\ s.last = None /\ s.timer = None
    BY SessionsAre DEF Clients, Plans!InUse
  <2> HIDE DEF s
  <2>2. d = [c EXCEPT !.mode = m, !.results = <<>>, !.failed = {}, !.error = FALSE, !.draft = s]
    BY <1>2 DEF Plans!SetMode, s
  <2>3. d.mode = m /\ d.results = <<>> /\ d.draft = s
    BY <2>2 DEF Clients
  <2>5. d \in Clients
    BY ZenonT(60), <2>1, <2>2, EmptyPlans DEF Clients
  <2>4. /\ SameView(c, d) /\ SameBatch(c, d) /\ SameActive(c, d)
        /\ d.context = c.context /\ d.cache = c.cache /\ d.saved = c.saved /\ d.calls = c.calls
    BY <2>2 DEF Clients, SameView, SameBatch, SameActive
  <2> QED
    BY <1>2, <2>1, <2>3, <2>4, <2>5, EmptyPlans
<1> QED
  BY <1>1, <1>2

(* Drafts. *)
\* What the draft has no part in.
Core(c) == CallsFit(c) /\ BatchInv(c) /\ ShownInv(c) /\ KeptInv(c)
LEMMA CoreStays ==
  ASSUME NEW c, NEW d, SameButDraft(c, d)
  PROVE  /\ Core(c) => Core(d)
         /\ Pumped(c) => Pumped(d)
         /\ ActiveInv(c) => ActiveInv(d)
<1>1. ChunkCalls(d) = ChunkCalls(c) /\ Mine(d) = Mine(c)
  BY DEF SameButDraft, SameView, SameBatch, ChunkCalls, Mine
<1>2. CallsFit(c) => CallsFit(d)
  BY <1>1 DEF SameButDraft, SameView, SameBatch, CallsFit
<1>3. BatchInv(c) => BatchInv(d)
  BY <1>1 DEF SameButDraft, SameView, SameBatch, BatchInv, UnderWay, AtRest
<1>4. ShownInv(c) => ShownInv(d)
  BY DEF SameButDraft, SameView, SameShown, ShownInv
<1>5. KeptInv(c) => KeptInv(d)
  BY DEF SameButDraft, SameView, SameBatch, SameShown, KeptInv
<1>6. (Pumped(c) => Pumped(d)) /\ (ActiveInv(c) => ActiveInv(d))
  BY <1>1 DEF SameButDraft, SameView, SameBatch, SameActive, Pumped, ActiveInv
<1> QED
  BY <1>2, <1>3, <1>4, <1>5, <1>6 DEF Core

LEMMA SameTwice ==
  ASSUME NEW c, NEW d, NEW e, SameButDraft(c, d), SameButDraft(d, e)
  PROVE  SameButDraft(c, e)
BY DEF SameButDraft, SameView, SameBatch, SameShown, SameActive

\* The drafts that EnqueueDraft leaves: refused by the host, by the input check, or waiting.
Hidden(s) == [Plans!TimerCleared(s) EXCEPT !.last = None, !.state = "idle"]
RefusedSession(s) == [Plans!TimerCleared(s) EXCEPT !.last = None, !.seq = @ + 1, !.state = "error"]
DraftWaits(c, x) == [timer |-> [epoch |-> c.epoch, seq |-> c.draft.seq + 1], scheduled |-> x,
                  seq |-> c.draft.seq + 1, last |-> x, state |-> "pending"]
LEMMA EnqueueIs ==
  ASSUME NEW c, NEW x
  PROVE  Plans!EnqueueDraft(c, x) =
           IF c.destroyed \/ c.scope = NoScope THEN c
           ELSE IF c.mode = "legacy" THEN WithDraft(c, Hidden(c.draft))
           ELSE IF Plans!Invalid(x) THEN WithDraft(c, RefusedSession(c.draft))
           ELSE IF c.draft.scheduled = x THEN c
           ELSE WithDraft(c, DraftWaits(c, x))
BY Zenon DEF Plans!EnqueueDraft, WithDraft, Hidden, RefusedSession, DraftWaits

\* A draft that is enqueued waits for its timer, or is refused.
LEMMA EnqueueKeeps ==
  ASSUME NEW c \in Clients, NEW x \in PlanDrafts, ~c.destroyed, c.scope # NoScope, c.mode # "legacy",
         c.draft.scheduled # x \/ DraftInv(c)
  PROVE  LET d == Plans!EnqueueDraft(c, x) IN d \in Clients /\ SameButDraft(c, d) /\ DraftInv(d)
<1> DEFINE d == Plans!EnqueueDraft(c, x)
<1>1. c.draft \in Sessions /\ c.draft.seq \in Nat /\ c.epoch \in Nat
  BY DEF Clients, Sessions
<1>2. CASE Plans!Invalid(x)
  <2> DEFINE t == Plans!TimerCleared(c.draft)
             s == RefusedSession(c.draft)
  <2>1. t \in Sessions /\ t.timer = None /\ t.seq + 1 \in Nat
    BY <1>1, SessionsAre
  <2>2. s = [t EXCEPT !.last = None, !.seq = @ + 1, !.state = "error"]
    BY DEF RefusedSession
  <2>5. d = WithDraft(c, s)
    BY <1>2, EnqueueIs
  <2> HIDE DEF t, s
  <2>3. s.timer = None /\ s.last = None
    BY <2>1, <2>2 DEF Sessions
  <2>4. s \in Sessions
    BY <2>1, <2>2 DEF Sessions, DraftStates
  <2> QED
    BY <2>3, <2>4, <2>5, WithDraftIs DEF DraftInv
<1>3. CASE ~Plans!Invalid(x) /\ c.draft.scheduled = x
  <2>1. d = c
    BY <1>3, EnqueueIs
  <2> QED
    BY <1>3, <2>1 DEF SameButDraft, SameView, SameBatch, SameShown, SameActive
<1>4. CASE ~Plans!Invalid(x) /\ c.draft.scheduled # x
  <2> DEFINE t == [epoch |-> c.epoch, seq |-> c.draft.seq + 1]
             s == DraftWaits(c, x)
  <2>1. t \in Timers /\ t # None
    BY <1>1, PlanAssumption DEF Timers
  <2>2. s \in Sessions /\ s.timer = t /\ s.seq = c.draft.seq + 1 /\ s.state = "pending"
    BY <1>1, <2>1 DEF Sessions, DraftStates, DraftWaits
  <2>3. d = WithDraft(c, s)
    BY <1>4, EnqueueIs
  <2>4. t = [epoch |-> c.epoch, seq |-> s.seq]
    BY <2>2
  <2> HIDE DEF s, t
  <2>5. d \in Clients /\ d.draft = s /\ SameButDraft(c, d)
    BY <2>2, <2>3, WithDraftIs
  <2>6. DraftInv(d)
    BY <2>1, <2>2, <2>4, <2>5 DEF DraftInv, SameButDraft, SameView
  <2> QED
    BY <2>5, <2>6
<1> QED
  BY <1>2, <1>3, <1>4

LEMMA RescheduleKeeps ==
  ASSUME NEW c \in Clients, ~c.destroyed, c.draft.timer = None,
         c.draft.last # None => c.mode # "legacy" /\ c.scope # NoScope
  PROVE  LET d == Plans!RescheduleDrafts(c) IN d \in Clients /\ SameButDraft(c, d) /\ DraftInv(d)
<1> DEFINE d == Plans!RescheduleDrafts(c)
<1>1. CASE c.draft.last = None
  BY <1>1 DEF Plans!RescheduleDrafts, SameButDraft, SameView, SameBatch, SameShown, SameActive, DraftInv
<1>2. CASE c.draft.last # None
  <2> DEFINE s == [c.draft EXCEPT !.scheduled = None]
             b == WithDraft(c, s)
  <2>1. s \in Sessions /\ s.scheduled = None /\ c.draft.last \in PlanDrafts
    BY <1>2 DEF Clients, Sessions
  <2>2. d = Plans!EnqueueDraft(b, c.draft.last)
    BY <1>2 DEF Plans!RescheduleDrafts, WithDraft
  <2> HIDE DEF s
  <2>3. b \in Clients /\ b.draft = s /\ SameButDraft(c, b)
    BY <2>1, WithDraftIs
  <2> HIDE DEF b
  <2>4. ~b.destroyed /\ b.scope # NoScope /\ b.mode # "legacy" /\ b.draft.scheduled # c.draft.last
    BY <1>2, <2>1, <2>3 DEF SameButDraft, SameView
  <2>5. d \in Clients /\ SameButDraft(b, d) /\ DraftInv(d)
    BY <2>1, <2>2, <2>3, <2>4, EnqueueKeeps
  <2> QED
    BY <2>3, <2>5, SameTwice
<1> QED
  BY <1>1, <1>2

\* What the host says of its contract.
LEMMA SetModeKeeps ==
  ASSUME NEW c \in Clients, NEW m \in Plans!Modes, Core(c)
  PROVE  /\ Core(Plans!SetMode(c, m)) /\ (Pumped(c) => Pumped(Plans!SetMode(c, m)))
         /\ DraftInv(c) => DraftInv(Plans!SetMode(c, m))
         /\ ActiveInv(c) => ActiveInv(Plans!SetMode(c, m))
<1> DEFINE d == Plans!SetMode(c, m)
<1>1. /\ d.mode = m /\ SameView(c, d) /\ SameBatch(c, d) /\ SameActive(c, d)
      /\ d.context = c.context /\ d.cache = c.cache /\ d.saved = c.saved /\ d.calls = c.calls
      /\ m # "legacy" \/ c.mode = "legacy" => SameShown(c, d) /\ d.draft = c.draft
      /\ ~(m # "legacy" \/ c.mode = "legacy") =>
           DOMAIN d.results = {} /\ d.draft.last = None /\ d.draft.timer = None
  BY SetModeIs
<1> HIDE DEF d
<1>2. ChunkCalls(d) = ChunkCalls(c) /\ Mine(d) = Mine(c)
  BY <1>1 DEF SameView, SameBatch, ChunkCalls, Mine
<1>3. CallsFit(d)
  BY <1>1, <1>2 DEF Core, SameView, SameBatch, CallsFit
<1>4. BatchInv(d)
  BY <1>1, <1>2 DEF Core, SameView, SameBatch, BatchInv, UnderWay, AtRest
<1>5. ShownInv(d)
  BY <1>1 DEF Core, SameView, SameShown, ShownInv, AsOf
<1>6. KeptInv(d)
  BY <1>1 DEF Core, SameView, SameBatch, KeptInv
<1>7. (Pumped(c) => Pumped(d)) /\ (ActiveInv(c) => ActiveInv(d))
  BY <1>1, <1>2 DEF SameView, SameBatch, SameActive, Pumped, ActiveInv
<1>8. ASSUME DraftInv(c) PROVE DraftInv(d)
  <2>1. CASE m # "legacy" \/ c.mode = "legacy"
    <3>1. d.draft = c.draft /\ \A k : Plans!SameDraft(d, k) = Plans!SameDraft(c, k)
      BY <1>1, <2>1 DEF SameView, Plans!SameDraft, Plans!Current
    <3> QED
      BY <1>1, <1>8, <2>1, <3>1 DEF SameView, DraftInv
  <2>2. CASE ~(m # "legacy" \/ c.mode = "legacy")
    BY <1>1, <2>2 DEF DraftInv
  <2> QED
    BY <2>1, <2>2
<1> QED
  BY <1>3, <1>4, <1>5, <1>6, <1>7, <1>8 DEF Core, d

(* Batches. *)
LEMMA Divided ==
  ASSUME NEW a \in Nat, NEW b \in Nat \ {0}
  PROVE  LET q == a \div b IN q \in Nat /\ b * q <= a /\ a < b * q + b
BY SMTT(30)
LEMMA Times ==
  ASSUME NEW a \in Nat, NEW b \in Nat, NEW n \in Nat, a <= b
  PROVE  n * a \in Nat /\ n * a <= n * b
BY SMTT(30)
LEMMA Exact ==
  ASSUME NEW q \in Nat, NEW b \in Nat \ {0}
  PROVE  (b * q) \div b = q
BY SMTT(30)

\* The chunks of a list are not empty and share no Team.
LEMMA ChunksAre ==
  ASSUME NEW n \in Nat \ {0}
  PROVE  LET s == Plans!ChunksOf(n) IN s \in Seq(SUBSET Nat) /\ Len(s) > 0 /\ Distinct(s)
<1> DEFINE s == Plans!ChunksOf(n)
           a == n + ChunkSize - 1
           m == a \div ChunkSize
<1>1. a \in Nat /\ ChunkSize \in Nat \ {0}
  BY PlanAssumption
<1>2. m \in Nat /\ ChunkSize * m <= a /\ a < ChunkSize * m + ChunkSize
  BY <1>1, Divided
<1>3. m # 0
  BY <1>1, <1>2
<1>4. s = [i \in 1..m |-> {k \in 1..n : (k - 1) \div ChunkSize = i - 1}]
  BY DEF Plans!ChunksOf
<1>5. s \in Seq(SUBSET Nat) /\ Len(s) = m /\ DOMAIN s = 1..m
  BY <1>2, <1>4
<1>6. ASSUME NEW i \in 1..m, NEW j \in 1..m, s[i] = s[j] PROVE i = j
  <2> HIDE DEF m
  <2> DEFINE q == i - 1
             e == ChunkSize * q
  <2>1. q \in Nat /\ q <= m - 1 /\ m - 1 \in Nat
    BY <1>2, <1>3
  <2>2. e \in Nat /\ e <= ChunkSize * (m - 1)
    BY <1>1, <2>1, Times
  <2>3. ChunkSize * (m - 1) = ChunkSize * m - ChunkSize
    BY <1>1, <1>2, SMTT(30)
  <2>4. e \div ChunkSize = q
    BY <1>1, <2>1, Exact
  <2> HIDE DEF e, s
  <2>5. e + 1 \in 1..n /\ (e + 1) - 1 = e
    BY <1>1, <1>2, <2>2, <2>3, SMTT(30) DEF e
  <2>6. e + 1 \in s[i]
    BY <1>4, <2>4, <2>5
  <2>7. ((e + 1) - 1) \div ChunkSize = j - 1
    BY <1>4, <1>6, <2>6
  <2> QED
    BY <2>4, <2>5, <2>7
<1> QED
  BY <1>2, <1>3, <1>5, <1>6 DEF Distinct

\* As many elements as there are indices.
LEMMA CountTo ==
  ASSUME NEW n \in Nat
  PROVE  IsFiniteSet(1..n) /\ Cardinality(1..n) = n
<1>1. 1 \in Int /\ n \in Int
  OBVIOUS
<1>2. /\ IsFiniteSet(1..n)
      /\ Cardinality(1..n) = IF 1 > n THEN 0 ELSE n - 1 + 1
  BY <1>1, FS_Interval
<1> QED
  BY <1>2
LEMMA CountSent ==
  ASSUME NEW n \in Nat, NEW T, NEW g \in [1..n -> T], T = {g[i] : i \in 1..n},
         \A i, j \in 1..n : g[i] = g[j] => i = j
  PROVE  IsFiniteSet(T) /\ Cardinality(T) = n
<1>1. g \in Surjection(1..n, T)
  BY DEF Surjection
<1>2. g \in Injection(1..n, T)
  BY DEF Injection, IsInjective
<1> QED
  BY <1>1, <1>2, CountTo, FS_Surjection

LEMMA CallsCounted ==
  ASSUME NEW c, CallsFit(c)
  PROVE  /\ IsFiniteSet(ChunkCalls(c)) /\ Cardinality(ChunkCalls(c)) \in Nat
         /\ IsFiniteSet(Mine(c)) /\ Cardinality(Mine(c)) \in Nat
<1>1. ChunkCalls(c) \in SUBSET c.calls /\ Mine(c) \in SUBSET c.calls /\ IsFiniteSet(c.calls)
  BY DEF ChunkCalls, Mine, CallsFit
<1>2. IsFiniteSet(ChunkCalls(c)) /\ IsFiniteSet(Mine(c))
  BY <1>1, FS_Subset
<1> QED
  BY <1>2, FS_CardinalityType

LEMMA DisjointCounted ==
  ASSUME NEW S, NEW T, IsFiniteSet(S), IsFiniteSet(T), S \cap T = {}
  PROVE  IsFiniteSet(S \cup T) /\ Cardinality(S \cup T) = Cardinality(S) + Cardinality(T)
<1>1. Cardinality(S) \in Nat /\ Cardinality(T) \in Nat /\ Cardinality(S \cap T) = 0
  BY FS_CardinalityType, FS_EmptySet
<1>2. /\ IsFiniteSet(S \cup T)
      /\ Cardinality(S \cup T) = Cardinality(S) + Cardinality(T) - Cardinality(S \cap T)
  BY FS_Union
<1> QED
  BY <1>1, <1>2

\* What Pump leaves alone: all but the calls and the chunks to be sent.
SameRest(c, d) ==
  /\ SameView(c, d) /\ SameShown(c, d) /\ SameActive(c, d)
  /\ d.mode = c.mode /\ d.saved = c.saved /\ d.draft = c.draft
  /\ d.cacheKey = c.cacheKey /\ d.inFlightKey = c.inFlightKey
ChunkCall(c, i) == [kind |-> "chunk", epoch |-> c.epoch, number |-> c.batch, keys |-> c.chunks[i]]
RoomFor(c) == LET room == MaxConcurrent - Cardinality(ChunkCalls(c))
              IN IF room < Len(c.chunks) THEN room ELSE Len(c.chunks)
Sent(c, n) == {ChunkCall(c, i) : i \in 1..n}
LEMMA PumpChanges ==
  ASSUME NEW c \in Clients, CallsFit(c), ~c.destroyed
  PROVE  LET d == Plans!Pump(c)  n == RoomFor(c) IN
         /\ d \in Clients /\ SameRest(c, d)
         /\ d.batch = c.batch /\ d.total = c.total /\ d.done = c.done
         /\ d.calls = c.calls \cup Sent(c, n)
         /\ n \in Nat /\ n <= Len(c.chunks) /\ Cardinality(ChunkCalls(c)) + n <= MaxConcurrent
         /\ n = Len(c.chunks) \/ Cardinality(ChunkCalls(c)) + n = MaxConcurrent
         /\ Len(d.chunks) = Len(c.chunks) - n
         /\ \A i \in DOMAIN d.chunks : i + n \in DOMAIN c.chunks /\ d.chunks[i] = c.chunks[i + n]
<1> DEFINE n == RoomFor(c)
           sent == Sent(c, n)
           tail == SubSeq(c.chunks, n + 1, Len(c.chunks))
           next == [c EXCEPT !.calls = @ \cup sent, !.chunks = tail]
           more == Plans!Running(next) > 0 \/ next.chunks # <<>>
           d == Plans!Pump(c)
<1>1. /\ MaxConcurrent \in Nat /\ Cardinality(ChunkCalls(c)) \in Nat
      /\ Cardinality(ChunkCalls(c)) <= MaxConcurrent
      /\ c.chunks \in Seq(SUBSET Nat) /\ Len(c.chunks) \in Nat
  BY CallsCounted, PlanAssumption DEF CallsFit, Clients
<1>2. /\ n \in Nat /\ n <= Len(c.chunks) /\ Cardinality(ChunkCalls(c)) + n <= MaxConcurrent
      /\ n = Len(c.chunks) \/ Cardinality(ChunkCalls(c)) + n = MaxConcurrent
  BY <1>1 DEF RoomFor
<1>3. d = [next EXCEPT !.pending = more]
  BY RunningIs DEF Plans!Pump, RoomFor, Sent, ChunkCall
<1> HIDE DEF n
<1>4. sent \subseteq Plans!Call
  <2>1. ASSUME NEW i \in 1..n PROVE ChunkCall(c, i) \in Plans!Call
    <3>1. c.chunks[i] \in SUBSET Nat
      BY <1>1, <1>2
    <3> QED
      BY <3>1 DEF ChunkCall, Plans!Call, Clients
  <2> QED
    BY <2>1 DEF Sent
<1>5. /\ tail \in Seq(SUBSET Nat) /\ Len(tail) = Len(c.chunks) - n
      /\ \A i \in DOMAIN tail : i + n \in DOMAIN c.chunks /\ tail[i] = c.chunks[i + n]
  <2> HIDE DEF sent
  <2>1. tail = [i \in 1..(Len(c.chunks) - n) |-> c.chunks[i + n]]
    BY <1>1, <1>2
  <2>2. \A i \in 1..(Len(c.chunks) - n) : i + n \in DOMAIN c.chunks /\ c.chunks[i + n] \in SUBSET Nat
    BY <1>1, <1>2
  <2> HIDE DEF tail
  <2>3. Len(c.chunks) - n \in Nat
    BY <1>1, <1>2
  <2>4. tail \in Seq(SUBSET Nat) /\ Len(tail) = Len(c.chunks) - n /\ DOMAIN tail = 1..(Len(c.chunks) - n)
    BY <2>1, <2>2, <2>3
  <2> QED
    BY <2>1, <2>2, <2>4
<1> HIDE DEF sent, tail
<1>6. next \in Clients
  BY <1>4, <1>5 DEF Clients
<1> HIDE DEF more
<1>7. more \in BOOLEAN
  BY DEF more
<1>9. d.calls = c.calls \cup sent /\ d.chunks = tail
  BY <1>3 DEF Clients
<1>10. SameRest(c, d) /\ d.batch = c.batch /\ d.total = c.total /\ d.done = c.done
  BY <1>3 DEF Clients, SameRest, SameView, SameShown, SameActive
<1> HIDE DEF d, next
<1>8. d \in Clients
  BY ZenonT(60), <1>3, <1>6, <1>7 DEF Clients, d
<1> QED
  BY <1>2, <1>5, <1>8, <1>9, <1>10 DEF sent, d, n

LEMMA SentIs ==
  ASSUME NEW c \in Clients, CallsFit(c), BatchInv(c), ~c.destroyed,
         NEW n \in Nat, n <= Len(c.chunks)
  PROVE  /\ IsFiniteSet(Sent(c, n)) /\ Cardinality(Sent(c, n)) = n
         /\ \A k \in Sent(c, n) : /\ k.kind = "chunk" /\ k.epoch = c.epoch /\ k.number = c.batch
                                  /\ \E i \in 1..n : k.keys = c.chunks[i]
         /\ Sent(c, n) \cap ChunkCalls(c) = {} /\ (n # 0 => UnderWay(c))
<1> DEFINE g == [i \in 1..n |-> ChunkCall(c, i)]
<1>1. c.chunks \in Seq(SUBSET Nat) /\ Len(c.chunks) \in Nat /\ DOMAIN c.chunks = 1..Len(c.chunks)
  BY DEF Clients
<1>2. \A k \in Sent(c, n) : /\ k.kind = "chunk" /\ k.epoch = c.epoch /\ k.number = c.batch
                            /\ \E i \in 1..n : k.keys = c.chunks[i]
  BY DEF Sent, ChunkCall
<1>3. n # 0 => UnderWay(c)
  BY <1>1 DEF BatchInv, AtRest
<1>4. \A i, j \in 1..n : g[i] = g[j] => i = j
  <2> SUFFICES ASSUME NEW i \in 1..n, NEW j \in 1..n, g[i] = g[j] PROVE i = j
    OBVIOUS
  <2>1. g[i].keys = c.chunks[i] /\ g[j].keys = c.chunks[j]
    BY DEF ChunkCall
  <2>2. i \in DOMAIN c.chunks /\ j \in DOMAIN c.chunks /\ Distinct(c.chunks)
    BY <1>1, <1>3 DEF UnderWay
  <2> HIDE DEF g
  <2> QED
    BY <2>1, <2>2 DEF Distinct
<1>5. g \in [1..n -> Sent(c, n)] /\ Sent(c, n) = {g[i] : i \in 1..n}
  BY DEF Sent
<1> HIDE DEF g
<1>6. IsFiniteSet(Sent(c, n)) /\ Cardinality(Sent(c, n)) = n
  BY <1>4, <1>5, CountSent
<1>7. ASSUME NEW k \in Sent(c, n), k \in ChunkCalls(c) PROVE FALSE
  <2>1. PICK i \in 1..n : k.keys = c.chunks[i]
    BY <1>2
  <2>2. k \in Mine(c) /\ UnderWay(c) /\ i \in DOMAIN c.chunks
    BY <1>1, <1>2, <1>3, <1>7 DEF Mine
  <2> QED
    BY <2>1, <2>2 DEF UnderWay
<1> QED
  BY <1>2, <1>3, <1>6, <1>7

\* A draft that waits, waits on.
LEMMA DraftStays ==
  ASSUME NEW c, NEW d, DraftInv(c), SameView(c, d), d.draft = c.draft, d.mode = c.mode,
         \A k \in c.calls : k.kind = "draft" /\ Plans!SameDraft(c, k) => k \in d.calls
  PROVE  DraftInv(d)
<1>1. \A k : Plans!SameDraft(d, k) = Plans!SameDraft(c, k)
  BY DEF Plans!SameDraft, Plans!Current, SameView
<1> QED
  BY <1>1 DEF DraftInv, SameView

\* Pump keeps what the calls are for, and sends whatever may be sent.
LEMMA PumpKeeps ==
  ASSUME NEW c \in Clients, CallsFit(c), BatchInv(c), ~c.destroyed
  PROVE  LET d == Plans!Pump(c) IN
         /\ d \in Clients /\ SameRest(c, d) /\ c.calls \subseteq d.calls
         /\ \A k \in d.calls : k \notin c.calls => k.kind = "chunk"
         /\ CallsFit(d) /\ BatchInv(d) /\ Pumped(d)
<1> DEFINE d == Plans!Pump(c)
           n == RoomFor(c)
           sent == Sent(c, n)
<1>1. /\ d \in Clients /\ SameRest(c, d)
      /\ d.batch = c.batch /\ d.total = c.total /\ d.done = c.done
      /\ d.calls = c.calls \cup sent
      /\ n \in Nat /\ n <= Len(c.chunks) /\ Cardinality(ChunkCalls(c)) + n <= MaxConcurrent
      /\ n = Len(c.chunks) \/ Cardinality(ChunkCalls(c)) + n = MaxConcurrent
      /\ Len(d.chunks) = Len(c.chunks) - n
      /\ \A i \in DOMAIN d.chunks : i + n \in DOMAIN c.chunks /\ d.chunks[i] = c.chunks[i + n]
  BY PumpChanges
<1> HIDE DEF d, n
<1>2. /\ IsFiniteSet(sent) /\ Cardinality(sent) = n
      /\ \A k \in sent : /\ k.kind = "chunk" /\ k.epoch = c.epoch /\ k.number = c.batch
                         /\ \E i \in 1..n : k.keys = c.chunks[i]
      /\ sent \cap ChunkCalls(c) = {} /\ (n # 0 => UnderWay(c))
  BY <1>1, SentIs
<1> HIDE DEF sent
<1>3. /\ IsFiniteSet(ChunkCalls(c)) /\ Cardinality(ChunkCalls(c)) \in Nat
      /\ IsFiniteSet(Mine(c)) /\ Cardinality(Mine(c)) \in Nat
  BY CallsCounted
<1>4. ChunkCalls(d) = ChunkCalls(c) \cup sent /\ Mine(d) = Mine(c) \cup sent
  BY <1>1, <1>2 DEF ChunkCalls, Mine
<1>5. /\ Cardinality(ChunkCalls(d)) = Cardinality(ChunkCalls(c)) + n
      /\ Cardinality(Mine(d)) = Cardinality(Mine(c)) + n
  <2>1. sent \cap Mine(c) = {}
    BY <1>2 DEF Mine
  <2> QED
    BY <1>2, <1>3, <1>4, <2>1, DisjointCounted
<1>6. /\ c.chunks \in Seq(SUBSET Nat) /\ Len(c.chunks) \in Nat /\ DOMAIN c.chunks = 1..Len(c.chunks)
      /\ d.chunks \in Seq(SUBSET Nat) /\ Len(d.chunks) \in Nat /\ DOMAIN d.chunks = 1..Len(d.chunks)
      /\ c.epoch \in Nat /\ c.batch \in Nat
  BY <1>1 DEF Clients
<1>7. CallsFit(d)
  <2>1. IsFiniteSet(d.calls)
    <3>1. IsFiniteSet(c.calls)
      BY DEF CallsFit
    <3>2. IsFiniteSet(c.calls \cup sent)
      BY <1>2, <3>1, FS_Union
    <3> QED
      BY <1>1, <3>2
  <2>2. ASSUME NEW k \in d.calls
        PROVE  /\ k.epoch <= d.epoch /\ (d.destroyed => k.epoch < d.epoch)
               /\ k.kind = "chunk" => k.number <= d.batch
    BY <1>1, <1>2, <1>6, <2>2 DEF CallsFit, SameRest, SameView
  <2> QED
    BY <1>1, <1>5, <2>1, <2>2 DEF CallsFit
<1>8. BatchInv(d)
  <2>1. CASE c.inFlightKey = NoScope
    <3>1. c.chunks = <<>> /\ n = 0 /\ d.chunks = <<>> /\ AtRest(c)
      BY <1>1, <1>6, <2>1 DEF BatchInv, AtRest
    <3>2. sent = {} /\ Mine(d) = Mine(c)
      BY <1>2, <1>4, <3>1, FS_EmptySet
    <3> QED
      BY <1>1, <2>1, <3>1, <3>2 DEF BatchInv, AtRest, SameRest, SameView
  <2>2. CASE c.inFlightKey # NoScope
    <3>1. UnderWay(c)
      BY <2>2 DEF BatchInv
    <3>2. ASSUME NEW k \in Mine(d)
          PROVE  k.epoch = d.epoch /\ \A i \in DOMAIN d.chunks : d.chunks[i] # k.keys
      <4>1. CASE k \in Mine(c)
        BY <1>1, <3>1, <4>1 DEF UnderWay, SameRest, SameView
      <4>2. CASE k \in sent
        <5>1. k.epoch = d.epoch
          BY <1>1, <1>2, <4>2 DEF SameRest, SameView
        <5>2. PICK j \in 1..n : k.keys = c.chunks[j]
          BY <1>2, <4>2
        <5>3. ASSUME NEW i \in DOMAIN d.chunks PROVE d.chunks[i] # k.keys
          <6>1. i + n \in DOMAIN c.chunks /\ j \in DOMAIN c.chunks /\ i + n # j
            BY <1>1, <1>6
          <6>2. d.chunks[i] = c.chunks[i + n]
            BY <1>1
          <6>3. Distinct(c.chunks)
            BY <3>1 DEF UnderWay
          <6>4. c.chunks[i + n] # c.chunks[j]
            BY <6>1, <6>3 DEF Distinct
          <6> QED
            BY <5>2, <6>2, <6>4
        <5> QED
          BY <5>1, <5>3
      <4> QED
        BY <1>4, <4>1, <4>2
    <3>3. Distinct(d.chunks)
      <4> SUFFICES ASSUME NEW i \in DOMAIN d.chunks, NEW j \in DOMAIN d.chunks, d.chunks[i] = d.chunks[j]
                   PROVE  i = j
        BY DEF Distinct
      <4>1. i + n = j + n
        BY <1>1, <3>1 DEF UnderWay, Distinct
      <4> QED
        BY <1>1, <1>6, <4>1
    <3>4. d.done + Cardinality(Mine(d)) + Len(d.chunks) = d.total /\ d.done < d.total
      <4>1. c.done \in Nat /\ c.total \in Nat
        BY DEF Clients
      <4> QED
        BY <1>1, <1>3, <1>5, <1>6, <3>1, <4>1 DEF UnderWay
    <3> QED
      BY <1>1, <2>2, <3>1, <3>2, <3>3, <3>4 DEF BatchInv, UnderWay, SameRest, SameView
  <2> QED
    BY <2>1, <2>2
<1>9. Pumped(d)
  <2> SUFFICES ASSUME d.chunks # <<>> PROVE Cardinality(ChunkCalls(d)) = MaxConcurrent
    BY DEF Pumped
  <2>1. Len(d.chunks) # 0
    BY <1>6
  <2> QED
    BY <1>1, <1>5, <1>6, <2>1
<1> QED
  BY <1>1, <1>2, <1>7, <1>8, <1>9 DEF d

LEMMA RestKeeps ==
  ASSUME NEW c, NEW d, SameRest(c, d)
  PROVE  (ShownInv(c) => ShownInv(d)) /\ (KeptInv(c) => KeptInv(d)) /\ (ActiveInv(c) => ActiveInv(d))
BY DEF SameRest, SameView, SameShown, SameActive, ShownInv, KeptInv, ActiveInv

\* A list that is sent, taken from what is kept, or not sent at all.
SameSession(c, d) == SameView(c, d) /\ SameActive(c, d) /\ d.mode = c.mode /\ d.draft = c.draft
LEMMA SendSavedKeeps ==
  ASSUME NEW c \in Clients, NEW n \in Nat, ~c.destroyed,
         Core(c), Pumped(c)
  PROVE  LET d == Plans!SendSaved(c, n) IN
         /\ d \in Clients /\ SameSession(c, d) /\ c.calls \subseteq d.calls
         /\ Core(d) /\ Pumped(d)
<1> DEFINE s == Plans!ChunksOf(n)
           b == [c EXCEPT !.saved = n]
           cached == {e \in b.cache : e.key = b.scope /\ ~e.old}
           idle == b.destroyed \/ b.scope = NoScope \/ n = 0 \/ b.mode = "legacy"
           e0 == CHOOSE e \in cached : TRUE
           kept == [b EXCEPT !.results = e0.results, !.failed = {}, !.context = e0.context, !.error = FALSE]
           full == [b EXCEPT !.batch = @ + 1, !.results = <<>>, !.failed = {}, !.error = FALSE,
                             !.chunks = s, !.total = Len(s), !.done = 0,
                             !.cacheKey = b.scope, !.inFlightKey = b.scope]
           d == Plans!SendSaved(c, n)
<1>1. d = IF idle THEN b ELSE IF b.inFlightKey = b.scope THEN b ELSE IF cached # {} THEN kept ELSE Plans!Pump(full)
  BY Zenon DEF Plans!SendSaved
<1> HIDE DEF s
<1>2. /\ b \in Clients /\ b.saved = n /\ b.calls = c.calls
      /\ SameSession(c, b) /\ SameBatch(c, b) /\ SameShown(c, b)
  BY DEF Clients, SameSession, SameView, SameActive, SameBatch, SameShown
<1> HIDE DEF b
<1>3. ChunkCalls(b) = ChunkCalls(c) /\ Mine(b) = Mine(c)
  BY <1>2 DEF SameSession, SameView, SameBatch, ChunkCalls, Mine
<1>4. CallsFit(b) /\ BatchInv(b) /\ Pumped(b)
  <2>1. CallsFit(b)
    BY <1>2, <1>3 DEF Core, SameSession, SameView, SameBatch, CallsFit
  <2>2. BatchInv(b)
    BY <1>2, <1>3 DEF Core, SameSession, SameView, SameBatch, BatchInv, UnderWay, AtRest
  <2>3. Pumped(b)
    BY <1>2, <1>3 DEF SameBatch, Pumped
  <2> QED
    BY <2>1, <2>2, <2>3
<1>5. ShownInv(b) /\ KeptInv(b)
  BY <1>2 DEF Core, SameSession, SameView, SameBatch, SameShown, ShownInv, KeptInv
<1>6. CASE idle \/ b.inFlightKey = b.scope
  <2>1. d = b
    BY <1>1, <1>6
  <2> HIDE DEF d
  <2> QED
    BY <1>2, <1>4, <1>5, <2>1 DEF Core, d
<1>7. CASE ~idle /\ b.inFlightKey # b.scope /\ cached # {}
  <2>1. d = kept
    BY <1>1, <1>7
  <2>2. e0 \in b.cache /\ e0.key = b.scope /\ ~e0.old
    BY <1>7
  <2> HIDE DEF e0
  <2>3. e0.results \in PlanResults /\ e0.context \in Snapshots \cup {None}
    BY <1>2, <2>2 DEF Clients, KeptLists
  <2>4. e0.context = b.context /\ AsOf(e0.results, b.epoch)
    BY <1>5, <2>2 DEF ShownInv, KeptInv
  <2>5. kept \in Clients
    BY <1>2, <2>3 DEF Clients
  <2>6. /\ SameView(b, kept) /\ SameActive(b, kept) /\ SameBatch(b, kept)
        /\ kept.mode = b.mode /\ kept.draft = b.draft /\ kept.calls = b.calls /\ kept.saved = b.saved
        /\ kept.results = e0.results /\ kept.context = e0.context /\ kept.cache = b.cache
    BY <1>2 DEF Clients, SameView, SameActive, SameBatch
  <2> HIDE DEF kept, d
  <2>7. ChunkCalls(kept) = ChunkCalls(b) /\ Mine(kept) = Mine(b)
    BY <2>6 DEF SameView, SameBatch, ChunkCalls, Mine
  <2>8. CallsFit(kept)
    BY <1>4, <2>6, <2>7 DEF SameView, SameBatch, CallsFit
  <2>9. BatchInv(kept)
    BY <1>4, <2>6, <2>7 DEF SameView, SameBatch, BatchInv, UnderWay, AtRest
  <2>10. Pumped(kept)
    BY <1>4, <2>6, <2>7 DEF SameBatch, Pumped
  <2>11. ShownInv(kept) /\ KeptInv(kept)
    BY <1>5, <1>7, <2>4, <2>6 DEF SameView, SameBatch, ShownInv, KeptInv
  <2>12. SameSession(c, kept)
    BY <1>2, <2>6 DEF SameSession, SameView, SameActive
  <2> QED
    BY <1>2, <2>1, <2>5, <2>6, <2>8, <2>9, <2>10, <2>11, <2>12 DEF Core, d
<1>8. CASE ~idle /\ b.inFlightKey # b.scope /\ cached = {}
  <2>1. d = Plans!Pump(full)
    BY <1>1, <1>8
  <2>2. s \in Seq(SUBSET Nat) /\ Len(s) \in Nat \ {0} /\ Distinct(s)
    <3>1. n \in Nat \ {0}
      BY <1>8
    <3> QED
      BY <3>1, ChunksAre DEF s
  <2>3. \A e \in b.cache : e.key = b.scope => e.old
    BY <1>8
  <2> HIDE DEF cached, e0
  <2>4. full \in Clients
    <3>1. /\ b.batch + 1 \in Nat /\ b.scope \in Keys /\ <<>> \in PlanResults
          /\ {} \in SUBSET Nat /\ 0 \in Nat /\ Len(s) \in Nat /\ FALSE \in BOOLEAN
      BY <1>2, <2>2, EmptyPlans DEF Clients
    <3> DEFINE f == [b EXCEPT !.batch = @ + 1, !.results = <<>>, !.failed = {}, !.error = FALSE]
    <3>2. f \in Clients
      BY <1>2, <3>1 DEF Clients
    <3>3. full = [f EXCEPT !.chunks = s, !.total = Len(s), !.done = 0,
                           !.cacheKey = b.scope, !.inFlightKey = b.scope]
      OBVIOUS
    <3> HIDE DEF f, full
    <3> QED
      BY <2>2, <3>1, <3>2, <3>3 DEF Clients
  <2>5. /\ SameView(b, full) /\ SameActive(b, full)
        /\ full.mode = b.mode /\ full.draft = b.draft /\ full.calls = b.calls /\ full.saved = b.saved
        /\ full.results = <<>> /\ full.context = b.context /\ full.cache = b.cache
        /\ full.batch = b.batch + 1 /\ full.chunks = s /\ full.total = Len(s) /\ full.done = 0
        /\ full.cacheKey = b.scope /\ full.inFlightKey = b.scope
    BY <1>2 DEF Clients, SameView, SameActive
  <2>6. ~b.destroyed /\ b.scope # NoScope /\ b.mode # "legacy"
    BY <1>8
  <2> HIDE DEF full, d
  <2>7. ChunkCalls(full) = ChunkCalls(b)
    BY <2>5 DEF ChunkCalls
  <2>8. CallsFit(full) /\ Mine(full) = {}
    <3>1. b.batch \in Nat /\ \A k \in b.calls : k.number \in Nat
      BY <1>2 DEF Clients, Plans!Call
    <3>2. \A k \in ChunkCalls(b) : k.number <= b.batch
      BY <1>4 DEF CallsFit, ChunkCalls
    <3>3. CallsFit(full)
      BY <1>4, <2>5, <2>7, <3>1 DEF CallsFit, SameView
    <3>4. Mine(full) = {}
      BY <2>5, <2>7, <3>1, <3>2 DEF Mine, ChunkCalls
    <3> QED
      BY <3>3, <3>4
  <2>9. BatchInv(full)
    <3>1. Cardinality(Mine(full)) = 0
      BY <2>8, FS_EmptySet
    <3> QED
      BY <2>2, <2>5, <2>6, <2>8, <3>1 DEF BatchInv, UnderWay, SameView
  <2>10. ShownInv(full)
    BY <1>5, <2>5, EmptyPlans DEF ShownInv, SameView, AsOf
  <2>11. KeptInv(full)
    BY <2>5, <2>3 DEF KeptInv, SameView
  <2>12. /\ d \in Clients /\ SameRest(full, d) /\ full.calls \subseteq d.calls
         /\ \A k \in d.calls : k \notin full.calls => k.kind = "chunk"
         /\ CallsFit(d) /\ BatchInv(d) /\ Pumped(d)
    BY <2>1, <2>4, <2>5, <2>6, <2>8, <2>9, PumpKeeps DEF SameView
  <2>13. Core(d)
    BY <2>10, <2>11, <2>12, RestKeeps DEF Core
  <2>14. SameSession(c, d)
    BY <1>2, <2>5, <2>12 DEF SameSession, SameRest, SameView, SameActive
  <2> QED
    BY <1>2, <2>5, <2>12, <2>13, <2>14 DEF d
<1> QED
  BY <1>6, <1>7, <1>8

(* What the hooks call. *)
\* A client that has dropped what it showed, kept and asked for.
FreshClient(c) ==
  /\ c \in Clients /\ CallsFit(c) /\ \A k \in c.calls : k.epoch < c.epoch
  /\ c.chunks = <<>> /\ c.inFlightKey = NoScope /\ DOMAIN c.results = {} /\ c.cache = {}
LEMMA FreshKeeps ==
  ASSUME NEW c, FreshClient(c)
  PROVE  Core(c) /\ Pumped(c)
<1>1. \A k \in Mine(c) : k \in c.calls
  BY DEF Mine, ChunkCalls
<1>2. BatchInv(c) /\ Pumped(c)
  BY <1>1 DEF FreshClient, BatchInv, AtRest, Pumped
<1>3. ShownInv(c) /\ KeptInv(c)
  BY DEF FreshClient, ShownInv, KeptInv, AsOf
<1> QED
  BY <1>2, <1>3 DEF FreshClient, Core
LEMMA DroppedIsFresh ==
  ASSUME NEW c \in Clients, CallsFit(c)
  PROVE  FreshClient(Plans!Dropped(c))
<1> DEFINE d == Plans!Dropped(c)
<1>1. /\ d \in Clients /\ d.epoch = c.epoch + 1 /\ DOMAIN d.results = {} /\ d.cache = {}
      /\ d.chunks = <<>> /\ d.inFlightKey = NoScope
      /\ d.batch = c.batch /\ d.calls = c.calls /\ d.destroyed = c.destroyed
  BY DroppedIs
<1> HIDE DEF d
<1>2. c.epoch \in Nat /\ \A k \in c.calls : k.epoch \in Nat
  BY DEF Clients, Plans!Call
<1>3. ChunkCalls(d) = ChunkCalls(c)
  BY <1>1 DEF ChunkCalls
<1>4. \A k \in c.calls : k.epoch < c.epoch + 1 /\ k.epoch <= c.epoch + 1
  BY <1>2 DEF CallsFit
<1>5. CallsFit(d)
  BY <1>1, <1>3, <1>4 DEF CallsFit
<1> QED
  BY <1>1, <1>4, <1>5 DEF FreshClient, d

\* Other values of what FreshClient does not speak of.
LEMMA StillFresh ==
  ASSUME NEW c, FreshClient(c), NEW d \in Clients, d.epoch = c.epoch, d.destroyed = c.destroyed,
         d.batch = c.batch, d.chunks = c.chunks, d.inFlightKey = c.inFlightKey,
         d.results = c.results, d.cache = c.cache, d.calls = c.calls
  PROVE  FreshClient(d)
<1>1. ChunkCalls(d) = ChunkCalls(c)
  BY DEF ChunkCalls
<1>2. CallsFit(d)
  BY <1>1 DEF FreshClient, CallsFit
<1> QED
  BY <1>2 DEF FreshClient

LEMMA DraftsDroppedIs ==
  ASSUME NEW c \in Clients
  PROVE  LET d == Plans!DraftsDropped(c) IN
         /\ d \in Clients /\ SameButDraft(c, d) /\ d.draft.timer = None /\ d.draft.last = c.draft.last
<1>1. CASE Plans!InUse(c.draft)
  <2> DEFINE s == Plans!SessionReset(c.draft)
  <2>1. s \in Sessions /\ s.timer = None /\ s.last = c.draft.last
    BY SessionsAre DEF Clients
  <2>2. Plans!DraftsDropped(c) = WithDraft(c, s)
    BY <1>1 DEF Plans!DraftsDropped, WithDraft
  <2> HIDE DEF s
  <2> QED
    BY <2>1, <2>2, WithDraftIs
<1>2. CASE ~Plans!InUse(c.draft)
  BY <1>2 DEF Plans!DraftsDropped, Plans!InUse, SameButDraft, SameView, SameBatch, SameShown, SameActive
<1> QED
  BY <1>1, <1>2

LEMMA SessionKeeps ==
  ASSUME NEW c, NEW d, SameSession(c, d), c.calls \subseteq d.calls
  PROVE  (DraftInv(c) => DraftInv(d)) /\ (ActiveInv(c) => ActiveInv(d))
<1>1. ActiveInv(c) => ActiveInv(d)
  BY DEF SameSession, SameView, SameActive, ActiveInv
<1>2. DraftInv(c) => DraftInv(d)
  BY DraftStays DEF SameSession
<1> QED
  BY <1>1, <1>2

LEMMA SendProbeKeeps ==
  ASSUME NEW c \in Clients, Core(c), Pumped(c)
  PROVE  LET d == Plans!SendProbe(c) IN
         /\ d \in Clients /\ SameSession(c, d) /\ c.calls \subseteq d.calls
         /\ Core(d) /\ Pumped(d)
<1> DEFINE k == [kind |-> "probe", epoch |-> c.epoch, number |-> 0, keys |-> {}]
           d == Plans!SendProbe(c)
<1>1. CASE c.destroyed \/ c.scope = NoScope \/ c.probed = c.scope
  BY <1>1 DEF Plans!SendProbe, SameSession, SameView, SameActive
<1>2. CASE ~(c.destroyed \/ c.scope = NoScope \/ c.probed = c.scope)
  <2>1. d = [c EXCEPT !.probed = c.scope, !.probing = TRUE, !.calls = @ \cup {k}]
    BY <1>2 DEF Plans!SendProbe
  <2>2. k \in Plans!Call /\ k.kind # "chunk" /\ k.epoch = c.epoch
    BY DEF Plans!Call, Clients
  <2> HIDE DEF k
  <2>3. d \in Clients
    <3>1. c.scope \in Keys /\ c.calls \cup {k} \in SUBSET Plans!Call
      BY <2>2 DEF Clients
    <3> QED
      BY ZenonT(60), <2>1, <3>1 DEF Clients
  <2>4. /\ SameRest(c, d) /\ SameBatch(c, d) /\ d.calls = c.calls \cup {k}
    BY <2>1 DEF Clients, SameRest, SameView, SameShown, SameActive, SameBatch
  <2> HIDE DEF d
  <2>5. ChunkCalls(d) = ChunkCalls(c) /\ Mine(d) = Mine(c)
    BY <2>2, <2>4 DEF ChunkCalls, Mine, SameBatch
  <2>6. CallsFit(d)
    <3>1. IsFiniteSet(c.calls)
      BY DEF Core, CallsFit
    <3>2. IsFiniteSet(c.calls \cup {k})
      BY <3>1, FS_AddElement
    <3>3. c.epoch \in Nat
      BY DEF Clients
    <3> QED
      BY <1>2, <2>2, <2>4, <2>5, <3>2, <3>3 DEF Core, CallsFit, SameRest, SameView, SameBatch
  <2>7. BatchInv(d) /\ Pumped(d)
    BY <2>4, <2>5 DEF Core, SameRest, SameView, SameBatch, BatchInv, UnderWay, AtRest, Pumped
  <2>8. ShownInv(d)
    BY <2>4 DEF Core, SameRest, SameView, SameShown, ShownInv
  <2>9. KeptInv(d)
    BY <2>4 DEF Core, SameRest, SameView, SameShown, KeptInv
  <2> QED
    BY <2>3, <2>4, <2>6, <2>7, <2>8, <2>9 DEF Core, SameSession, SameRest, d
<1> QED
  BY <1>1, <1>2

LEMMA ReloadKeeps ==
  ASSUME NEW c \in Clients, CallsFit(c), DraftInv(c), ~c.destroyed, NEW r \in BOOLEAN
  PROVE  LET d == Plans!Reload(c, r) IN
         /\ d \in Clients /\ Core(d) /\ Pumped(d) /\ DraftInv(d)
         /\ d.scope = c.scope /\ d.active = c.active /\ d.timer = c.timer /\ ~d.destroyed
<1> DEFINE e == Plans!Dropped(c)
           c1 == [e EXCEPT !.cacheKey = NoScope, !.mode = IF r THEN "unknown" ELSE @]
           c2 == Plans!DraftsDropped(c1)
           c3 == CASE c2.saved > 0 -> Plans!SendSaved(c2, c2.saved)
                   [] c2.saved = 0 /\ c2.mode = "unknown" -> Plans!SendProbe(c2)
                   [] OTHER -> c2
           d == Plans!Reload(c, r)
<1>1. d = Plans!RescheduleDrafts(c3)
  BY Zenon DEF Plans!Reload
<1>2. /\ FreshClient(e) /\ e \in Clients /\ e.scope = c.scope /\ e.mode = c.mode
      /\ e.saved = c.saved /\ e.active = c.active /\ e.timer = c.timer
      /\ e.draft = c.draft /\ ~e.destroyed
  BY DroppedIsFresh, DroppedIs DEF SameActive
<1> HIDE DEF e, d
<1>3. c1 \in Clients
  <2> DEFINE m == IF r THEN "unknown" ELSE e.mode
  <2>1. NoScope \in Keys /\ m \in Plans!Modes
    BY <1>2 DEF Clients, Keys, Plans!Modes
  <2>2. c1 = [e EXCEPT !.cacheKey = NoScope, !.mode = m]
    OBVIOUS
  <2> HIDE DEF c1, m
  <2> QED
    BY <1>2, <2>1, <2>2 DEF Clients
<1>4. /\ c1.epoch = e.epoch /\ c1.destroyed = e.destroyed
      /\ c1.batch = e.batch /\ c1.chunks = e.chunks /\ c1.inFlightKey = e.inFlightKey
      /\ c1.results = e.results /\ c1.cache = e.cache /\ c1.calls = e.calls
      /\ c1.scope = c.scope /\ c1.saved = c.saved /\ c1.active = c.active /\ c1.timer = c.timer
      /\ c1.draft = c.draft
  BY <1>2 DEF Clients
<1>5. c1.mode = IF r THEN "unknown" ELSE c.mode
  BY <1>2 DEF Clients
<1> HIDE DEF c1
<1>6. FreshClient(c1)
  BY <1>2, <1>3, <1>4, StillFresh
<1>7. /\ c2 \in Clients /\ SameButDraft(c1, c2) /\ c2.draft.timer = None
      /\ c2.draft.last = c1.draft.last
  BY <1>3, DraftsDroppedIs
<1> HIDE DEF c2
<1>8. FreshClient(c2)
  BY <1>6, <1>7, StillFresh DEF SameButDraft, SameView, SameBatch, SameShown
<1>9. Core(c2) /\ Pumped(c2) /\ ~c2.destroyed /\ c2.saved \in Nat
  BY <1>2, <1>4, <1>7, <1>8, FreshKeeps DEF FreshClient, SameButDraft, SameView, Clients
<1>10. /\ c3 \in Clients /\ SameSession(c2, c3) /\ Core(c3) /\ Pumped(c3)
  <2>1. CASE c2.saved > 0
    <3>1. c3 = Plans!SendSaved(c2, c2.saved)
      BY <2>1
    <3> QED
      BY <1>7, <1>9, <3>1, SendSavedKeeps
  <2>2. CASE c2.saved = 0 /\ c2.mode = "unknown"
    <3>1. c3 = Plans!SendProbe(c2)
      BY <2>2
    <3> QED
      BY <1>7, <1>9, <3>1, SendProbeKeeps
  <2>3. CASE c2.saved = 0 /\ c2.mode # "unknown"
    <3>1. c3 = c2
      BY <2>3
    <3> QED
      BY <1>7, <1>9, <3>1 DEF SameSession, SameView, SameActive
  <2> QED
    BY <1>9, <2>1, <2>2, <2>3
<1> HIDE DEF c3
<1>11. ~c3.destroyed /\ c3.draft.timer = None
  BY <1>7, <1>9, <1>10 DEF SameSession, SameView
<1>12. c3.draft.last # None => c3.mode # "legacy" /\ c3.scope # NoScope
  <2>1. c3.draft.last = c.draft.last /\ c3.mode = c1.mode /\ c3.scope = c.scope
    BY <1>4, <1>7, <1>10 DEF SameSession, SameView, SameButDraft
  <2> QED
    BY <1>5, <2>1 DEF DraftInv
<1>13. d \in Clients /\ SameButDraft(c3, d) /\ DraftInv(d)
  BY <1>1, <1>10, <1>11, <1>12, RescheduleKeeps
<1>14. Core(d) /\ Pumped(d)
  BY <1>10, <1>13, CoreStays
<1>15. d.scope = c.scope /\ d.active = c.active /\ d.timer = c.timer /\ ~d.destroyed
  BY <1>4, <1>7, <1>10, <1>11, <1>13 DEF SameButDraft, SameView, SameActive, SameSession
<1> QED
  BY <1>13, <1>14, <1>15 DEF d

LEMMA InvIs ==
  \A c : ClientInv(c) <=> c \in Clients /\ Core(c) /\ Pumped(c) /\ DraftInv(c) /\ ActiveInv(c)
BY DEF ClientInv, Core

\* Other values of what the page and the clock are about.
SameButActive(c, d) ==
  /\ SameView(c, d) /\ SameBatch(c, d)
  /\ d.results = c.results /\ d.context = c.context /\ d.cache = c.cache
  /\ d.mode = c.mode /\ d.saved = c.saved /\ d.draft = c.draft /\ d.calls = c.calls
LEMMA ActiveStays ==
  ASSUME NEW c, NEW d, SameButActive(c, d)
  PROVE  /\ Core(c) => Core(d)
         /\ Pumped(c) => Pumped(d)
         /\ DraftInv(c) => DraftInv(d)
<1>1. ChunkCalls(d) = ChunkCalls(c) /\ Mine(d) = Mine(c)
  BY DEF SameButActive, SameView, SameBatch, ChunkCalls, Mine
<1>2. CallsFit(c) => CallsFit(d)
  BY <1>1 DEF SameButActive, SameView, SameBatch, CallsFit
<1>3. BatchInv(c) => BatchInv(d)
  BY <1>1 DEF SameButActive, SameView, SameBatch, BatchInv, UnderWay, AtRest
<1>4. ShownInv(c) => ShownInv(d)
  BY DEF SameButActive, SameView, ShownInv
<1>5. KeptInv(c) => KeptInv(d)
  BY DEF SameButActive, SameView, SameBatch, KeptInv
<1>6. Pumped(c) => Pumped(d)
  BY <1>1 DEF SameButActive, SameBatch, Pumped
<1>7. DraftInv(c) => DraftInv(d)
  BY DraftStays DEF SameButActive
<1> QED
  BY <1>2, <1>3, <1>4, <1>5, <1>6, <1>7 DEF Core

LEMMA ScheduleKeeps ==
  ASSUME NEW c \in Clients, Core(c), Pumped(c), DraftInv(c), ~c.destroyed, c.scope # NoScope
  PROVE  LET d == Plans!ScheduleRefresh(c) IN
         ClientInv(d) /\ SameButActive(c, d) /\ d.active = c.active /\ d.refreshed = c.refreshed
<1> DEFINE d == Plans!ScheduleRefresh(c)
           t == c.active /\ ~c.destroyed
<1>1. d = [c EXCEPT !.timer = t]
  BY DEF Plans!ScheduleRefresh
<1>2. t \in BOOLEAN /\ t = c.active
  BY DEF Clients
<1> HIDE DEF t
<1>3. d \in Clients /\ d.timer = t /\ d.active = c.active /\ d.refreshed = c.refreshed
  BY <1>1, <1>2 DEF Clients
<1>4. SameButActive(c, d)
  BY <1>1 DEF Clients, SameButActive, SameView, SameBatch
<1> HIDE DEF d
<1>5. ActiveInv(d)
  BY <1>2, <1>3, <1>4 DEF ActiveInv, SameButActive, SameView
<1> QED
  BY <1>3, <1>4, <1>5, ActiveStays, InvIs DEF d

LEMMA RefreshKeeps ==
  ASSUME NEW c \in Clients, CallsFit(c), DraftInv(c), ~c.destroyed, c.scope # NoScope,
         NEW r \in BOOLEAN
  PROVE  LET d == Plans!Refresh(c, r) IN ClientInv(d) /\ d.scope = c.scope /\ ~d.destroyed
<1> DEFINE e == Plans!Reload(c, r)
<1>1. /\ e \in Clients /\ Core(e) /\ Pumped(e) /\ DraftInv(e)
      /\ e.scope = c.scope /\ ~e.destroyed
  BY ReloadKeeps
<1>2. Plans!Refresh(c, r) = Plans!ScheduleRefresh(e)
  BY DEF Plans!Refresh
<1> HIDE DEF e
<1> QED
  BY <1>1, <1>2, ScheduleKeeps DEF SameButActive, SameView

LEMMA RefreshIfStaleKeeps ==
  ASSUME NEW c, ClientInv(c), ~c.destroyed, c.scope # NoScope
  PROVE  LET d == Plans!RefreshIfStale(c) IN ClientInv(d) /\ d.scope = c.scope
BY RefreshKeeps DEF Plans!RefreshIfStale, ClientInv

LEMMA SetActiveKeeps ==
  ASSUME NEW c, ClientInv(c), ~c.destroyed, c.scope # NoScope, NEW a \in BOOLEAN
  PROVE  LET d == Plans!SetActive(c, a) IN
         ClientInv(d) /\ d.scope = c.scope /\ ~d.destroyed
<1> DEFINE d == Plans!SetActive(c, a)
<1>1. c \in Clients /\ Core(c) /\ Pumped(c) /\ DraftInv(c) /\ c.active \in BOOLEAN
  BY InvIs DEF Clients
<1>2. CASE c.active = a
  BY <1>2 DEF Plans!SetActive
<1>3. CASE c.active # a /\ a
  <2> DEFINE b == [c EXCEPT !.active = TRUE]
             e == IF c.refreshed = "stale" THEN Plans!Reload(b, FALSE) ELSE b
  <2>1. d = Plans!ScheduleRefresh(e)
    BY <1>3 DEF Plans!SetActive
  <2>2. b \in Clients
    BY <1>1 DEF Clients
  <2>3. SameButActive(c, b)
    BY <1>1 DEF Clients, SameButActive, SameView, SameBatch
  <2> HIDE DEF b
  <2>4. Core(b) /\ Pumped(b) /\ DraftInv(b) /\ ~b.destroyed /\ b.scope = c.scope
    BY <1>1, <2>3, ActiveStays DEF SameButActive, SameView
  <2>5. e \in Clients /\ Core(e) /\ Pumped(e) /\ DraftInv(e) /\ ~e.destroyed /\ e.scope = c.scope
    <3>1. CASE c.refreshed = "stale"
      <4>1. e = Plans!Reload(b, FALSE)
        BY <3>1
      <4> QED
        BY <2>2, <2>4, <4>1, ReloadKeeps DEF Core
    <3>2. CASE c.refreshed # "stale"
      BY <2>2, <2>4, <3>2
    <3> QED
      BY <3>1, <3>2
  <2> HIDE DEF e
  <2> QED
    BY <2>1, <2>5, ScheduleKeeps DEF SameButActive, SameView
<1>4. CASE c.active # a /\ ~a
  <2>1. d = [c EXCEPT !.active = FALSE, !.timer = FALSE]
    BY <1>4 DEF Plans!SetActive
  <2>2. d \in Clients /\ d.active = FALSE /\ d.timer = FALSE
    BY ZenonT(60), <1>1, <2>1 DEF Clients
  <2>3. SameButActive(c, d)
    BY <1>1, <2>1 DEF Clients, SameButActive, SameView, SameBatch
  <2> HIDE DEF d
  <2>4. ActiveInv(d)
    BY <2>2 DEF ActiveInv
  <2> QED
    BY <1>1, <2>2, <2>3, <2>4, ActiveStays, InvIs DEF SameButActive, SameView, d
<1> QED
  BY <1>1, <1>2, <1>3, <1>4

\* Another scope: the host's word is forgotten with the host.
LEMMA CancelDraftIs ==
  ASSUME NEW c \in Clients
  PROVE  LET d == Plans!CancelDraft(c) IN
         /\ d \in Clients /\ SameButDraft(c, d) /\ d.draft.timer = None /\ d.draft.last = None
<1> DEFINE s == Plans!DraftHidden(c.draft)
<1>1. s \in Sessions /\ s.timer = None /\ s.last = None
  BY SessionsAre DEF Clients
<1>2. Plans!CancelDraft(c) = WithDraft(c, s)
  BY DEF Plans!CancelDraft, WithDraft
<1> HIDE DEF s
<1> QED
  BY <1>1, <1>2, WithDraftIs

LEMMA SetScopeIs ==
  ASSUME NEW c, ClientInv(c), ~c.destroyed, NEW s \in Scopes, s # c.scope
  PROVE  LET d == Plans!SetScope(c, s) IN
         /\ FreshClient(d) /\ DraftInv(d) /\ d.scope = s /\ ~d.destroyed
         /\ d.active = c.active /\ d.timer = c.timer /\ d.refreshed = "never"
<1> DEFINE e == Plans!Dropped(c)
           c1 == [e EXCEPT !.scope = s, !.refreshed = "never"]
           c2 == [c1 EXCEPT !.mode = "unknown", !.saved = 0]
           d == Plans!SetScope(c, s)
<1>1. c \in Clients /\ Core(c) /\ DraftInv(c)
  BY InvIs
<1>2. d = IF c.scope # NoScope /\ c.scope.host # s.host THEN Plans!CancelDraft(c2)
          ELSE Plans!RescheduleDrafts(Plans!DraftsDropped(c1))
  BY Zenon DEF Plans!SetScope
<1>3. /\ FreshClient(e) /\ e \in Clients /\ e.mode = c.mode /\ SameActive(c, e)
      /\ e.draft = c.draft /\ ~e.destroyed
  BY <1>1, DroppedIsFresh, DroppedIs DEF Core
<1> HIDE DEF e, d
<1>4. c1 \in Clients /\ c1.scope = s /\ c1.refreshed = "never"
  BY <1>3 DEF Clients, Keys
<1>5. /\ c1.epoch = e.epoch /\ c1.destroyed = e.destroyed
      /\ c1.batch = e.batch /\ c1.chunks = e.chunks /\ c1.inFlightKey = e.inFlightKey
      /\ c1.results = e.results /\ c1.cache = e.cache /\ c1.calls = e.calls
      /\ c1.active = c.active /\ c1.timer = c.timer
      /\ c1.draft = c.draft /\ c1.mode = c.mode
  BY <1>3 DEF Clients, SameActive
<1> HIDE DEF c1
<1>6. FreshClient(c1) /\ ~c1.destroyed
  BY <1>3, <1>4, <1>5, StillFresh
<1>7. CASE c.scope # NoScope /\ c.scope.host # s.host
  <2>1. c2 \in Clients
    BY <1>4 DEF Clients, Plans!Modes
  <2>2. /\ c2.epoch = c1.epoch /\ c2.destroyed = c1.destroyed
        /\ c2.batch = c1.batch /\ c2.chunks = c1.chunks /\ c2.inFlightKey = c1.inFlightKey
        /\ c2.results = c1.results /\ c2.cache = c1.cache /\ c2.calls = c1.calls
        /\ c2.active = c1.active /\ c2.timer = c1.timer
        /\ c2.scope = c1.scope /\ c2.refreshed = c1.refreshed
    BY <1>4 DEF Clients
  <2> HIDE DEF c2
  <2>3. d \in Clients /\ SameButDraft(c2, d) /\ d.draft.timer = None /\ d.draft.last = None
    BY <1>2, <1>7, <2>1, CancelDraftIs
  <2>4. FreshClient(d)
    BY <1>6, <2>2, <2>3, StillFresh DEF SameButDraft, SameView, SameBatch, SameShown
  <2>5. DraftInv(d)
    BY <2>3 DEF DraftInv
  <2> QED
    BY <1>4, <1>5, <1>6, <2>2, <2>3, <2>4, <2>5 DEF SameButDraft, SameView, SameActive, d
<1>8. CASE ~(c.scope # NoScope /\ c.scope.host # s.host)
  <2> DEFINE b == Plans!DraftsDropped(c1)
  <2>1. d = Plans!RescheduleDrafts(b)
    BY <1>2, <1>8
  <2>2. b \in Clients /\ SameButDraft(c1, b) /\ b.draft.timer = None /\ b.draft.last = c1.draft.last
    BY <1>4, DraftsDroppedIs
  <2> HIDE DEF b
  <2>3. ~b.destroyed /\ (b.draft.last # None => b.mode # "legacy" /\ b.scope # NoScope)
    BY <1>1, <1>4, <1>5, <1>6, <2>2, PlanAssumption DEF SameButDraft, SameView, DraftInv
  <2>4. d \in Clients /\ SameButDraft(b, d) /\ DraftInv(d)
    BY <2>1, <2>2, <2>3, RescheduleKeeps
  <2>5. SameButDraft(c1, d)
    BY <2>2, <2>4, SameTwice
  <2>6. FreshClient(d)
    BY <1>6, <2>4, <2>5, StillFresh DEF SameButDraft, SameView, SameBatch, SameShown
  <2> QED
    BY <1>4, <1>5, <1>6, <2>4, <2>5, <2>6 DEF SameButDraft, SameView, SameActive, d
<1> QED
  BY <1>7, <1>8

(* Answers. *)
\* A call that is no longer on its way.
Gone(c, call) == [c EXCEPT !.calls = @ \ {call}]
LEMMA GoneIs ==
  ASSUME NEW c \in Clients, NEW call \in c.calls
  PROVE  LET d == Gone(c, call) IN
         /\ d \in Clients /\ SameRest(c, d) /\ SameBatch(c, d) /\ d.calls = c.calls \ {call}
         /\ d.error = c.error
<1> DEFINE d == Gone(c, call)
<1>1. d \in Clients
  BY DEF Clients, Gone
<1>2. SameRest(c, d) /\ SameBatch(c, d) /\ d.calls = c.calls \ {call} /\ d.error = c.error
  BY DEF Clients, Gone, SameRest, SameView, SameShown, SameActive, SameBatch
<1> QED
  BY <1>1, <1>2

LEMMA GoneFits ==
  ASSUME NEW c, NEW d, NEW call \in c.calls, SameRest(c, d), SameBatch(c, d),
         d.calls = c.calls \ {call}, CallsFit(c)
  PROVE  CallsFit(d) /\ ChunkCalls(d) = ChunkCalls(c) \ {call} /\ Mine(d) = Mine(c) \ {call}
<1>1. ChunkCalls(d) = ChunkCalls(c) \ {call} /\ Mine(d) = Mine(c) \ {call}
  BY DEF ChunkCalls, Mine, SameBatch
<1>2. IsFiniteSet(c.calls) /\ IsFiniteSet(ChunkCalls(c)) /\ Cardinality(ChunkCalls(c)) \in Nat
  BY CallsCounted DEF CallsFit
<1>3. IsFiniteSet(d.calls)
  BY <1>2, FS_RemoveElement
<1>4. /\ Cardinality(ChunkCalls(d)) \in Nat
      /\ Cardinality(ChunkCalls(d)) <= Cardinality(ChunkCalls(c))
  <2>1. ChunkCalls(d) \in SUBSET ChunkCalls(c)
    BY <1>1
  <2> QED
    BY <1>2, <2>1, FS_Subset, FS_CardinalityType
<1>5. Cardinality(ChunkCalls(d)) <= MaxConcurrent
  BY <1>2, <1>4, PlanAssumption DEF CallsFit
<1> QED
  BY <1>1, <1>3, <1>5 DEF CallsFit, SameRest, SameView, SameBatch

\* The answer to a call that the list does not wait for.
LEMMA StrayGone ==
  ASSUME NEW c \in Clients, NEW call \in c.calls, Core(c),
         call \notin Mine(c) \/ c.inFlightKey = NoScope
  PROVE  LET d == Gone(c, call) IN
         /\ Core(d) /\ (ActiveInv(c) => ActiveInv(d))
         /\ call.kind # "chunk" \/ c.chunks = <<>> => (Pumped(c) => Pumped(d))
         /\ call.kind # "draft" \/ ~Plans!SameDraft(c, call) => (DraftInv(c) => DraftInv(d))
<1> DEFINE d == Gone(c, call)
<1>1. SameRest(c, d) /\ SameBatch(c, d) /\ d.calls = c.calls \ {call}
  BY GoneIs
<1> HIDE DEF d
<1>2. CallsFit(d) /\ ChunkCalls(d) = ChunkCalls(c) \ {call} /\ Mine(d) = Mine(c) \ {call}
  BY <1>1, GoneFits DEF Core
<1>3. BatchInv(d)
  <2>1. CASE c.inFlightKey = NoScope
    BY <1>1, <1>2, <2>1 DEF Core, BatchInv, AtRest, SameRest, SameView, SameBatch
  <2>2. CASE c.inFlightKey # NoScope
    <3>1. Mine(d) = Mine(c)
      BY <1>2, <2>2
    <3> QED
      BY <1>1, <2>2, <3>1 DEF Core, BatchInv, UnderWay, SameRest, SameView, SameBatch
  <2> QED
    BY <2>1, <2>2
<1>4. ShownInv(d) /\ KeptInv(d) /\ (ActiveInv(c) => ActiveInv(d))
  BY <1>1, RestKeeps DEF Core
<1>5. call.kind # "chunk" \/ c.chunks = <<>> => (Pumped(c) => Pumped(d))
  <2>1. call.kind # "chunk" => ChunkCalls(d) = ChunkCalls(c)
    BY <1>2 DEF ChunkCalls
  <2> QED
    BY <1>1, <2>1 DEF Pumped, SameBatch
<1>6. call.kind # "draft" \/ ~Plans!SameDraft(c, call) => (DraftInv(c) => DraftInv(d))
  BY <1>1, DraftStays DEF SameRest
<1> QED
  BY <1>2, <1>3, <1>4, <1>5, <1>6 DEF Core, d

\* What CompleteChunk changes.
SameButList(c, d) ==
  /\ SameView(c, d) /\ d.active = c.active /\ d.timer = c.timer
  /\ d.mode = c.mode /\ d.saved = c.saved /\ d.draft = c.draft /\ d.calls = c.calls
  /\ d.batch = c.batch /\ d.chunks = c.chunks /\ d.total = c.total
  /\ d.results = c.results /\ d.context = c.context
LEMMA CompleteIs ==
  ASSUME NEW b \in Clients
  PROVE  LET d == Plans!CompleteChunk(b) IN
         /\ d \in Clients /\ SameButList(b, d) /\ d.done = b.done + 1
         /\ b.done + 1 < b.total =>
              d.inFlightKey = b.inFlightKey /\ d.cacheKey = b.cacheKey /\ d.cache = b.cache
         /\ ~(b.done + 1 < b.total) =>
              /\ d.inFlightKey = NoScope /\ d.cacheKey = NoScope
              /\ \A e \in d.cache :
                   \/ e \in b.cache
                   \/ e.key = b.cacheKey /\ e.results = b.results /\ e.context = b.context
<1> DEFINE c == Plans!Count(b)
           e0 == [key |-> c.cacheKey, results |-> c.results, context |-> c.context, old |-> FALSE]
           kept == IF ~c.error /\ c.failed = {} /\ c.cacheKey # NoScope
                   THEN {e \in c.cache : e.key # c.cacheKey} \cup {e0} ELSE c.cache
           d == Plans!CompleteChunk(b)
<1>1. d = IF c.done < c.total THEN c
          ELSE [c EXCEPT !.pending = FALSE, !.inFlightKey = NoScope, !.refreshed = "fresh",
                         !.cacheKey = NoScope, !.cache = kept]
  BY DEF Plans!CompleteChunk
<1>2. /\ c \in Clients /\ SameButList(b, c) /\ c.done = b.done + 1
      /\ c.inFlightKey = b.inFlightKey /\ c.cacheKey = b.cacheKey /\ c.cache = b.cache
  BY SMTT(40) DEF Clients, Plans!Count, SameButList, SameView
<1> HIDE DEF c, d
<1>3. CASE c.done < c.total
  BY <1>1, <1>2, <1>3 DEF SameButList, d
<1>4. CASE ~(c.done < c.total)
  <2>1. e0 \in KeptLists /\ c.cache \in SUBSET KeptLists
    BY <1>2 DEF Clients, KeptLists
  <2>2. e0.key = c.cacheKey /\ e0.results = c.results /\ e0.context = c.context
    OBVIOUS
  <2> HIDE DEF e0
  <2>3. kept \in SUBSET KeptLists
    BY <2>1
  <2>4. \A e \in kept : e \in c.cache \/ e = e0
    OBVIOUS
  <2> HIDE DEF kept
  <2>5. d = [c EXCEPT !.pending = FALSE, !.inFlightKey = NoScope, !.refreshed = "fresh",
                      !.cacheKey = NoScope, !.cache = kept]
    BY <1>1, <1>4
  <2>6. d \in Clients
    BY ZenonT(60), <1>2, <2>3, <2>5 DEF Clients, Keys
  <2>7. SameButList(c, d) /\ d.done = c.done /\ d.inFlightKey = NoScope /\ d.cacheKey = NoScope /\ d.cache = kept
    BY <1>2, <2>5 DEF Clients, SameButList, SameView
  <2>8. SameButList(b, d)
    BY <1>2, <2>7 DEF SameButList, SameView
  <2>9. ~(b.done + 1 < b.total)
    BY <1>2, <1>4 DEF SameButList
  <2> QED
    BY <1>2, <2>2, <2>4, <2>6, <2>7, <2>8, <2>9 DEF SameButList, d
<1> QED
  BY <1>3, <1>4

\* A list that is not under way, or no longer: a chunk of it is counted all the same.
LEMMA RestCounted ==
  ASSUME NEW b \in Clients, Core(b), b.inFlightKey = NoScope
  PROVE  LET d == Plans!CompleteChunk(b) IN
         /\ d \in Clients /\ Core(d) /\ SameView(b, d)
         /\ (DraftInv(b) => DraftInv(d)) /\ (ActiveInv(b) => ActiveInv(d))
<1> DEFINE d == Plans!CompleteChunk(b)
<1>1. /\ d \in Clients /\ SameButList(b, d) /\ d.inFlightKey = NoScope
      /\ d.cacheKey = b.cacheKey \/ d.cacheKey = NoScope
      /\ \A e \in d.cache :
           \/ e \in b.cache
           \/ e.key = b.cacheKey /\ e.results = b.results /\ e.context = b.context
  BY CompleteIs
<1> HIDE DEF d
<1>2. ChunkCalls(d) = ChunkCalls(b) /\ Mine(d) = Mine(b)
  BY <1>1 DEF SameButList, SameView, ChunkCalls, Mine
<1>3. CallsFit(d)
  BY <1>1, <1>2 DEF Core, SameButList, SameView, CallsFit
<1>4. BatchInv(d)
  BY <1>1, <1>2 DEF Core, SameButList, SameView, BatchInv, AtRest
<1>5. ShownInv(d)
  BY <1>1 DEF Core, SameButList, SameView, ShownInv
<1>6. KeptInv(d)
  BY <1>1 DEF Core, KeptInv, SameButList, SameView
<1>7. (DraftInv(b) => DraftInv(d)) /\ (ActiveInv(b) => ActiveInv(d))
  BY <1>1, DraftStays DEF SameButList, ActiveInv, SameView
<1> QED
  BY <1>1, <1>3, <1>4, <1>5, <1>6, <1>7 DEF Core, SameButList, d

\* A chunk of the list that is under way, when its answer has been applied.
LEMMA ChunkCounted ==
  ASSUME NEW c \in Clients, Core(c), UnderWay(c), NEW call \in Mine(c), c.scope # NoScope
  PROVE  LET d == Plans!CompleteChunk(Gone(c, call)) IN
         /\ d \in Clients /\ Core(d) /\ SameView(c, d)
         /\ (DraftInv(c) => DraftInv(d)) /\ (ActiveInv(c) => ActiveInv(d))
<1> DEFINE b == Gone(c, call)
           d == Plans!CompleteChunk(b)
<1>1. call \in c.calls /\ call.kind = "chunk"
  BY DEF Mine, ChunkCalls
<1>2. b \in Clients /\ SameRest(c, b) /\ SameBatch(c, b) /\ b.calls = c.calls \ {call} /\ b.error = c.error
  BY <1>1, GoneIs
<1> HIDE DEF b
<1>3. CallsFit(b) /\ Mine(b) = Mine(c) \ {call}
  BY <1>1, <1>2, GoneFits DEF Core
<1>4. /\ IsFiniteSet(Mine(c)) /\ Cardinality(Mine(c)) \in Nat /\ Cardinality(Mine(b)) \in Nat
      /\ Cardinality(Mine(b)) = Cardinality(Mine(c)) - 1
  BY <1>3, CallsCounted, FS_RemoveElement DEF Core
<1>5. ShownInv(b) /\ KeptInv(b) /\ (ActiveInv(c) => ActiveInv(b))
  BY <1>2, RestKeeps DEF Core
<1>6. DraftInv(c) => DraftInv(b)
  BY <1>1, <1>2, DraftStays DEF SameRest
<1>7. /\ d \in Clients /\ SameButList(b, d) /\ d.done = b.done + 1
      /\ b.done + 1 < b.total =>
           d.inFlightKey = b.inFlightKey /\ d.cacheKey = b.cacheKey /\ d.cache = b.cache
      /\ ~(b.done + 1 < b.total) =>
           /\ d.inFlightKey = NoScope /\ d.cacheKey = NoScope
           /\ \A e \in d.cache :
                \/ e \in b.cache
                \/ e.key = b.cacheKey /\ e.results = b.results /\ e.context = b.context
  BY <1>2, CompleteIs
<1> HIDE DEF d
<1>8. ChunkCalls(d) = ChunkCalls(b) /\ Mine(d) = Mine(b)
  BY <1>7 DEF SameButList, SameView, ChunkCalls, Mine
<1>9. CallsFit(d)
  BY <1>3, <1>7, <1>8 DEF SameButList, SameView, CallsFit
<1>10. (DraftInv(c) => DraftInv(d)) /\ (ActiveInv(c) => ActiveInv(d))
  BY <1>5, <1>6, <1>7, DraftStays DEF SameButList, ActiveInv, SameView
<1>11. SameView(c, d)
  BY <1>2, <1>7 DEF SameRest, SameButList, SameView
<1>12. c.done \in Nat /\ c.total \in Nat /\ Len(c.chunks) \in Nat /\ c.chunks \in Seq(SUBSET Nat)
  BY DEF Clients
<1>13. c.done + 1 + Cardinality(Mine(d)) + Len(c.chunks) = c.total
  BY <1>4, <1>8, <1>12 DEF UnderWay
<1>14. CASE b.done + 1 < b.total
  <2>1. /\ d.inFlightKey = c.inFlightKey /\ d.cacheKey = c.cacheKey /\ d.cache = b.cache
        /\ d.done = c.done + 1 /\ d.total = c.total /\ d.chunks = c.chunks
    BY <1>2, <1>7, <1>14 DEF SameRest, SameBatch, SameButList
  <2>2. UnderWay(d)
    BY <1>2, <1>3, <1>7, <1>8, <1>11, <1>13, <1>14, <2>1 DEF UnderWay, SameView, SameBatch
  <2>3. BatchInv(d)
    BY <1>11, <2>2 DEF BatchInv, UnderWay, SameView
  <2>4. ShownInv(d)
    BY <1>5, <1>7, <2>1 DEF ShownInv, SameButList, SameView
  <2>5. KeptInv(d)
    BY <1>2, <1>5, <1>7, <2>1 DEF KeptInv, SameBatch, SameButList, SameView
  <2> QED
    BY <1>7, <1>9, <1>10, <1>11, <2>3, <2>4, <2>5 DEF Core, b, d
<1>15. CASE ~(b.done + 1 < b.total)
  <2>1. c.chunks = <<>> /\ Cardinality(Mine(d)) = 0
    BY <1>2, <1>4, <1>8, <1>12, <1>13, <1>15 DEF SameBatch
  <2>2. Mine(d) = {}
    BY <1>3, <1>4, <1>8, <2>1, CallsCounted, FS_EmptySet
  <2>3. BatchInv(d)
    BY <1>2, <1>7, <1>15, <2>1, <2>2 DEF BatchInv, AtRest, SameButList, SameBatch
  <2>4. ShownInv(d)
    BY <1>5, <1>7, <1>15 DEF ShownInv, SameButList, SameView
  <2>5. KeptInv(d)
    BY <1>5, <1>7, <1>15 DEF KeptInv, SameButList, SameView
  <2> QED
    BY <1>7, <1>9, <1>10, <1>11, <2>3, <2>4, <2>5 DEF Core, b, d
<1> QED
  BY <1>14, <1>15

\* Other results of this epoch.
WithResults(c, f, failed, error) == [c EXCEPT !.results = f, !.failed = failed, !.error = error]
LEMMA ResultsKeep ==
  ASSUME NEW c \in Clients, Core(c), c.scope # NoScope,
         NEW f \in PlanResults, AsOf(f, c.epoch), NEW failed \in SUBSET Nat, NEW error \in BOOLEAN
  PROVE  LET d == WithResults(c, f, failed, error) IN
         /\ d \in Clients /\ Core(d) /\ SameView(c, d) /\ SameBatch(c, d) /\ d.calls = c.calls
         /\ d.context = c.context
         /\ (DraftInv(c) => DraftInv(d)) /\ (ActiveInv(c) => ActiveInv(d))
<1> DEFINE d == WithResults(c, f, failed, error)
<1>1. d \in Clients
  BY DEF Clients, WithResults
<1>2. /\ SameView(c, d) /\ SameBatch(c, d) /\ SameActive(c, d) /\ d.calls = c.calls
      /\ d.results = f /\ d.context = c.context /\ d.cache = c.cache
      /\ d.mode = c.mode /\ d.saved = c.saved /\ d.draft = c.draft
  BY DEF Clients, WithResults, SameView, SameBatch, SameActive
<1> HIDE DEF d
<1>3. ChunkCalls(d) = ChunkCalls(c) /\ Mine(d) = Mine(c)
  BY <1>2 DEF SameView, SameBatch, ChunkCalls, Mine
<1>4. CallsFit(d) /\ BatchInv(d)
  BY <1>2, <1>3 DEF Core, SameView, SameBatch, CallsFit, BatchInv, UnderWay, AtRest
<1>5. ShownInv(d)
  BY <1>2 DEF Core, SameView, ShownInv
<1>6. KeptInv(d)
  BY <1>2 DEF Core, SameView, SameBatch, KeptInv
<1>7. (DraftInv(c) => DraftInv(d)) /\ (ActiveInv(c) => ActiveInv(d))
  BY <1>2, DraftStays DEF SameView, SameActive, ActiveInv
<1> QED
  BY <1>1, <1>2, <1>4, <1>5, <1>6, <1>7 DEF Core, d

\* What an answer to a chunk of the list does before it is counted.
Applied(c, d) ==
  /\ d \in Clients /\ Core(d) /\ SameView(c, d) /\ SameBatch(c, d) /\ d.calls = c.calls
  /\ (DraftInv(c) => DraftInv(d)) /\ (ActiveInv(c) => ActiveInv(d))
LEMMA OutputApplied ==
  ASSUME NEW c \in Clients, Core(c), UnderWay(c), c.scope # NoScope,
         NEW call \in Mine(c), NEW output \in Plans!Outputs(call)
  PROVE  Applied(c, Plans!ApplyOutput(c, call, output))
<1> DEFINE cache == IF Plans!Changed(c.context, output.context) THEN {} ELSE c.cache
           c1 == [c EXCEPT !.context = output.context, !.cache = cache]
           c2 == Plans!SetMode(c1, output.support)
           f == [k \in DOMAIN c2.results \cup output.planned |->
                   IF k \in output.planned THEN call.epoch ELSE c2.results[k]]
           d == Plans!ApplyOutput(c, call, output)
<1>1. /\ call.number = c.batch /\ call.epoch = c.epoch /\ ~c.destroyed
      /\ call.keys \in SUBSET Nat /\ call.epoch \in Nat
  BY DEF Mine, ChunkCalls, UnderWay, Clients, Plans!Call
<1>2. /\ output.context \in Snapshots \cup {None} /\ output.support \in Plans!Modes
      /\ output.planned \in SUBSET Nat
  BY <1>1 DEF Plans!Outputs, Plans!Modes
<1> DEFINE left == (c2.failed \ output.planned) \cup (call.keys \ output.planned)
<1>3. d = [c2 EXCEPT !.results = f, !.failed = left]
  BY <1>1 DEF Plans!ApplyOutput
<1> HIDE DEF f, left
<1>4. cache \in SUBSET KeptLists /\ cache \subseteq c.cache
  BY DEF Clients
<1>5. \A e \in c.cache : e.key = c.scope => e.old
  BY DEF Core, KeptInv, UnderWay
<1> HIDE DEF cache
<1>6. c1 \in Clients
  BY <1>2, <1>4 DEF Clients
<1>7. /\ SameView(c, c1) /\ SameBatch(c, c1) /\ SameActive(c, c1) /\ c1.calls = c.calls
      /\ c1.results = c.results /\ c1.context = output.context /\ c1.cache = cache
      /\ c1.mode = c.mode /\ c1.saved = c.saved /\ c1.draft = c.draft
  BY DEF Clients, SameView, SameBatch, SameActive
<1> HIDE DEF c1
<1>8. ChunkCalls(c1) = ChunkCalls(c) /\ Mine(c1) = Mine(c)
  BY <1>7 DEF SameView, SameBatch, ChunkCalls, Mine
<1>9. Core(c1)
  <2>1. CallsFit(c1) /\ BatchInv(c1)
    BY <1>7, <1>8 DEF Core, SameView, SameBatch, CallsFit, BatchInv, UnderWay, AtRest
  <2>2. ShownInv(c1)
    BY <1>4, <1>7 DEF Core, SameView, ShownInv
  <2>3. KeptInv(c1)
    BY <1>4, <1>5, <1>7 DEF SameView, KeptInv
  <2> QED
    BY <2>1, <2>2, <2>3 DEF Core
<1>10. (DraftInv(c) => DraftInv(c1)) /\ (ActiveInv(c) => ActiveInv(c1))
  BY <1>7, DraftStays DEF SameView, SameActive, ActiveInv
<1>11. /\ c2 \in Clients /\ SameView(c1, c2) /\ SameBatch(c1, c2) /\ c2.calls = c1.calls
       /\ c2.context = c1.context
  BY <1>2, <1>6, SetModeIs
<1>12. Core(c2) /\ (DraftInv(c1) => DraftInv(c2)) /\ (ActiveInv(c1) => ActiveInv(c2))
  BY <1>2, <1>6, <1>9, SetModeKeeps
<1> HIDE DEF c2
<1>13. c2.epoch = c.epoch /\ c2.scope # NoScope
  BY <1>7, <1>11 DEF SameView
<1>14. f \in PlanResults /\ AsOf(f, c2.epoch)
  <2>1. PICK K \in SUBSET Nat : c2.results \in [K -> Nat]
    BY <1>11 DEF Clients, PlanResults
  <2>2. AsOf(c2.results, c2.epoch)
    BY <1>12 DEF Core, ShownInv
  <2>3. f \in [K \cup output.planned -> Nat]
    BY <1>1, <2>1 DEF f
  <2>4. f \in PlanResults
    BY <1>2, <2>3 DEF PlanResults
  <2>5. AsOf(f, c2.epoch)
    BY <1>1, <1>13, <2>2 DEF AsOf, f
  <2> QED
    BY <2>4, <2>5
<1>15. left \in SUBSET Nat /\ c2.error \in BOOLEAN
  BY <1>1, <1>11 DEF Clients, left
<1>16. d = WithResults(c2, f, left, c2.error)
  BY <1>3, <1>11 DEF Clients, WithResults
<1> HIDE DEF d
<1>17. /\ d \in Clients /\ Core(d) /\ SameView(c2, d) /\ SameBatch(c2, d) /\ d.calls = c2.calls
       /\ (DraftInv(c2) => DraftInv(d)) /\ (ActiveInv(c2) => ActiveInv(d))
  BY <1>11, <1>12, <1>13, <1>14, <1>15, <1>16, ResultsKeep
<1>18. SameView(c, d) /\ SameBatch(c, d)
  BY <1>7, <1>11, <1>17 DEF SameView, SameBatch
<1> QED
  BY <1>7, <1>10, <1>11, <1>12, <1>17, <1>18 DEF Applied, d

LEMMA FailureApplied ==
  ASSUME NEW c \in Clients, Core(c), UnderWay(c), c.scope # NoScope, NEW call \in Mine(c)
  PROVE  Applied(c, Plans!ChunkFailed(c, call))
<1> DEFINE c1 == IF c.mode = "v2" THEN c ELSE Plans!SetMode(c, "unknown")
           f == Plans!Without(c1.results, call.keys)
           left == c1.failed \cup call.keys
           d == Plans!ChunkFailed(c, call)
<1>1. d = WithResults(c1, f, left, TRUE)
  BY DEF Plans!ChunkFailed, WithResults
<1>2. "unknown" \in Plans!Modes /\ c.inFlightKey # NoScope /\ call.keys \in SUBSET Nat
  BY DEF Plans!Modes, UnderWay, Mine, ChunkCalls, Clients, Plans!Call
<1>3. /\ c1 \in Clients /\ SameView(c, c1) /\ SameBatch(c, c1) /\ c1.calls = c.calls
      /\ Core(c1) /\ (DraftInv(c) => DraftInv(c1)) /\ (ActiveInv(c) => ActiveInv(c1))
  <2>1. CASE c.mode = "v2"
    BY <2>1 DEF SameView, SameBatch
  <2>2. CASE c.mode # "v2"
    BY <1>2, <2>2, SetModeIs, SetModeKeeps
  <2> QED
    BY <2>1, <2>2
<1> HIDE DEF c1
<1>4. f \in PlanResults /\ AsOf(f, c1.epoch)
  <2>1. PICK K \in SUBSET Nat : c1.results \in [K -> Nat]
    BY <1>3 DEF Clients, PlanResults
  <2>2. AsOf(c1.results, c1.epoch)
    BY <1>3 DEF Core, ShownInv
  <2>3. f \in [K \ call.keys -> Nat] /\ K \ call.keys \in SUBSET Nat
    BY <2>1 DEF Plans!Without
  <2>4. \A k \in K \ call.keys : k \in DOMAIN c1.results /\ f[k] = c1.results[k]
    BY <2>1 DEF Plans!Without
  <2>5. DOMAIN f = K \ call.keys
    BY <2>3
  <2>6. f \in PlanResults
    BY <2>3 DEF PlanResults
  <2>7. AsOf(f, c1.epoch)
    BY <2>2, <2>4, <2>5 DEF AsOf
  <2> QED
    BY <2>6, <2>7
<1>5. left \in SUBSET Nat /\ c1.scope # NoScope
  BY <1>2, <1>3 DEF Clients, SameView
<1> HIDE DEF f, left, d
<1>6. /\ d \in Clients /\ Core(d) /\ SameView(c1, d) /\ SameBatch(c1, d) /\ d.calls = c1.calls
      /\ (DraftInv(c1) => DraftInv(d)) /\ (ActiveInv(c1) => ActiveInv(d))
  <2>1. TRUE \in BOOLEAN
    OBVIOUS
  <2> QED
    BY <1>1, <1>3, <1>4, <1>5, <2>1, ResultsKeep
<1>7. SameView(c, d) /\ SameBatch(c, d)
  BY <1>3, <1>6 DEF SameView, SameBatch
<1> QED
  BY <1>3, <1>6, <1>7 DEF Applied, d

LEMMA RefusalApplied ==
  ASSUME NEW c \in Clients, Core(c)
  PROVE  Applied(c, Plans!SetMode(c, "legacy"))
<1>1. "legacy" \in Plans!Modes
  BY DEF Plans!Modes
<1> QED
  BY <1>1, SetModeIs, SetModeKeeps DEF Applied

LEMMA ChunkAnsweredKeeps ==
  ASSUME NEW c, ClientInv(c), NEW call \in c.calls, call.kind = "chunk",
         NEW reply \in Plans!Outputs(call) \cup Plans!Errors
  PROVE  LET d == Plans!ChunkAnswered(c, call, reply) IN ClientInv(d) /\ d.scope = c.scope
<1> DEFINE c1 == IF ~Plans!Current(c, call) THEN c
                 ELSE IF reply.kind = "plans" THEN Plans!ApplyOutput(c, call, reply)
                 ELSE IF call.number # c.batch THEN c
                 ELSE IF reply.kind = "missing" THEN Plans!SetMode(c, "legacy")
                 ELSE Plans!ChunkFailed(c, call)
           c2 == Gone(c1, call)
           c3 == IF call.number = c2.batch THEN Plans!CompleteChunk(c2) ELSE c2
           d == Plans!ChunkAnswered(c, call, reply)
<1>1. d = IF c.destroyed THEN c2 ELSE Plans!Pump(c3)
  BY DEF Plans!ChunkAnswered, Gone
<1>2. c \in Clients /\ Core(c) /\ Pumped(c) /\ DraftInv(c) /\ ActiveInv(c)
  BY InvIs
<1>3. c.destroyed => ~Plans!Current(c, call)
  BY <1>2 DEF Core, CallsFit, Plans!Current, Clients, Plans!Call
<1> HIDE DEF d
<1>4. ASSUME ~c.destroyed, NEW e \in Clients, Core(e), SameView(c, e), DraftInv(e), ActiveInv(e), d = Plans!Pump(e)
      PROVE  ClientInv(d) /\ d.scope = c.scope
  <2>1. /\ d \in Clients /\ SameRest(e, d) /\ e.calls \subseteq d.calls
        /\ \A k \in d.calls : k \notin e.calls => k.kind = "chunk"
        /\ CallsFit(d) /\ BatchInv(d) /\ Pumped(d)
    BY <1>4, PumpKeeps DEF Core, SameView
  <2>2. ShownInv(d) /\ KeptInv(d) /\ ActiveInv(d)
    BY <1>4, <2>1, RestKeeps DEF Core
  <2>3. DraftInv(d)
    BY <1>4, <2>1, DraftStays DEF SameRest
  <2> QED
    BY <1>4, <2>1, <2>2, <2>3, InvIs DEF Core, SameRest, SameView
<1>5. CASE ~Plans!Current(c, call) \/ call.number # c.batch
  <2>1. c1 = c
    BY <1>5 DEF Plans!ApplyOutput
  <2>2. call \notin Mine(c) \/ c.inFlightKey = NoScope
    BY <1>2, <1>5 DEF Core, BatchInv, UnderWay, Mine, Plans!Current
  <2>3. c2 \in Clients /\ SameRest(c, c2) /\ SameBatch(c, c2)
    BY <1>2, <2>1, GoneIs
  <2>4. Core(c2) /\ ActiveInv(c2) /\ DraftInv(c2)
    BY <1>2, <2>1, <2>2, StrayGone
  <2> HIDE DEF c2
  <2>5. CASE c.destroyed
    <3>1. Pumped(c2)
      BY <1>2, <2>3, <2>5 DEF Core, BatchInv, UnderWay, AtRest, SameBatch, Pumped
    <3> QED
      BY <1>1, <2>3, <2>4, <2>5, <3>1, InvIs DEF SameRest, SameView, d
  <2>6. CASE ~c.destroyed
    <3>1. c3 \in Clients /\ Core(c3) /\ SameView(c, c3) /\ DraftInv(c3) /\ ActiveInv(c3)
      <4>1. CASE call.number = c2.batch
        <5>1. call \in Mine(c)
          BY <2>3, <4>1 DEF Mine, ChunkCalls, SameBatch
        <5>2. c2.inFlightKey = NoScope
          BY <2>2, <2>3, <5>1 DEF SameBatch
        <5>3. c3 = Plans!CompleteChunk(c2)
          BY <4>1
        <5> HIDE DEF c3
        <5> QED
          BY <2>3, <2>4, <5>2, <5>3, RestCounted DEF SameRest, SameView
      <4>2. CASE call.number # c2.batch
        BY <2>3, <2>4, <4>2 DEF SameRest
      <4> QED
        BY <4>1, <4>2
    <3>2. d = Plans!Pump(c3)
      BY <1>1, <2>6
    <3> QED
      BY <1>4, <2>6, <3>1, <3>2 DEF d
  <2> QED
    BY <2>5, <2>6
<1>6. CASE Plans!Current(c, call) /\ call.number = c.batch
  <2>1. call \in Mine(c) /\ ~c.destroyed
    BY <1>3, <1>6 DEF Mine, ChunkCalls
  <2>2. UnderWay(c) /\ c.scope # NoScope
    BY <1>2, <1>6, <2>1 DEF Core, BatchInv, AtRest, UnderWay, Plans!Current, Clients, Plans!Call
  <2>3. Applied(c, c1)
    <3>1. CASE reply \in Plans!Outputs(call)
      <4>1. c1 = Plans!ApplyOutput(c, call, reply)
        BY <1>6, <3>1 DEF Plans!Outputs
      <4> HIDE DEF c1
      <4> QED
        BY <1>2, <2>1, <2>2, <3>1, <4>1, OutputApplied
    <3>2. CASE reply.kind = "missing"
      BY <1>2, <1>6, <3>2, RefusalApplied
    <3>3. CASE reply.kind = "lost"
      BY <1>2, <1>6, <2>1, <2>2, <3>3, FailureApplied
    <3> QED
      BY <3>1, <3>2, <3>3 DEF Plans!Errors
  <2> HIDE DEF c1
  <2>4. UnderWay(c1) /\ call \in Mine(c1) /\ c1.scope # NoScope
    <3>1. Mine(c1) = Mine(c)
      BY <2>3 DEF Applied, Mine, ChunkCalls, SameBatch
    <3> QED
      BY <2>1, <2>2, <2>3, <3>1 DEF Applied, UnderWay, SameView, SameBatch
  <2>5. call.number = c2.batch
    BY <1>6, <2>3, <2>4, GoneIs DEF Applied, SameBatch, Mine, ChunkCalls
  <2>6. c3 = Plans!CompleteChunk(Gone(c1, call))
    BY <2>5
  <2> HIDE DEF c2, c3
  <2>7. /\ c3 \in Clients /\ Core(c3) /\ SameView(c1, c3)
        /\ (DraftInv(c1) => DraftInv(c3)) /\ (ActiveInv(c1) => ActiveInv(c3))
    BY <2>3, <2>4, <2>6, ChunkCounted DEF Applied
  <2>8. SameView(c, c3)
    BY <2>3, <2>7 DEF Applied, SameView
  <2>9. d = Plans!Pump(c3)
    BY <1>1, <2>1
  <2> QED
    BY <1>2, <1>4, <2>1, <2>3, <2>7, <2>8, <2>9 DEF Applied, d
<1> QED
  BY <1>5, <1>6

LEMMA SetModeInv ==
  ASSUME NEW c, ClientInv(c), NEW m \in Plans!Modes
  PROVE  LET d == Plans!SetMode(c, m) IN ClientInv(d) /\ d.scope = c.scope
BY InvIs, SetModeIs, SetModeKeeps DEF SameView

\* Other values of what the invariant does not speak of.
LEMMA RestStays ==
  ASSUME NEW c, ClientInv(c), NEW d \in Clients, SameButActive(c, d),
         d.active = c.active, d.timer = c.timer
  PROVE  ClientInv(d) /\ d.scope = c.scope
<1>1. ActiveInv(c) => ActiveInv(d)
  BY DEF ActiveInv, SameButActive, SameView
<1> QED
  BY <1>1, InvIs, ActiveStays DEF SameButActive, SameView

LEMMA ProbeAnsweredKeeps ==
  ASSUME NEW c, ClientInv(c), NEW call \in c.calls, call.kind = "probe",
         NEW reply \in Plans!Outputs(call) \cup Plans!Errors
  PROVE  LET d == Plans!ProbeAnswered(c, call, reply) IN ClientInv(d) /\ d.scope = c.scope
<1> DEFINE g == [c EXCEPT !.calls = @ \ {call}, !.probing = FALSE]
           h == CASE reply.kind = "plans" -> Plans!SetMode(g, reply.support)
                  [] reply.kind = "missing" -> Plans!SetMode(g, "legacy")
                  [] reply.kind = "lost" -> [Plans!SetMode(g, "unknown") EXCEPT !.error = TRUE, !.probed = NoScope]
           d == Plans!ProbeAnswered(c, call, reply)
<1>1. d = IF ~Plans!Current(g, call) THEN g ELSE [h EXCEPT !.refreshed = "fresh"]
  BY Zenon DEF Plans!ProbeAnswered
<1>2. c \in Clients /\ Core(c) /\ Pumped(c) /\ DraftInv(c) /\ ActiveInv(c)
  BY InvIs
<1>3. ClientInv(Gone(c, call)) /\ Gone(c, call).scope = c.scope
  <2>1. call \notin Mine(c)
    BY DEF Mine, ChunkCalls
  <2> QED
    BY <1>2, <2>1, GoneIs, StrayGone, InvIs DEF SameRest, SameView
<1>4. ClientInv(g) /\ g.scope = c.scope /\ g.epoch = c.epoch
  <2> DEFINE b == Gone(c, call)
  <2>1. g = [b EXCEPT !.probing = FALSE]
    BY DEF Gone
  <2>2. b \in Clients /\ b.epoch = c.epoch
    BY <1>2, GoneIs DEF SameRest, SameView
  <2> HIDE DEF b, g
  <2>3. g \in Clients /\ SameButActive(b, g) /\ g.active = b.active /\ g.timer = b.timer
    BY <2>1, <2>2 DEF Clients, SameButActive, SameView, SameBatch
  <2> QED
    BY <1>3, <2>2, <2>3, RestStays DEF b, SameButActive, SameView
<1>5. /\ {"v2", "legacy", "unknown"} = Plans!Modes
      /\ reply.kind \in {"plans", "missing", "lost"}
      /\ reply.kind = "plans" => reply.support \in Plans!Modes
  BY DEF Plans!Modes, Plans!Outputs, Plans!Errors
<1> HIDE DEF g
<1>6. ASSUME NEW e, ClientInv(e), e.scope = c.scope
      PROVE  LET f == [e EXCEPT !.refreshed = "fresh"] IN ClientInv(f) /\ f.scope = c.scope
  <2> DEFINE f == [e EXCEPT !.refreshed = "fresh"]
  <2>1. e \in Clients
    BY <1>6, InvIs
  <2>2. f \in Clients /\ SameButActive(e, f) /\ f.active = e.active /\ f.timer = e.timer
    BY <2>1 DEF Clients, SameButActive, SameView, SameBatch
  <2> HIDE DEF f
  <2> QED
    BY <1>6, <2>2, RestStays DEF f
<1>7. ASSUME NEW m \in Plans!Modes
      PROVE  ClientInv(Plans!SetMode(g, m)) /\ Plans!SetMode(g, m).scope = c.scope
  BY <1>4, <1>7, SetModeInv
<1>8. CASE ~Plans!Current(g, call)
  BY <1>1, <1>4, <1>8
<1>9. CASE Plans!Current(g, call)
  <2>1. ClientInv(h) /\ h.scope = c.scope
    <3>1. CASE reply.kind = "plans"
      <4>1. h = Plans!SetMode(g, reply.support)
        BY <3>1
      <4> QED
        BY <1>5, <1>7, <3>1, <4>1
    <3>2. CASE reply.kind = "missing"
      <4>1. h = Plans!SetMode(g, "legacy")
        BY <3>2
      <4> QED
        BY <1>5, <1>7, <4>1
    <3>3. CASE reply.kind = "lost"
      <4> DEFINE e == Plans!SetMode(g, "unknown")
      <4>1. h = [e EXCEPT !.error = TRUE, !.probed = NoScope]
        BY <3>3
      <4>2. ClientInv(e) /\ e.scope = c.scope /\ e \in Clients
        BY <1>5, <1>7, InvIs
      <4> HIDE DEF e, h
      <4>3. h \in Clients /\ SameButActive(e, h) /\ h.active = e.active /\ h.timer = e.timer
        BY <4>1, <4>2 DEF Clients, Keys, SameButActive, SameView, SameBatch
      <4> QED
        BY <4>2, <4>3, RestStays
    <3> QED
      BY <1>5, <3>1, <3>2, <3>3
  <2> HIDE DEF h
  <2> QED
    BY <1>1, <1>6, <1>9, <2>1
<1> QED
  BY <1>8, <1>9

\* A draft whose answer has come.
LEMMA DraftStateKeeps ==
  ASSUME NEW c \in Clients, Core(c), Pumped(c), ActiveInv(c), NEW s \in {"idle", "error", "result"},
         c.mode = "legacy" => c.draft.last = None,
         c.draft.timer # None => c.draft.timer = [epoch |-> c.epoch, seq |-> c.draft.seq],
         c.draft.last # None => c.scope # NoScope /\ s # "idle"
  PROVE  LET d == [c EXCEPT !.draft.state = s] IN
         ClientInv(d) /\ d.scope = c.scope /\ d.mode = c.mode
<1> DEFINE t == [c.draft EXCEPT !.state = s]
           d == [c EXCEPT !.draft.state = s]
<1>1. t \in Sessions /\ t.timer = c.draft.timer /\ t.last = c.draft.last /\ t.seq = c.draft.seq /\ t.state = s
  BY DEF Clients, Sessions, DraftStates
<1>2. d = WithDraft(c, t)
  BY DEF WithDraft
<1> HIDE DEF t
<1>3. d \in Clients /\ d.draft = t /\ SameButDraft(c, d)
  BY ZenonT(60), <1>1, <1>2, WithDraftIs
<1> HIDE DEF d
<1>4. DraftInv(d)
  BY <1>1, <1>3 DEF DraftInv, SameButDraft, SameView
<1>5. Core(d) /\ Pumped(d) /\ ActiveInv(d)
  BY <1>3, CoreStays
<1> QED
  BY <1>3, <1>4, <1>5, InvIs DEF SameButDraft, SameView, d

LEMMA DraftAnsweredKeeps ==
  ASSUME NEW c, ClientInv(c), NEW call \in c.calls, call.kind = "draft",
         NEW reply \in Plans!Outputs(call) \cup Plans!Errors
  PROVE  LET d == Plans!DraftAnswered(c, call, reply) IN ClientInv(d) /\ d.scope = c.scope
<1> DEFINE g == Gone(c, call)
           d == Plans!DraftAnswered(c, call, reply)
<1>1. d = IF g.destroyed \/ ~Plans!SameDraft(g, call) THEN g
          ELSE CASE reply.kind = "plans" ->
                      IF g.mode = "legacy" THEN [g EXCEPT !.draft.state = "idle"]
                      ELSE Plans!SetMode([g EXCEPT !.draft.state = "result"], reply.support)
                 [] reply.kind = "missing" -> [Plans!SetMode(g, "legacy") EXCEPT !.draft.state = "idle"]
                 [] reply.kind = "lost" -> [g EXCEPT !.draft.state = "error"]
  BY DEF Plans!DraftAnswered, Gone
<1>2. c \in Clients /\ Core(c) /\ Pumped(c) /\ DraftInv(c) /\ ActiveInv(c) /\ call \notin Mine(c)
  BY InvIs DEF Mine, ChunkCalls
<1>3. g \in Clients /\ SameRest(c, g)
  BY <1>2, GoneIs
<1>4. /\ Core(g) /\ Pumped(g) /\ ActiveInv(g)
      /\ ~Plans!SameDraft(c, call) => DraftInv(g)
  BY <1>2, StrayGone
<1>5. Plans!SameDraft(g, call) = Plans!SameDraft(c, call) /\ g.scope = c.scope /\ g.destroyed = c.destroyed
  BY <1>3 DEF SameRest, SameView, Plans!SameDraft, Plans!Current
<1> HIDE DEF g, d
<1>6. CASE g.destroyed \/ ~Plans!SameDraft(g, call)
  <2>1. DraftInv(g)
    BY <1>4, <1>5, <1>6 DEF DraftInv
  <2> QED
    BY <1>1, <1>3, <1>4, <1>5, <1>6, <2>1, InvIs DEF d
<1>7. CASE ~(g.destroyed \/ ~Plans!SameDraft(g, call))
  <2>1. /\ g.mode = "legacy" => g.draft.last = None
        /\ g.draft.timer # None => g.draft.timer = [epoch |-> g.epoch, seq |-> g.draft.seq]
        /\ g.draft.last # None => g.scope # NoScope
    BY <1>2, <1>3, <1>5, <1>7 DEF DraftInv, SameRest, SameView
  <2>2. CASE reply.kind = "plans" /\ g.mode = "legacy"
    <3>1. d = [g EXCEPT !.draft.state = "idle"]
      BY <1>1, <1>7, <2>2
    <3> QED
      BY <1>3, <1>4, <1>5, <2>1, <2>2, <3>1, DraftStateKeeps DEF d
  <2>3. CASE reply.kind = "plans" /\ g.mode # "legacy"
    <3> DEFINE e == [g EXCEPT !.draft.state = "result"]
    <3>1. d = Plans!SetMode(e, reply.support)
      BY <1>1, <1>7, <2>3
    <3>2. ClientInv(e) /\ e.scope = g.scope /\ e.mode = g.mode
      BY <1>3, <1>4, <2>1, DraftStateKeeps
    <3> HIDE DEF e
    <3>3. reply.support \in Plans!Modes
      BY <2>3 DEF Plans!Modes, Plans!Outputs, Plans!Errors
    <3> QED
      BY <1>5, <2>3, <3>1, <3>2, <3>3, SetModeInv DEF d
  <2>4. CASE reply.kind = "missing"
    <3> DEFINE e == Plans!SetMode(g, "legacy")
    <3>1. d = [e EXCEPT !.draft.state = "idle"]
      BY <1>1, <1>7, <2>4
    <3>2. "legacy" \in Plans!Modes
      BY DEF Plans!Modes
    <3>3. /\ e \in Clients /\ SameView(g, e)
          /\ g.mode = "legacy" => e.draft = g.draft
          /\ g.mode # "legacy" => e.draft.last = None /\ e.draft.timer = None
      BY <1>3, <3>2, SetModeIs
    <3>4. Core(e) /\ Pumped(e) /\ ActiveInv(e)
      BY <1>3, <1>4, <3>2, SetModeKeeps
    <3> HIDE DEF e
    <3>5. /\ e.draft.last = None
          /\ e.draft.timer # None => e.draft.timer = [epoch |-> e.epoch, seq |-> e.draft.seq]
      BY <2>1, <3>3 DEF SameView
    <3> QED
      BY <1>5, <3>1, <3>3, <3>4, <3>5, DraftStateKeeps DEF SameView, d
  <2>5. CASE reply.kind = "lost"
    <3>1. d = [g EXCEPT !.draft.state = "error"]
      BY <1>1, <1>7, <2>5
    <3> QED
      BY <1>3, <1>4, <1>5, <2>1, <3>1, DraftStateKeeps DEF d
  <2> QED
    BY <2>2, <2>3, <2>4, <2>5 DEF Plans!Outputs, Plans!Errors
<1> QED
  BY <1>6, <1>7

(* The steps. *)
LEMMA PlanInit == Plans!Init => PlanInv
<1> SUFFICES ASSUME Plans!Init PROVE PlanInv
  OBVIOUS
<1>1. /\ client.scope = NoScope /\ client.inFlightKey = NoScope /\ client.chunks = <<>>
      /\ client.results = <<>> /\ client.cache = {} /\ client.calls = {}
      /\ client.active = FALSE /\ client.timer = FALSE /\ client.draft.last = None /\ client.draft.timer = None
  BY DEF Plans!Init, Plans!Blank
<1> DEFINE s == [timer |-> None, scheduled |-> None, seq |-> 0, last |-> None, state |-> "idle"]
<1>2. s \in Sessions
  BY DEF Sessions, DraftStates
<1>3. client \in Clients
  <2>1. NoScope \in Keys /\ <<>> \in PlanResults /\ "unknown" \in Plans!Modes /\ <<>> \in Seq(SUBSET Nat)
    BY EmptyPlans, EmptyChunks DEF Keys, Plans!Modes
  <2> QED
    BY <1>2, <2>1 DEF Plans!Init, Plans!Blank, Clients
<1>4. ChunkCalls(client) = {} /\ Mine(client) = {} /\ Cardinality({}) = 0 /\ IsFiniteSet({})
  BY <1>1, FS_EmptySet DEF ChunkCalls, Mine
<1>5. CallsFit(client)
  BY <1>1, <1>4, PlanAssumption DEF CallsFit
<1>6. BatchInv(client) /\ Pumped(client)
  BY <1>1, <1>4 DEF BatchInv, AtRest, Pumped
<1>7. ShownInv(client) /\ KeptInv(client)
  BY <1>1, EmptyPlans DEF ShownInv, AsOf, KeptInv
<1>8. DraftInv(client) /\ ActiveInv(client)
  BY <1>1 DEF DraftInv, ActiveInv
<1>9. plans.last = client.scope /\ plans \in [last : Keys, editor : BOOLEAN]
  BY <1>1 DEF Plans!Init, Keys
<1> QED
  BY <1>3, <1>5, <1>6, <1>7, <1>8, <1>9, InvIs DEF PlanInv, Core

LEMMA PlanSame ==
  ASSUME PlanInv, ClientInv(client'), client'.scope = client.scope,
         plans' \in [last : Keys, editor : BOOLEAN], plans'.last = plans.last
  PROVE  PlanInv'
BY DEF PlanInv
LEMMA PlanPage == plans \in [last : Keys, editor : BOOLEAN] =>
  \A b \in BOOLEAN : LET q == [plans EXCEPT !.editor = b] IN
     q \in [last : Keys, editor : BOOLEAN] /\ q.last = plans.last
OBVIOUS

LEMMA ShowInv ==
  ASSUME PlanInv, ~client.destroyed, NEW s \in Scopes, Plans!Show(s)
  PROVE  PlanInv'
<1> DEFINE b == Plans!SetScope(client, s)
           c == Plans!SetActive(b, TRUE)
<1>1. ClientInv(client) /\ plans.last = client.scope /\ plans \in [last : Keys, editor : BOOLEAN]
  BY DEF PlanInv
<1>2. /\ client' = CASE s = plans.last -> Plans!RefreshIfStale(c)
                     [] s # plans.last /\ s.teams = 0 -> Plans!SendProbe(c)
                     [] OTHER -> Plans!SendSaved(c, s.teams)
      /\ plans' = [plans EXCEPT !.last = s]
  BY DEF Plans!Show
<1>3. plans' \in [last : Keys, editor : BOOLEAN] /\ plans'.last = s
  BY <1>1, <1>2 DEF Keys
<1>4. s # NoScope /\ s.teams \in Nat
  BY PlanAssumption
<1>5. CASE s = client.scope
  <2>1. b = client
    BY <1>5 DEF Plans!SetScope
  <2>2. ClientInv(c) /\ c.scope = s /\ ~c.destroyed
    BY <1>1, <1>4, <1>5, <2>1, SetActiveKeeps
  <2>3. client' = Plans!RefreshIfStale(c)
    BY <1>1, <1>2, <1>5
  <2> HIDE DEF c
  <2>4. ClientInv(client') /\ client'.scope = s
    BY <1>4, <2>2, <2>3, RefreshIfStaleKeeps
  <2> QED
    BY <1>3, <2>4 DEF PlanInv
<1>6. CASE s # client.scope
  <2>1. /\ FreshClient(b) /\ DraftInv(b) /\ b.scope = s /\ ~b.destroyed
        /\ b.active = client.active /\ b.timer = client.timer /\ b.refreshed = "never"
    BY <1>1, <1>6, SetScopeIs
  <2> HIDE DEF b
  <2>2. b \in Clients /\ client.timer = client.active
    BY <1>1, <2>1 DEF FreshClient, ClientInv, ActiveInv
  <2>3. c \in Clients /\ SameButActive(b, c) /\ c.active = TRUE /\ c.timer = TRUE
    <3>1. CASE b.active = TRUE
      BY <2>1, <2>2, <3>1 DEF Plans!SetActive, SameButActive, SameView, SameBatch
    <3>2. CASE b.active # TRUE
      <4> DEFINE e == [b EXCEPT !.active = TRUE]
      <4>1. c = Plans!ScheduleRefresh(e)
        BY <2>1, <3>2 DEF Plans!SetActive
      <4>2. e \in Clients /\ SameButActive(b, e) /\ e.active = TRUE /\ ~e.destroyed
        BY <2>1, <2>2 DEF Clients, SameButActive, SameView, SameBatch
      <4> HIDE DEF e
      <4>3. c = [e EXCEPT !.timer = TRUE]
        BY <4>1, <4>2 DEF Plans!ScheduleRefresh
      <4> HIDE DEF c
      <4>4. c \in Clients /\ SameButActive(e, c) /\ c.active = TRUE /\ c.timer = TRUE
        BY <4>2, <4>3 DEF Clients, SameButActive, SameView, SameBatch
      <4> QED
        BY <4>2, <4>4 DEF SameButActive, SameView, SameBatch
    <3> QED
      BY <3>1, <3>2
  <2> HIDE DEF c
  <2>4. FreshClient(c) /\ DraftInv(c) /\ c.scope = s /\ ~c.destroyed
    BY <2>1, <2>3, StillFresh, ActiveStays DEF SameButActive, SameView, SameBatch
  <2>5. ActiveInv(c)
    BY <1>4, <2>3, <2>4 DEF ActiveInv
  <2>6. Core(c) /\ Pumped(c)
    BY <2>4, FreshKeeps
  <2>7. /\ client' \in Clients /\ SameSession(c, client') /\ c.calls \subseteq client'.calls
        /\ Core(client') /\ Pumped(client')
    <3>1. CASE s.teams = 0
      <4>1. client' = Plans!SendProbe(c)
        BY <1>1, <1>2, <1>6, <3>1
      <4> QED
        BY <2>3, <2>6, <4>1, SendProbeKeeps
    <3>2. CASE s.teams # 0
      <4>1. client' = Plans!SendSaved(c, s.teams)
        BY <1>1, <1>2, <1>6, <3>2
      <4> QED
        BY <1>4, <2>3, <2>4, <2>6, <4>1, SendSavedKeeps
    <3> QED
      BY <3>1, <3>2
  <2>8. DraftInv(client') /\ ActiveInv(client') /\ client'.scope = s
    BY <2>4, <2>5, <2>7, SessionKeeps DEF SameSession, SameView
  <2> QED
    BY <1>3, <2>7, <2>8, InvIs DEF PlanInv
<1> QED
  BY <1>5, <1>6

\* A step that changes the client and not the page.
LEMMA StepInv ==
  ASSUME PlanInv, NEW c, Plans!Step(c), ClientInv(c), c.scope = client.scope
  PROVE  PlanInv'
BY DEF Plans!Step, PlanInv

LEMMA HideInv ==
  ASSUME PlanInv, ~client.destroyed, Plans!Hide
  PROVE  PlanInv'
<1>1. ClientInv(client) /\ client.scope # NoScope
  BY DEF Plans!Hide, PlanInv, ClientInv, ActiveInv
<1>2. Plans!Step(Plans!SetActive(client, FALSE))
  BY DEF Plans!Hide
<1> QED
  BY <1>1, <1>2, SetActiveKeeps, StepInv

LEMMA RetryInv ==
  ASSUME PlanInv, ~client.destroyed, Plans!Retry
  PROVE  PlanInv'
<1> DEFINE c == CASE client.mode # "v2" -> Plans!Refresh(client, TRUE)
                  [] client.mode = "v2" /\ client.scope.teams = 0 -> Plans!SendProbe(client)
                  [] OTHER -> Plans!SendSaved(client, client.scope.teams)
<1>1. /\ client \in Clients /\ Core(client) /\ Pumped(client) /\ DraftInv(client) /\ ActiveInv(client)
      /\ client.scope # NoScope
  BY InvIs DEF Plans!Retry, PlanInv, ClientInv, ActiveInv
<1>2. Plans!Step(c)
  BY DEF Plans!Retry
<1>3. client.scope.teams \in Nat
  BY <1>1, PlanAssumption DEF Clients, Keys
<1>4. ClientInv(c) /\ c.scope = client.scope
  <2>1. CASE client.mode # "v2"
    <3>1. c = Plans!Refresh(client, TRUE)
      BY <2>1
    <3> QED
      BY <1>1, <3>1, RefreshKeeps DEF Core
  <2>2. CASE client.mode = "v2" /\ client.scope.teams = 0
    <3>1. c = Plans!SendProbe(client)
      BY <2>2
    <3> HIDE DEF c
    <3>2. /\ c \in Clients /\ SameSession(client, c) /\ client.calls \subseteq c.calls
          /\ Core(c) /\ Pumped(c)
      BY <1>1, <3>1, SendProbeKeeps
    <3> QED
      BY <1>1, <3>2, SessionKeeps, InvIs DEF SameSession, SameView
  <2>3. CASE client.mode = "v2" /\ client.scope.teams # 0
    <3>1. c = Plans!SendSaved(client, client.scope.teams)
      BY <2>3
    <3> HIDE DEF c
    <3>2. /\ c \in Clients /\ SameSession(client, c) /\ client.calls \subseteq c.calls
          /\ Core(c) /\ Pumped(c)
      BY <1>1, <1>3, <3>1, SendSavedKeeps
    <3> QED
      BY <1>1, <3>2, SessionKeeps, InvIs DEF SameSession, SameView
  <2> QED
    BY <2>1, <2>2, <2>3
<1> HIDE DEF c
<1> QED
  BY <1>2, <1>4, StepInv

LEMMA InvalidateInv ==
  ASSUME PlanInv, ~client.destroyed, Plans!Invalidate
  PROVE  PlanInv'
<1>1. /\ client \in Clients /\ Core(client) /\ DraftInv(client) /\ client.scope # NoScope
  BY InvIs DEF Plans!Invalidate, PlanInv, ClientInv, ActiveInv
<1>2. Plans!Step(Plans!Refresh(client, FALSE))
  BY DEF Plans!Invalidate
<1> QED
  BY <1>1, <1>2, RefreshKeeps, StepInv DEF Core

LEMMA EditInv ==
  ASSUME PlanInv, ~client.destroyed, NEW x \in PlanDrafts, Plans!Edit(x)
  PROVE  PlanInv'
<1>1. /\ client \in Clients /\ Core(client) /\ Pumped(client) /\ DraftInv(client) /\ ActiveInv(client)
      /\ client.scope # NoScope
  BY InvIs DEF Plans!Edit, PlanInv, ClientInv, ActiveInv
<1>2. /\ plans' = [plans EXCEPT !.editor = TRUE]
      /\ client' = IF client.mode = "legacy" THEN client ELSE Plans!EnqueueDraft(client, x)
  BY DEF Plans!Edit
<1>3. plans' \in [last : Keys, editor : BOOLEAN] /\ plans'.last = plans.last
  BY <1>2, PlanPage DEF PlanInv
<1>4. CASE client.mode = "legacy"
  BY <1>2, <1>3, <1>4, PlanSame DEF PlanInv
<1>5. CASE client.mode # "legacy"
  <2>1. client' \in Clients /\ SameButDraft(client, client') /\ DraftInv(client')
    BY <1>1, <1>2, <1>5, EnqueueKeeps
  <2>2. ClientInv(client') /\ client'.scope = client.scope
    BY <1>1, <2>1, CoreStays, InvIs DEF SameButDraft, SameView
  <2> QED
    BY <1>3, <2>2, PlanSame
<1> QED
  BY <1>4, <1>5

LEMMA CloseEditorInv ==
  ASSUME PlanInv, Plans!CloseEditor
  PROVE  PlanInv'
<1>1. client \in Clients /\ Core(client) /\ Pumped(client) /\ ActiveInv(client)
  BY InvIs DEF PlanInv
<1>2. plans' = [plans EXCEPT !.editor = FALSE] /\ client' = Plans!CancelDraft(client)
  BY DEF Plans!CloseEditor
<1>3. plans' \in [last : Keys, editor : BOOLEAN] /\ plans'.last = plans.last
  BY <1>2, PlanPage DEF PlanInv
<1>4. /\ client' \in Clients /\ SameButDraft(client, client')
      /\ client'.draft.timer = None /\ client'.draft.last = None
  BY <1>1, <1>2, CancelDraftIs
<1>5. DraftInv(client')
  BY <1>4 DEF DraftInv
<1>6. ClientInv(client') /\ client'.scope = client.scope
  BY <1>1, <1>4, <1>5, CoreStays, InvIs DEF SameButDraft, SameView
<1> QED
  BY <1>3, <1>6, PlanSame

LEMMA UnmountInv ==
  ASSUME PlanInv, Plans!Unmount
  PROVE  PlanInv'
<1> DEFINE b == Plans!SetActive(client, FALSE)
           e == Plans!Dropped(b)
           k == [e.draft EXCEPT !.timer = None]
<1>1. ClientInv(client) /\ client.scope # NoScope /\ ~client.destroyed
  BY DEF PlanInv, Plans!Unmount
<1>2. /\ plans' = [plans EXCEPT !.editor = FALSE]
      /\ client' = [e EXCEPT !.destroyed = TRUE, !.batch = @ + 1, !.cacheKey = NoScope, !.draft.timer = None]
  BY DEF Plans!Unmount
<1>3. plans' \in [last : Keys, editor : BOOLEAN] /\ plans'.last = plans.last
  BY <1>2, PlanPage DEF PlanInv
<1>4. ClientInv(b) /\ b.scope = client.scope
  BY <1>1, SetActiveKeeps
<1>5. b.active = FALSE
  BY <1>1 DEF Plans!SetActive, ClientInv, Clients
<1> HIDE DEF b
<1>6. /\ FreshClient(e) /\ e \in Clients /\ e.scope = client.scope /\ e.active = FALSE /\ e.timer = FALSE
  BY <1>4, <1>5, DroppedIsFresh, DroppedIs DEF ClientInv, ActiveInv, SameActive
<1> HIDE DEF e
<1>7. k \in Sessions
  BY <1>6 DEF Clients, Sessions
<1>8. client' = [e EXCEPT !.destroyed = TRUE, !.batch = @ + 1, !.cacheKey = NoScope, !.draft = k]
  BY <1>2, <1>6 DEF Clients
<1> HIDE DEF k
<1>9. client' \in Clients
  <2>1. e.batch + 1 \in Nat /\ NoScope \in Keys /\ TRUE \in BOOLEAN
    BY <1>6 DEF Clients, Keys
  <2> QED
    BY <1>6, <1>7, <1>8, <2>1 DEF Clients
<1>10. /\ client'.destroyed = TRUE /\ client'.batch = e.batch + 1 /\ client'.calls = e.calls
       /\ client'.epoch = e.epoch /\ client'.chunks = e.chunks /\ client'.inFlightKey = e.inFlightKey
       /\ client'.results = e.results /\ client'.cache = e.cache
       /\ client'.scope = e.scope /\ client'.active = e.active /\ client'.timer = e.timer
  BY <1>6, <1>8 DEF Clients
<1>11. FreshClient(client')
  <2>1. \A c \in e.calls : c.number \in Nat
    BY <1>6 DEF Clients, Plans!Call
  <2>2. ChunkCalls(client') = ChunkCalls(e) /\ e.batch \in Nat
    BY <1>6, <1>10 DEF ChunkCalls, Clients
  <2>3. CallsFit(client')
    BY <1>6, <1>10, <2>1, <2>2 DEF FreshClient, CallsFit
  <2> QED
    BY <1>6, <1>9, <1>10, <2>3 DEF FreshClient
<1>12. DraftInv(client') /\ ActiveInv(client')
  BY <1>6, <1>10 DEF DraftInv, ActiveInv
<1>13. ClientInv(client')
  BY <1>9, <1>11, <1>12, FreshKeeps, InvIs
<1> QED
  BY <1>3, <1>6, <1>10, <1>13, PlanSame

LEMMA TimePassesInv ==
  ASSUME PlanInv, Plans!TimePasses
  PROVE  PlanInv'
<1> DEFINE older == {[e EXCEPT !.old = TRUE] : e \in client.cache}
           c == [client EXCEPT !.refreshed = "stale", !.cache = older]
<1>1. client \in Clients /\ Core(client) /\ Pumped(client) /\ DraftInv(client) /\ ActiveInv(client)
  BY InvIs DEF PlanInv
<1>2. Plans!Step(c)
  BY DEF Plans!TimePasses
<1>3. /\ older \in SUBSET KeptLists
      /\ \A e \in older : \E f \in client.cache :
           e.results = f.results /\ e.old
  <2>1. ASSUME NEW f \in client.cache
        PROVE  LET e == [f EXCEPT !.old = TRUE] IN
               /\ e \in KeptLists
               /\ e.results = f.results /\ e.old
    <3>1. f \in KeptLists
      BY <1>1 DEF Clients
    <3> QED
      BY <3>1 DEF KeptLists
  <2> QED
    BY <2>1
<1> HIDE DEF older
<1>4. c \in Clients
  BY <1>1, <1>3 DEF Clients
<1>5. /\ SameView(client, c) /\ SameBatch(client, c) /\ c.results = client.results
      /\ c.context = client.context /\ c.cache = older /\ c.mode = client.mode /\ c.saved = client.saved
      /\ c.draft = client.draft /\ c.calls = client.calls
      /\ c.active = client.active /\ c.timer = client.timer
  BY <1>1 DEF Clients, SameView, SameBatch
<1> HIDE DEF c
<1>6. ChunkCalls(c) = ChunkCalls(client) /\ Mine(c) = Mine(client)
  BY <1>5 DEF SameView, SameBatch, ChunkCalls, Mine
<1>7. CallsFit(c) /\ BatchInv(c) /\ Pumped(c)
  BY <1>1, <1>5, <1>6 DEF Core, SameView, SameBatch, CallsFit, BatchInv, UnderWay, AtRest, Pumped
<1>8. ShownInv(c)
  BY <1>1, <1>3, <1>5 DEF Core, SameView, ShownInv
<1>9. KeptInv(c)
  BY <1>3, <1>5 DEF KeptInv
<1>10. DraftInv(c) /\ ActiveInv(c)
  BY <1>1, <1>5, DraftStays DEF SameView, ActiveInv
<1>11. ClientInv(c) /\ c.scope = client.scope
  BY <1>4, <1>5, <1>7, <1>8, <1>9, <1>10, InvIs DEF Core, SameView
<1> QED
  BY <1>2, <1>11, StepInv

LEMMA RefreshTimerInv ==
  ASSUME PlanInv, Plans!RefreshTimer
  PROVE  PlanInv'
<1> DEFINE e == IF Plans!Busy(client) THEN client ELSE Plans!Reload(client, FALSE)
<1>1. /\ client \in Clients /\ Core(client) /\ Pumped(client) /\ DraftInv(client)
      /\ ~client.destroyed /\ client.scope # NoScope
  BY InvIs DEF Plans!RefreshTimer, PlanInv, ClientInv, ActiveInv
<1>2. Plans!Step(Plans!ScheduleRefresh(e))
  BY DEF Plans!RefreshTimer
<1>3. e \in Clients /\ Core(e) /\ Pumped(e) /\ DraftInv(e) /\ ~e.destroyed /\ e.scope = client.scope
  <2>1. CASE Plans!Busy(client)
    BY <1>1, <2>1
  <2>2. CASE ~Plans!Busy(client)
    <3>1. e = Plans!Reload(client, FALSE)
      BY <2>2
    <3> HIDE DEF e
    <3> QED
      BY <1>1, <3>1, ReloadKeeps DEF Core
  <2> QED
    BY <2>1, <2>2
<1> HIDE DEF e
<1>4. ClientInv(Plans!ScheduleRefresh(e)) /\ Plans!ScheduleRefresh(e).scope = client.scope
  BY <1>1, <1>3, ScheduleKeeps DEF SameButActive, SameView
<1> QED
  BY <1>2, <1>4, StepInv

LEMMA DraftTimerInv ==
  ASSUME PlanInv, Plans!DraftTimer
  PROVE  PlanInv'
<1> DEFINE t == client.draft.timer
           s == [client.draft EXCEPT !.timer = None]
           c == WithDraft(client, s)
           k == [kind |-> "draft", epoch |-> c.epoch, number |-> t.seq, keys |-> {}]
           d == [c EXCEPT !.calls = @ \cup {k}]
           r == IF c.destroyed \/ t.epoch # c.epoch \/ t.seq # c.draft.seq THEN c
                ELSE IF c.mode = "legacy" THEN [c EXCEPT !.draft.state = "idle"]
                ELSE d
<1>1. /\ client \in Clients /\ Core(client) /\ Pumped(client) /\ DraftInv(client) /\ ActiveInv(client)
      /\ t # None
  BY InvIs DEF PlanInv, Plans!DraftTimer
<1>2. Plans!Step(r)
  BY DEF Plans!DraftTimer, WithDraft
<1>3. /\ s \in Sessions /\ s.timer = None /\ s.last = client.draft.last /\ s.seq = client.draft.seq
      /\ s.state = client.draft.state /\ t \in Timers
  BY <1>1 DEF Clients, Sessions
<1> HIDE DEF s
<1>4. c \in Clients /\ c.draft = s /\ SameButDraft(client, c)
  BY <1>1, <1>3, WithDraftIs
<1>5. Core(c) /\ Pumped(c) /\ ActiveInv(c)
  BY <1>1, <1>4, CoreStays
<1> HIDE DEF c, t
<1>6. ~c.destroyed => /\ t.epoch = c.epoch /\ t.seq = c.draft.seq
                      /\ c.mode = "legacy" => c.draft.last = None
                      /\ c.draft.last # None => c.scope # NoScope /\ c.draft.state # "idle"
  BY <1>1, <1>3, <1>4 DEF DraftInv, SameButDraft, SameView, t
<1>7. CASE c.destroyed
  <2>1. r = c /\ DraftInv(c)
    BY <1>7 DEF DraftInv
  <2> HIDE DEF r
  <2> QED
    BY <1>2, <1>4, <1>5, <2>1, StepInv, InvIs DEF SameButDraft, SameView
<1>8. CASE ~c.destroyed /\ c.mode = "legacy"
  <2>1. r = [c EXCEPT !.draft.state = "idle"]
    BY <1>6, <1>8
  <2>2. c.draft.last = None /\ c.draft.timer = None
    BY <1>3, <1>4, <1>6, <1>8
  <2> HIDE DEF r
  <2>3. ClientInv(r) /\ r.scope = c.scope
    BY <1>4, <1>5, <2>1, <2>2, DraftStateKeeps
  <2> QED
    BY <1>2, <1>4, <2>3, StepInv DEF SameButDraft, SameView
<1>9. CASE ~c.destroyed /\ c.mode # "legacy"
  <2>1. r = d
    BY <1>6, <1>9
  <2>2. k \in Plans!Call /\ k.kind = "draft" /\ k.epoch = c.epoch /\ k.number = c.draft.seq
    BY <1>3, <1>4, <1>6, <1>9 DEF Plans!Call, Clients, Timers
  <2> HIDE DEF k, r
  <2>3. d \in Clients
    BY <1>4, <2>2 DEF Clients
  <2>4. SameRest(c, d) /\ SameBatch(c, d) /\ d.calls = c.calls \cup {k}
    BY <1>4 DEF Clients, SameRest, SameView, SameShown, SameActive, SameBatch
  <2> HIDE DEF d
  <2>5. ChunkCalls(d) = ChunkCalls(c) /\ Mine(d) = Mine(c)
    BY <2>2, <2>4 DEF ChunkCalls, Mine, SameBatch, SameRest, SameView
  <2>6. CallsFit(d)
    <3>1. IsFiniteSet(c.calls)
      BY <1>5 DEF Core, CallsFit
    <3>2. IsFiniteSet(c.calls \cup {k})
      BY <3>1, FS_AddElement
    <3>3. c.epoch \in Nat
      BY <1>4 DEF Clients
    <3> QED
      BY <1>5, <1>9, <2>2, <2>4, <2>5, <3>2, <3>3 DEF Core, CallsFit, SameRest, SameView, SameBatch
  <2>7. BatchInv(d) /\ Pumped(d)
    BY <1>5, <2>4, <2>5 DEF Core, SameRest, SameView, SameBatch, BatchInv, UnderWay, AtRest, Pumped
  <2>8. ShownInv(d) /\ ActiveInv(d)
    BY <1>5, <2>4 DEF Core, SameRest, SameView, SameShown, SameActive, ShownInv, ActiveInv
  <2>9. KeptInv(d)
    BY <1>5, <2>4 DEF Core, SameRest, SameView, SameShown, KeptInv
  <2>10. DraftInv(d)
    <3>1. Plans!SameDraft(d, k) /\ k \in d.calls /\ d.draft.timer = None
      BY <1>3, <1>4, <2>2, <2>4 DEF Plans!SameDraft, Plans!Current, SameRest, SameView
    <3> QED
      BY <1>6, <1>9, <2>2, <2>4, <3>1 DEF DraftInv, SameRest, SameView
  <2> QED
    BY <1>2, <1>4, <2>1, <2>3, <2>4, <2>6, <2>7, <2>8, <2>9, <2>10, StepInv, InvIs
       DEF Core, SameRest, SameButDraft, SameView
<1> QED
  BY <1>7, <1>8, <1>9

LEMMA AnswerInv ==
  ASSUME PlanInv, NEW call \in client.calls, NEW reply \in Plans!Outputs(call) \cup Plans!Errors,
         Plans!Answer(call, reply)
  PROVE  PlanInv'
<1> DEFINE c == CASE call.kind = "chunk" -> Plans!ChunkAnswered(client, call, reply)
                  [] call.kind = "probe" -> Plans!ProbeAnswered(client, call, reply)
                  [] call.kind = "draft" -> Plans!DraftAnswered(client, call, reply)
<1>1. ClientInv(client) /\ call \in Plans!Call
  BY DEF PlanInv, ClientInv, Clients
<1>2. Plans!Step(c)
  BY DEF Plans!Answer
<1>3. ClientInv(c) /\ c.scope = client.scope
  <2>1. CASE call.kind = "chunk"
    <3>1. c = Plans!ChunkAnswered(client, call, reply)
      BY <2>1
    <3> QED
      BY <1>1, <2>1, <3>1, ChunkAnsweredKeeps
  <2>2. CASE call.kind = "probe"
    <3>1. c = Plans!ProbeAnswered(client, call, reply)
      BY <2>2
    <3> QED
      BY <1>1, <2>2, <3>1, ProbeAnsweredKeeps
  <2>3. CASE call.kind = "draft"
    <3>1. c = Plans!DraftAnswered(client, call, reply)
      BY <2>3
    <3> QED
      BY <1>1, <2>3, <3>1, DraftAnsweredKeeps
  <2>4. call.kind \in {"chunk", "probe", "draft"}
    BY <1>1 DEF Plans!Call
  <2> QED
    BY <2>1, <2>2, <2>3, <2>4
<1> HIDE DEF c
<1> QED
  BY <1>2, <1>3, StepInv

LEMMA PlanNext == PlanInv /\ [Plans!Next]_Plans!vars => PlanInv'
<1> SUFFICES ASSUME PlanInv, [Plans!Next]_Plans!vars PROVE PlanInv'
  OBVIOUS
<1>1. CASE UNCHANGED Plans!vars
  <2>1. client' = client /\ plans' = plans
    BY <1>1 DEF Plans!vars
  <2> QED
    BY <2>1 DEF PlanInv
<1>2. CASE Plans!Next
  <2>1. ASSUME ~client.destroyed, NEW s \in Scopes, Plans!Show(s) PROVE PlanInv'
    BY <2>1, ShowInv
  <2>2. ASSUME ~client.destroyed, Plans!Hide PROVE PlanInv'
    BY <2>2, HideInv
  <2>3. ASSUME ~client.destroyed, Plans!Retry PROVE PlanInv'
    BY <2>3, RetryInv
  <2>4. ASSUME ~client.destroyed, Plans!Invalidate PROVE PlanInv'
    BY <2>4, InvalidateInv
  <2>5. ASSUME ~client.destroyed, NEW x \in PlanDrafts, Plans!Edit(x) PROVE PlanInv'
    BY <2>5, EditInv
  <2>6. CASE Plans!CloseEditor
    BY <2>6, CloseEditorInv
  <2>7. CASE Plans!Unmount
    BY <2>7, UnmountInv
  <2>8. CASE Plans!TimePasses
    BY <2>8, TimePassesInv
  <2>9. CASE Plans!RefreshTimer
    BY <2>9, RefreshTimerInv
  <2>10. CASE Plans!DraftTimer
    BY <2>10, DraftTimerInv
  <2>11. ASSUME NEW call \in client.calls, NEW reply \in Plans!Outputs(call) \cup Plans!Errors,
                Plans!Answer(call, reply)
         PROVE  PlanInv'
    BY <2>11, AnswerInv
  <2> QED
    BY <1>2, <2>1, <2>2, <2>3, <2>4, <2>5, <2>6, <2>7, <2>8, <2>9, <2>10, <2>11 DEF Plans!Next, Plans!Visible
<1> QED
  BY <1>1, <1>2

LEMMA PlanPropertiesHold ==
  ASSUME PlanInv
  PROVE  Plans!PlansAreCurrent /\ Plans!DraftIsUnderWay /\ Plans!RefreshIsOpen
<1> DEFINE c == client
<1>1. c \in Clients /\ Core(c) /\ Pumped(c) /\ DraftInv(c) /\ ActiveInv(c)
  BY InvIs DEF PlanInv
<1>2. Plans!PlansAreCurrent
  BY <1>1 DEF Core, ShownInv, KeptInv, AsOf, Plans!PlansAreCurrent
<1>3. Plans!DraftIsUnderWay
  BY <1>1 DEF DraftInv, Plans!DraftIsUnderWay
<1>4. Plans!RefreshIsOpen
  <2>1. ASSUME c.inFlightKey # NoScope
        PROVE  /\ c.done < c.total
               /\ \/ c.chunks # <<>>
                  \/ \E call \in c.calls :
                       call.kind = "chunk" /\ call.number = c.batch /\ Plans!Current(c, call)
    <3>1. UnderWay(c) /\ CallsFit(c)
      BY <1>1, <2>1 DEF Core, BatchInv
    <3>2. c.chunks = <<>> => Len(c.chunks) = 0
      OBVIOUS
    <3>3. c.chunks = <<>> => Cardinality(Mine(c)) # 0
      BY <1>1, <3>1, <3>2, CallsCounted DEF UnderWay, Clients
    <3>4. c.chunks = <<>> => Mine(c) # {}
      BY <3>3, FS_EmptySet
    <3>5. \A k \in Mine(c) : k \in c.calls /\ k.kind = "chunk" /\ k.number = c.batch /\ Plans!Current(c, k)
      BY <3>1 DEF UnderWay, Mine, ChunkCalls, Plans!Current
    <3> QED
      BY <3>1, <3>4, <3>5 DEF UnderWay
  <2>2. c.chunks # <<>> => Plans!Running(c) = MaxConcurrent
    BY <1>1, RunningIs DEF Pumped
  <2>3. c.active => c.timer
    BY <1>1 DEF ActiveInv
  <2> QED
    BY <2>1, <2>2, <2>3 DEF Plans!RefreshIsOpen
<1> QED
  BY <1>2, <1>3, <1>4

(***************************************************************************)
(* V.  The pages: each invariant, while its part is the one of the         *)
(* behaviour, and the four theorems.                                       *)
(***************************************************************************)

(* The installations that TLC explores are installations of VersionCheck. *)
LEMMA SettingsHold == SettingsAreReal
<1>1. Usual \in Checking!Installations
  BY DEF Usual, Checking!Installations, Checking!Relations
<1>2. Checkouts \subseteq Checking!Installations
  BY DEF Checkouts, Related, Checking!Installations, Checking!Relations
<1>3. Others \subseteq Checking!Installations
  BY DEF Others, Related, Checking!Installations, Checking!Relations
<1>4. Unread \subseteq Checking!Installations
  BY DEF Unread, Related, Checking!Installations, Checking!Relations
<1>5. Often.facts = Usual /\ Slow.facts = Usual
  BY DEF Often, Slow
<1>6. \A f : Once(f).facts = f
  BY DEF Once
<1> QED
  BY <1>1, <1>2, <1>3, <1>4, <1>5, <1>6 DEF SettingsAreReal, Installations

LEMMA ConstantsHold == StartConstants
BY StartAssumption DEF StartConstants

allVars == <<part, saveVars, checkVars, planVars, startVars, catalogVars, designVars, sample>>

CatalogPart == part = "catalog" => CatalogInv
CheckPart == part = "check" => CheckInv
StartPart == part = "start" => StartInv
PlanPart == part = "plans" => PlanInv

(* The behaviour stays with its part; the variables of the four parts change
   by their own steps only. *)
LEMMA PartsKeepApart ==
  ASSUME [PagesNext]_allVars
  PROVE  /\ part' = part
         /\ part = "catalog" => [Presets!Next]_Presets!catalogVars
         /\ part = "check" => [Checking!Next]_Checking!vars
         /\ part = "start" => [Starting!Next]_Starting!startVars
         /\ part = "plans" => [Plans!Next]_Plans!vars
<1>1. CASE PagesNext
  <2>1. part' = part
    BY <1>1 DEF PagesNext
  <2>2. part = "catalog" => Presets!Next
    BY <1>1 DEF PagesNext
  <2>3. part = "check" => Checking!Next
    BY <1>1 DEF PagesNext
  <2>4. part = "start" => Starting!Next
    BY <1>1 DEF PagesNext
  <2>5. part = "plans" => Plans!Next
    BY <1>1 DEF PagesNext
  <2> QED
    BY <2>1, <2>2, <2>3, <2>4, <2>5
<1>2. CASE UNCHANGED allVars
  BY <1>2 DEF allVars, checkVars, planVars, startVars, catalogVars,
              Presets!catalogVars, Checking!vars, Plans!vars, Starting!startVars
<1> QED
  BY <1>1, <1>2

LEMMA PartsBegin ==
  ASSUME PagesInit
  PROVE  CatalogPart /\ CheckPart /\ StartPart /\ PlanPart
<1>1. Presets!Init /\ Checking!Init /\ Starting!Init /\ Plans!Init
  BY DEF PagesInit
<1>2. CatalogPart /\ CheckPart /\ StartPart
  BY <1>1, CatalogInit, SettingsHold, CheckInit, ConstantsHold, StartInit DEF CatalogPart, CheckPart, StartPart
<1>3. PlanPart
  BY <1>1, PlanInit DEF PlanPart
<1> QED
  BY <1>2, <1>3

(* NothingIsLost, SeenIsHonest and ImportStaysDone of the Role catalog: no
   window writes over what it has not seen, and what the user did to the
   default presets stays done. *)
THEOREM CatalogSoundHolds == PagesSpec => []CatalogSound
<1>1. PagesInit => CatalogPart
  BY PartsBegin
<1>2. CatalogPart /\ [PagesNext]_allVars => CatalogPart'
  BY PartsKeepApart, CatalogNext DEF CatalogPart
<1>3. CatalogPart => CatalogSound
  BY DEF CatalogPart, CatalogSound, CatalogInv, StoreHolds,
         Presets!NothingIsLost, Presets!SeenIsHonest, Presets!ImportStaysDone
<1> QED
  BY <1>1, <1>2, <1>3, PTL DEF PagesSpec, allVars

(* ButtonMeansPreflight and RefsAreRecorded of the version check: the button
   that the panel offers is not refused for what the check had seen, and every
   private ref in the repository is one the plugin knows of. *)
THEOREM CheckSoundHolds == PagesSpec => []CheckSound
<1>1. PagesInit => CheckPart
  BY PartsBegin
<1>2. CheckPart /\ [PagesNext]_allVars => CheckPart'
  BY PartsKeepApart, CheckNext DEF CheckPart
<1>3. CheckPart => CheckSound
  BY DEF CheckPart, CheckSound, CheckInv, ButtonInv, RefsInv,
         Checking!ButtonMeansPreflight, Checking!RefsAreRecorded
<1> QED
  BY <1>1, <1>2, <1>3, PTL DEF PagesSpec, allVars

(* OneJobPerAsk, DraftsAreJobs, PrefillsAtHome and AdmissionHolds of the start
   of a design: one job for a request however often it is asked, no draft lost
   on the way, a prefill on its own host once, and no host over its limit. *)
THEOREM DesignStartSoundHolds == PagesSpec => []DesignStartSound
<1>1. PagesInit => StartPart
  BY PartsBegin
<1>2. StartPart /\ [PagesNext]_allVars => StartPart'
  BY PartsKeepApart, StartNext DEF StartPart
<1>3. StartPart => DesignStartSound
  BY StartSafe DEF StartPart, DesignStartSound
<1> QED
  BY <1>1, <1>2, <1>3, PTL DEF PagesSpec, allVars

(* PlansAreCurrent, DraftIsUnderWay and RefreshIsOpen of the plans of the Teams
   page: what is shown was asked for what is shown, the draft in the editor is
   never left to wait, and the guard of a list under way never outlives it. *)
THEOREM PlanPageSoundHolds == PagesSpec => []PlanPageSound
<1>1. PagesInit => PlanPart
  BY PartsBegin
<1>2. PlanPart /\ [PagesNext]_allVars => PlanPart'
  BY PartsKeepApart, PlanNext DEF PlanPart
<1>3. PlanPart => PlanPageSound
  BY PlanPropertiesHold DEF PlanPart, PlanPageSound
<1> QED
  BY <1>1, <1>2, <1>3, PTL DEF PagesSpec, allVars
=============================================================================
