-------------------------------- MODULE Catalog --------------------------------
(***************************************************************************)
(* The Role catalog and the preferences of a host, and what the windows of *)
(* the plugin do to them: the Role and Team editors                        *)
(* (client/catalog/editor-save.ts, client/roles/RoleEditor.tsx), copy and  *)
(* delete (client/app/AgentTeamsScreen.tsx), the import and the sync of    *)
(* the default presets (client/catalog/preset-service.ts,                  *)
(* PresetSyncDialog.tsx, shared/domain/catalog-content.ts,                 *)
(* server/templates/index.ts) and the editor of maxMembers                 *)
(* (client/settings/MaxMembersEditor.tsx).  A document is written with the *)
(* revision it was read at; a call may fail before or after it took effect.*)
(*                                                                         *)
(* A Role is whether it carries the origin of a preset, whether its content*)
(* is the template's, and a stamp that tells any two writes apart.  One    *)
(* thing is open in a window at a time; the Team editor is the Role editor *)
(* on another document.  What the settings hooks hold is read when a thing *)
(* opens, before its own reads.                                            *)
(***************************************************************************)
EXTENDS Integers, FiniteSets

CONSTANTS
  Windows, RoleIds,
  Templates,                     \* the ids of the default presets
  MaxTasks, MaxFailures,         \* bounds: things done in the windows, failed calls
  None

VARIABLES
  store,    \* the two documents, each with its revision
  phase,    \* per window: presetImport, and the notice of an import without its record
  task,     \* per window: what is open or running in it
  done,     \* of each bound
  history   \* what was lost, came back, was deleted or is not recorded yet
catalogVars == <<store, phase, task, done, history>>

NoTask == [kind |-> "none"]
Kinds == {"none", "edit", "delete", "copy", "import", "sync", "record", "max"}
Init ==
  /\ store = [rolesRev |-> 0, rows |-> [i \in RoleIds |-> None],
              prefsRev |-> 0, imported |-> FALSE, seen |-> {}, max |-> 0]
  /\ phase = [w \in Windows |-> [at |-> "idle", notice |-> None]]
  /\ task = [w \in Windows |-> NoTask]
  /\ done = [tasks |-> 0, failures |-> 0, stamps |-> 0]
  /\ history = [lost |-> {}, back |-> {}, deleted |-> {}, ever |-> {}, unrecorded |-> {}]

Role(preset, same, stamp) == [preset |-> preset, same |-> same, stamp |-> stamp]
Roles == {None} \cup [preset : BOOLEAN, same : BOOLEAN, stamp : 1..(3 * MaxTasks)]
\* The module's one type invariant.
CatalogTypeOK ==
  /\ \A i \in RoleIds : store.rows[i] \in Roles
  /\ store.seen \subseteq Templates
  /\ \A w \in Windows : task[w].kind \in Kinds /\ phase[w].at \in {"idle", "running", "over"}
  /\ history.unrecorded \subseteq 1..MaxTasks

\* A window turns to something new.
Opens(w, t) ==
  /\ task[w] = NoTask /\ done.tasks < MaxTasks
  /\ done' = [done EXCEPT !.tasks = @ + 1]
  /\ task' = [task EXCEPT ![w] = t]
At(w, kind, at) == task[w].kind = kind /\ task[w].at = at
Goes(w, t) == task' = [task EXCEPT ![w] = t]
Closes(w) == Goes(w, NoTask)

\* The host takes a write only at the revision it was read at.
Fresh(rev, read) == rev = read
WriteResults == {"saved", "conflict", "failed", "lost"}
\* "failed" and "lost" are one answer to the caller: the second took effect.
Result(result, rev, read) ==
  /\ result = "saved" => Fresh(rev, read)
  /\ result = "conflict" => ~Fresh(rev, read)
  /\ result = "lost" => Fresh(rev, read)
  /\ result \in {"failed", "lost"} => done.failures < MaxFailures
Effective(result) == result \in {"saved", "lost"}
Counted(result, stamped) ==
  done' = [done EXCEPT !.failures = IF result \in {"failed", "lost"} THEN @ + 1 ELSE @,
                       !.stamps = IF stamped THEN @ + 1 ELSE @]

IsTemplate(rows, i) == i \in Templates /\ rows[i] # None /\ (rows[i].preset \/ rows[i].same)
\* The roles are replaced; ids whose row the writer did not know are lost.
WriteRoles(result, rows, overwritten) ==
  IF Effective(result)
  THEN /\ store' = [store EXCEPT !.rolesRev = @ + 1, !.rows = rows]
       /\ history' = [history EXCEPT !.lost = @ \cup overwritten,
                         !.ever = @ \cup {i \in RoleIds : IsTemplate(rows, i)},
                         !.deleted = @ \cup {i \in Templates : /\ rows[i] = None /\ store.rows[i] # None
                                                               /\ store.rows[i].preset}]
  ELSE UNCHANGED <<store, history>>
ChangedBesides(rows, ids) == {i \in RoleIds \ ids : rows[i] # store.rows[i]}

\* What a read of a document gives.
RolesRead == [rolesRev |-> store.rolesRev, rows |-> store.rows]
PrefsRead == [prefsRev |-> store.prefsRev, imported |-> store.imported, seen |-> store.seen,
              max |-> store.max]

-----------------------------------------------------------------------------
(* The editor. *)
OpenEditor(w, i) ==
  /\ Opens(w, [kind |-> "edit", at |-> "open", id |-> i, base |-> store.rows[i],
               create |-> store.rows[i] = None, opened |-> None, agreed |-> FALSE,
               tries |-> 0, latest |-> None])
  /\ UNCHANGED <<store, phase, history>>
EditorLoads(w) ==
  /\ At(w, "edit", "open")
  /\ Goes(w, [task[w] EXCEPT !.at = "editing", !.opened = store.rows])
  /\ UNCHANGED <<store, phase, done, history>>

\* Submit; the confirmed overwrite is another submit.
Submit(w) ==
  /\ \/ At(w, "edit", "editing") /\ ~(task[w].create /\ store.rows[task[w].id] # None)
     \/ At(w, "edit", "modified") \/ At(w, "edit", "deleted")
  /\ Goes(w, [task[w] EXCEPT !.at = "reading", !.tries = 0, !.agreed = task[w].at # "editing"])
  /\ UNCHANGED <<store, phase, done, history>>

\* A bug: the row of the opened document is compared, not the latest one.
DecisionByOpened(t, rows) ==
  IF t.create THEN (IF rows[t.id] # None THEN "id-taken" ELSE "writing")
  ELSE IF t.agreed \/ t.opened[t.id] = t.base THEN "writing" ELSE "modified"
\* decideEditorSave.
Decision(t, rows) ==
  IF t.create THEN (IF rows[t.id] # None THEN "id-taken" ELSE "writing")
  ELSE IF t.agreed THEN "writing"
  ELSE IF t.base = None \/ t.opened[t.id] = None \/ t.opened[t.id] # t.base THEN "modified"
  ELSE IF rows[t.id] = None THEN "deleted"
  ELSE IF rows[t.id] = t.base THEN "writing" ELSE "modified"
EditorReads(w) ==
  /\ At(w, "edit", "reading")
  /\ Goes(w, [task[w] EXCEPT !.at = Decision(task[w], store.rows), !.latest = RolesRead])
  /\ UNCHANGED <<store, phase, done, history>>

\* The row keeps the origin its baseline had; two lost races are "busy".
EditorWrites(w, result) ==
  /\ At(w, "edit", "writing")
  /\ Result(result, store.rolesRev, task[w].latest.rolesRev)
  /\ LET t == task[w]
         rows == [t.latest.rows EXCEPT
                    ![t.id] = Role(t.base # None /\ t.base.preset, FALSE, done.stamps + 1)]
         unknown == IF store.rows[t.id] # t.base /\ ~t.agreed THEN {t.id} ELSE {}
     IN /\ WriteRoles(result, rows, unknown \cup ChangedBesides(rows, {t.id}))
        /\ task' = [task EXCEPT ![w] =
                      IF result = "saved" THEN NoTask
                      ELSE IF result = "conflict" /\ t.tries = 0
                           THEN [t EXCEPT !.at = "reading", !.tries = 1, !.latest = None]
                           ELSE [t EXCEPT !.at = "editing", !.latest = None]]
  /\ Counted(result, Effective(result))
  /\ UNCHANGED phase

\* A taken id is edited again; any other conflict loads the latest row.
EditAgain(w) ==
  /\ At(w, "edit", "id-taken")
  /\ Goes(w, [task[w] EXCEPT !.at = "editing", !.latest = None])
  /\ UNCHANGED <<store, phase, done, history>>
ReloadDraft(w) ==
  /\ At(w, "edit", "modified") \/ At(w, "edit", "deleted")
  /\ LET latest == store.rows[task[w].id]
     IN IF task[w].base = None \/ latest = None THEN Closes(w)
        ELSE Goes(w, [task[w] EXCEPT !.at = "editing", !.base = latest, !.opened = store.rows,
                                     !.latest = None])
  /\ UNCHANGED <<store, phase, done, history>>

-----------------------------------------------------------------------------
(* Delete and copy: read, change, write. *)
Remove(w, i) ==
  /\ store.rows[i] # None
  /\ Opens(w, [kind |-> "delete", at |-> "read", id |-> i])
  /\ UNCHANGED <<store, phase, history>>
Copy(w, i) ==
  /\ store.rows[i] # None
  /\ Opens(w, [kind |-> "copy", at |-> "read", id |-> i])
  /\ UNCHANGED <<store, phase, history>>
\* uniqueCopyId; without a free id of the instance nothing is copied.
FreeIds(rows) == {i \in RoleIds \ Templates : rows[i] = None}
FreshRoles(w) ==
  /\ At(w, "delete", "read") \/ At(w, "copy", "read")
  /\ IF store.rows[task[w].id] = None \/ (task[w].kind = "copy" /\ FreeIds(store.rows) = {})
     THEN Closes(w)
     ELSE Goes(w, [kind |-> task[w].kind, at |-> "write", id |-> task[w].id, read |-> RolesRead])
  /\ UNCHANGED <<store, phase, done, history>>
SaveRawRoles(w, result) ==
  /\ At(w, "delete", "write") \/ At(w, "copy", "write")
  /\ LET t == task[w]
         to == IF t.kind = "delete" THEN t.id ELSE CHOOSE i \in FreeIds(t.read.rows) : TRUE
         row == IF t.kind = "delete" THEN None
                ELSE Role(FALSE, t.read.rows[t.id].same, done.stamps + 1)
         rows == [t.read.rows EXCEPT ![to] = row]
     IN /\ Result(result, store.rolesRev, t.read.rolesRev)
        /\ WriteRoles(result, rows, ChangedBesides(rows, {to}))
        /\ Counted(result, Effective(result) /\ t.kind = "copy")
  /\ Closes(w)
  /\ UNCHANGED phase

-----------------------------------------------------------------------------
(* The preview of the default presets, and a choice among its rows. *)
Blank(kind, auto) ==
  [kind |-> kind, auto |-> auto, no |-> done.tasks + 1, at |-> "preview", roles |-> None,
   prefs |-> None, rows |-> None, read |-> None, tries |-> 0, clean |-> FALSE]
\* The server reads the two documents; neither waits for the other.
PreviewRoles(w) ==
  /\ task[w].kind \in {"import", "sync"} /\ task[w].at = "preview" /\ task[w].roles = None
  /\ Goes(w, [task[w] EXCEPT !.roles = RolesRead])
  /\ UNCHANGED <<store, phase, done, history>>
PreviewPrefs(w) ==
  /\ task[w].kind \in {"import", "sync"} /\ task[w].at = "preview" /\ task[w].prefs = None
  /\ Goes(w, [task[w] EXCEPT !.prefs = PrefsRead])
  /\ UNCHANGED <<store, phase, done, history>>
Previewed(w) ==
  /\ task[w].kind \in {"import", "sync"} /\ task[w].at = "preview"
  /\ task[w].roles # None /\ task[w].prefs # None
  /\ Goes(w, [task[w] EXCEPT !.at = IF task[w].kind = "sync" THEN "choose" ELSE "roles"])
  /\ UNCHANGED <<store, phase, done, history>>
PreviewAgain(t) == [t EXCEPT !.at = "preview", !.roles = None, !.prefs = None, !.read = None]

\* diffPresetRoles.
Before(t, i) == t.roles.rows[i]
SeenBy(t) == t.prefs.seen \cup {i \in Templates : Before(t, i) # None /\ Before(t, i).preset}
RowKind(t, i) ==
  IF Before(t, i) = None THEN (IF i \in SeenBy(t) THEN "deleted" ELSE "missing")
  ELSE IF Before(t, i).same THEN "same"
  ELSE IF i \in SeenBy(t) THEN "changed" ELSE "id-collision"
\* allowedPresetActions and the default one, as the ids a choice writes.
Writable(t) == {i \in Templates : RowKind(t, i) \in {"missing", "deleted", "changed"}}
ByDefault(t) == {i \in Templates : RowKind(t, i) = "missing"}
\* applyPresetSelectionDocument: the chosen rows alone.
Applied(t, ids) ==
  [i \in RoleIds |-> IF i \in ids THEN Role(TRUE, TRUE, done.stamps + 1) ELSE t.roles.rows[i]]

\* recordPresetSync: what carries the origin, and what was the same.
Recorded(t) ==
  {i \in Templates : t.rows[i] # None /\ (t.rows[i].preset \/ RowKind(t, i) = "same")}

-----------------------------------------------------------------------------
(* The import into an empty catalog. *)
RolesIn(rows) == {i \in RoleIds : rows[i] # None}
AutoImport(w) ==
  /\ phase[w].at = "idle" /\ RolesIn(store.rows) = {} /\ ~store.imported
  /\ Opens(w, Blank("import", TRUE))
  /\ phase' = [phase EXCEPT ![w].at = "running"]
  /\ UNCHANGED <<store, history>>
ManualImport(w) ==
  /\ phase[w].at # "running" /\ RolesIn(store.rows) = {}
  /\ Opens(w, Blank("import", FALSE))
  /\ phase' = [phase EXCEPT ![w].at = "running"]
  /\ UNCHANGED <<store, history>>
Over(w) == phase' = [phase EXCEPT ![w].at = "over"]

ImportReadsRoles(w) ==
  /\ At(w, "import", "roles")
  /\ Goes(w, [task[w] EXCEPT !.at = "prefs", !.read = RolesRead])
  /\ UNCHANGED <<store, phase, done, history>>
AlreadyPresent(t) == RolesIn(t.read.rows) # {} \/ (t.auto /\ store.imported)
ImportReadsPrefs(w) ==
  /\ At(w, "import", "prefs")
  /\ LET t == task[w]
         moved == t.read.rolesRev # t.roles.rolesRev \/ store.prefsRev # t.prefs.prefsRev
     IN IF AlreadyPresent(t) \/ (moved /\ t.tries = 1)
        THEN Closes(w) /\ Over(w)
        ELSE /\ Goes(w, IF moved THEN [PreviewAgain(t) EXCEPT !.tries = 1]
                        ELSE [t EXCEPT !.at = "write", !.read = ByDefault(t), !.tries = 0,
                                       !.clean = history.unrecorded = {}])
             /\ UNCHANGED phase
  /\ UNCHANGED <<store, done, history>>

\* The sync: the user picks rows, and confirms again when the catalog moved.
OpenSync(w) ==
  /\ Opens(w, Blank("sync", FALSE))
  /\ UNCHANGED <<store, phase, history>>
Confirm(w, ids) ==
  /\ At(w, "sync", "choose") /\ ids \subseteq Writable(task[w])
  /\ Goes(w, [task[w] EXCEPT !.at = "reading", !.read = ids])
  /\ UNCHANGED <<store, phase, done, history>>
SyncReadsRoles(w) ==
  /\ At(w, "sync", "reading")
  /\ Goes(w, IF store.rolesRev # task[w].roles.rolesRev THEN PreviewAgain(task[w])
             ELSE IF task[w].read # {} THEN [task[w] EXCEPT !.at = "write"]
             ELSE [task[w] EXCEPT !.at = "record", !.rows = store.rows, !.tries = 0])
  /\ UNCHANGED <<store, phase, done, history>>

\* Roles first; the record follows only a write that answered "saved".
PresetWrites(w, result) ==
  /\ task[w].kind \in {"import", "sync"} /\ task[w].at = "write"
  /\ LET t == task[w]
         rows == Applied(t, t.read)
         unknown == {i \in t.read : store.rows[i] # Before(t, i)}
     IN /\ Result(result, store.rolesRev, t.roles.rolesRev)
        /\ IF Effective(result)
           THEN /\ store' = [store EXCEPT !.rolesRev = @ + 1, !.rows = rows]
                /\ history' = [history EXCEPT
                     !.lost = @ \cup unknown \cup ChangedBesides(rows, t.read),
                     !.ever = @ \cup t.read,
                     !.back = IF t.auto /\ t.clean THEN @ \cup (t.read \cap history.deleted) ELSE @,
                     !.unrecorded = @ \cup {t.no}]
           ELSE UNCHANGED <<store, history>>
        /\ Goes(w, IF result = "saved" THEN [t EXCEPT !.at = "record", !.rows = rows, !.read = None, !.tries = 0]
                   ELSE IF t.kind = "import" THEN NoTask
                   ELSE IF result = "conflict" THEN PreviewAgain(t)
                   ELSE [t EXCEPT !.at = "choose", !.read = None])
        /\ IF t.kind = "import" /\ result # "saved" THEN Over(w) ELSE UNCHANGED phase
  /\ Counted(result, Effective(result))

\* savePreferencesOnly: a fresh read for each of two tries.
RecordReads(w) ==
  /\ task[w].kind \in {"import", "sync", "record"} /\ task[w].at = "record"
  /\ Goes(w, [task[w] EXCEPT !.at = "recording", !.read = PrefsRead])
  /\ UNCHANGED <<store, phase, done, history>>
RecordWrites(w, result) ==
  /\ task[w].kind \in {"import", "sync", "record"} /\ task[w].at = "recording"
  /\ LET t == task[w]
         ended == [phase[w] EXCEPT !.at = IF t.kind = "import" THEN "over" ELSE @]
     IN /\ Result(result, store.prefsRev, t.read.prefsRev)
        /\ IF Effective(result)
           THEN /\ store' = [store EXCEPT !.prefsRev = @ + 1, !.imported = TRUE, !.max = t.read.max,
                                          !.seen = t.read.seen \cup Recorded(t)]
                /\ history' = [history EXCEPT !.unrecorded = @ \ {t.no},
                                  !.lost = IF t.read.max # store.max THEN @ \cup {"max"} ELSE @]
           ELSE UNCHANGED <<store, history>>
        /\ IF result = "conflict" /\ t.tries = 0
           THEN Goes(w, [t EXCEPT !.at = "record", !.read = None, !.tries = 1]) /\ UNCHANGED phase
           ELSE /\ Goes(w, IF t.kind = "sync" /\ result # "saved"
                           THEN [t EXCEPT !.at = "choose", !.read = None, !.rows = None] ELSE NoTask)
                /\ phase' = [phase EXCEPT ![w] =
                     IF t.kind = "sync" THEN @
                     ELSE [ended EXCEPT !.notice = IF result = "saved" THEN None
                                                   ELSE [t EXCEPT !.read = None]]]
  /\ Counted(result, FALSE)
\* The notice of an import without its record offers to record it again.
RetryRecord(w) ==
  /\ phase[w].notice # None
  /\ Opens(w, [phase[w].notice EXCEPT !.kind = "record", !.at = "record", !.tries = 0])
  /\ UNCHANGED <<store, phase, history>>

-----------------------------------------------------------------------------
(* The editor of maxMembers: one read when it opens, one write. *)
OpenMax(w) ==
  /\ Opens(w, [kind |-> "max", at |-> "open"])
  /\ UNCHANGED <<store, phase, history>>
MaxLoads(w) ==
  /\ At(w, "max", "open")
  /\ Goes(w, [kind |-> "max", at |-> "editing", read |-> PrefsRead])
  /\ UNCHANGED <<store, phase, done, history>>
MaxWrites(w, result) ==
  /\ At(w, "max", "editing")
  /\ LET read == task[w].read
     IN /\ Result(result, store.prefsRev, read.prefsRev)
        /\ IF Effective(result)
           THEN /\ store' = [store EXCEPT !.prefsRev = @ + 1, !.max = done.stamps + 1,
                                          !.imported = read.imported, !.seen = read.seen]
                /\ history' = [history EXCEPT
                     !.lost = IF read.seen # store.seen \/ read.imported # store.imported \/ read.max # store.max
                              THEN @ \cup {"prefs"} ELSE @]
           ELSE UNCHANGED <<store, history>>
        /\ IF result = "saved" THEN Closes(w) ELSE UNCHANGED task
  /\ Counted(result, Effective(result))
  /\ UNCHANGED phase

\* What waits for the user may be closed, and a window may be opened anew.
Waits(w) ==
  \/ task[w].kind = "edit" /\ task[w].at \in {"open", "editing", "modified", "deleted", "id-taken"}
  \/ task[w].kind = "sync" /\ task[w].at \in {"preview", "choose"}
  \/ task[w].kind = "max"
Close(w) ==
  /\ (Waits(w)) = TRUE
  /\ Closes(w)
  /\ UNCHANGED <<store, phase, done, history>>
Reopen(w) ==
  /\ phase[w].at = "over" /\ task[w] = NoTask
  /\ phase' = [phase EXCEPT ![w] = [at |-> "idle", notice |-> None]]
  /\ UNCHANGED <<store, task, done, history>>

Next ==
  \E w \in Windows :
    \/ \E i \in RoleIds : OpenEditor(w, i) \/ Remove(w, i) \/ Copy(w, i)
    \/ EditorLoads(w)
    \/ Submit(w)
    \/ EditorReads(w)
    \/ EditAgain(w)
    \/ ReloadDraft(w)
    \/ FreshRoles(w)
    \/ PreviewRoles(w)
    \/ PreviewPrefs(w)
    \/ Previewed(w)
    \/ AutoImport(w)
    \/ ManualImport(w)
    \/ ImportReadsRoles(w)
    \/ ImportReadsPrefs(w)
    \/ OpenSync(w)
    \/ \E ids \in SUBSET Templates : Confirm(w, ids)
    \/ SyncReadsRoles(w)
    \/ RecordReads(w)
    \/ RetryRecord(w)
    \/ OpenMax(w)
    \/ MaxLoads(w)
    \/ Close(w)
    \/ Reopen(w)
    \/ \E result \in WriteResults :
         \/ EditorWrites(w, result)
         \/ SaveRawRoles(w, result)
         \/ PresetWrites(w, result)
         \/ RecordWrites(w, result)
         \/ MaxWrites(w, result)
Spec == Init /\ [][Next]_catalogVars

-----------------------------------------------------------------------------
(* Properties. *)
\* Nothing another window wrote is overwritten unseen: a Role that is replaced
\* is the one the writer started from, unless the user agreed to overwrite it,
\* and no write carries along an older Role or preference of somebody else.
NothingIsLost == history.lost = {}

\* A preset is recorded as seen only if the catalog once held it: a Role of the
\* user that merely has its id never counts.
SeenIsHonest == store.seen \subseteq history.ever

\* Once the imports are recorded, no import by itself brings back a preset the
\* user deleted.  (After a failed record it may.)
ImportStaysDone == history.back = {}
=============================================================================
