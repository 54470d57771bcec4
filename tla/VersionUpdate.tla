----------------------------- MODULE VersionUpdate -----------------------------
(***************************************************************************)
(* The update of the installed plugin: update.start in the plugin process  *)
(* (server/version/service.ts), the detached runner it spawns              *)
(* (runner.mjs), the files they share below the update root (store.ts),    *)
(* the confirmation of a reloaded plugin (boot.ts) and the panel that      *)
(* follows the job (client/version).                                       *)
(*                                                                         *)
(* A start, the job it creates and the runner of that job bear one name.   *)
(* The check the start refers to is taken to be fresh and actionable       *)
(* (VersionCheck).  A command of the runner is one step; it may fail       *)
(* without effect, and it may be killed by its timeout after the effect.   *)
(* The runner may die at any point, the plugin process may be restarted,   *)
(* and the user may change the checkout.                                   *)
(***************************************************************************)
EXTENDS Naturals, FiniteSets

CONSTANTS Starts,    \* the calls of update.start
          Settings,  \* the settings explored
          Nil       \* no lock, no job, no report

\* A setting is how the plugin is installed, and bounds: the starts that are
\* made, the plugin processes that run one after another, whether version.get is
\* called, the changes the user makes and the status answers on their way.
ASSUME UpdateAssumption ==
  /\ IsFiniteSet(Starts)
  /\ \A x \in Settings :
       x.mode \in {"directory", "managed"} /\ x.starts \subseteq Starts
       /\ x.boots \in Nat \ {0} /\ x.gets \in BOOLEAN
       /\ x.edits \in Nat /\ x.inFlight \in Nat

VARIABLES
  setting,   \* the setting of this behaviour, never changed
  files,     \* lock, latest and boot record, as on disk
  jobs,      \* status.json of each job
  tree,      \* the checkout: commit, user's edits, installed modules
  plugin,    \* the plugin process: its number, the commit it runs, whether it asked
  report,    \* a boot record some plugin process is about to write
  start,     \* the calls of update.start
  runner,    \* the runners, with their own copy of the job
  panel,     \* the job shown, answers on their way, a start being looked for
  disturbed  \* history: the checkout changed behind the runner's back, or the
             \* lock was taken from under a runner
vars == <<setting, files, jobs, tree, plugin, report, start, runner, panel, disturbed>>

Commits == {"from", "target", "own"}
States == {"queued", "running", "succeeded", "blocked", "failed", "rolled_back",
           "recovery_required"}
UpdatePhases == {"preflight", "fetching", "verifying_target", "fast_forwarding", "installing",
           "applying_managed", "reloading", "verifying_runtime", "rolling_back",
           "reconciling", "done"}
Ended == {"succeeded", "failed", "blocked", "rolled_back"}
Active == {"queued", "running"}

Jobs == [id : Starts, at : Nat, state : States, phase : UpdatePhases, seq : Nat]
Locks == [job : Starts, pid : Nat \ {0}]
Boots == [boot : Nat \ {0}, commit : Commits]

\* Nil is no record and no start.
ASSUME NilAssumption == Nil \notin Jobs \cup Locks \cup Boots \cup Starts

StartSteps == {"idle", "look", "reclaim", "reclaimRemove", "acquire", "write",
               "remember", "spawn", "giveUp", "giveUpRemove", "accepted", "refused", "lost",
               "closed"}
\* The steps of a runner between its spawn and its last status.
Working == {"read", "preflight", "fetch", "verifyTarget", "merge", "install", "reload",
            "verify", "look", "reset", "reinstall", "reloadBack", "verifyBack",
            "apply", "verifyManaged"}
Runs == Working \cup {"none", "unlock", "unlockRemove", "gone", "held", "threw", "dead"}

TypeOK ==
  /\ setting \in Settings
  /\ files \in [lock : Locks \cup {Nil}, latest : Starts \cup {Nil}, boot : Boots \cup {Nil}]
  /\ jobs \in [Starts -> Jobs \cup {Nil}]
  /\ tree \in [head : Commits, dirty : BOOLEAN, mods : Commits \cup {"broken"}, edits : Nat]
  /\ plugin \in [boot : Nat \ {0}, code : Commits, asked : BOOLEAN]
  /\ report \in Boots \cup {Nil}
  /\ start \in [Starts -> [pc : StartSteps, held : Starts \cup {Nil}, boot : Nat]]
  /\ runner \in [Starts -> [pc : Runs, first : Jobs \cup {Nil}, job : Jobs \cup {Nil}]]
  /\ panel \in [shown : Jobs \cup {Nil}, asked : SUBSET Jobs, seeks : Starts \cup {Nil}]
  /\ disturbed \in BOOLEAN

Init ==
  /\ setting \in Settings
  /\ files = [lock |-> Nil, latest |-> Nil, boot |-> Nil]
  /\ jobs = [s \in Starts |-> Nil]
  /\ tree = [head |-> "from", dirty |-> FALSE, mods |-> "from", edits |-> 0]
  /\ plugin = [boot |-> 1, code |-> "from", asked |-> TRUE]
  /\ report = Nil
  /\ start = [s \in Starts |-> [pc |-> "idle", held |-> Nil, boot |-> 0]]
  /\ runner = [s \in Starts |-> [pc |-> "none", first |-> Nil, job |-> Nil]]
  /\ panel = [shown |-> Nil, asked |-> {}, seeks |-> Nil]
  /\ disturbed = FALSE

-----------------------------------------------------------------------------
(* The files. *)

\* A panel is open.
Panel == setting.inFlight > 0

IsActive(j) == j # Nil /\ j.state \in Active
PidAlive(pid) == pid = plugin.boot

\* A bug: whatever its job does, a lock whose process is gone is stale.
GoneIsStale(l) == (jobs[l.job] # Nil /\ jobs[l.job].state \in Ended) \/ ~PidAlive(l.pid)

\* A lock is stale when its job has ended, or when the job never got going and
\* the process that took the lock is gone.
StaleLock(l) ==
  LET j == jobs[l.job] IN
  \/ j # Nil /\ j.state \in Ended
  \/ (j = Nil \/ j.state = "queued") /\ ~PidAlive(l.pid)

StartAt(s, l) == start[s].pc = l
StartTo(s, l) == start' = [start EXCEPT ![s].pc = l]
RunsAt(s, l) == runner[s].pc = l

\* unlock reads the lock first and removes the file then; a lock of another
\* job is left alone.
MayUnlock(j) == files.lock = Nil \/ files.lock.job = j
RemoveLock(j) ==
  /\ files' = [files EXCEPT !.lock = Nil]
  /\ disturbed' = (disturbed \/ ~MayUnlock(j))

\* Creating the lock file fails when it is there.
TryLock(s) ==
  /\ files.lock = Nil
  /\ files' = [files EXCEPT !.lock = [job |-> s, pid |-> plugin.boot]]

\* A bug: the job begins in a phase no update is in.
NewJobIsQueued(s) ==
  [id |-> s, at |-> Cardinality({t \in Starts : jobs[t] # Nil}), state |-> "queued",
   phase |-> "queued", seq |-> 0]

\* A job bears the time of its start.
NewJob(s) ==
  [id |-> s, at |-> Cardinality({t \in Starts : jobs[t] # Nil}), state |-> "queued",
   phase |-> "preflight", seq |-> 0]

-----------------------------------------------------------------------------
(* update.start, in the plugin process. *)

\* The request is not known yet (one that is gets its job as the answer), and
\* the installation is still the one that was checked.  The panel sends a start
\* only while it shows no active job; other windows send theirs.
Begin(s) ==
  /\ StartAt(s, "idle") /\ s \in setting.starts
  /\ start' = [start EXCEPT ![s] =
       [pc |-> IF tree.head = "from" THEN "look" ELSE "refused", held |-> Nil,
        boot |-> plugin.boot]]
  /\ panel' = [panel EXCEPT !.seeks =
       IF Panel /\ panel.seeks = Nil /\ ~IsActive(panel.shown) THEN s ELSE @]
  /\ UNCHANGED <<setting, files, jobs, tree, plugin, report, runner, disturbed>>

\* A lock that holds refuses the start, a stale one is removed first.  The
\* job of a dead process may have a runner that has not written yet.
LookAtLock(s) ==
  /\ StartAt(s, "look")
  /\ start' = [start EXCEPT ![s].pc = IF files.lock = Nil THEN "acquire"
                                      ELSE IF StaleLock(files.lock) THEN "reclaim" ELSE "refused",
                            ![s].held = IF files.lock = Nil THEN Nil ELSE files.lock.job]
  /\ disturbed' = (disturbed \/ (start'[s].pc = "reclaim" /\ RunsAt(files.lock.job, "read")))
  /\ UNCHANGED <<setting, files, jobs, tree, plugin, report, runner, panel>>

Reclaim(s) ==
  /\ StartAt(s, "reclaim")
  /\ StartTo(s, IF MayUnlock(start[s].held) THEN "reclaimRemove" ELSE "acquire")
  /\ UNCHANGED <<setting, files, jobs, tree, plugin, report, runner, panel, disturbed>>

ReclaimRemove(s) ==
  /\ StartAt(s, "reclaimRemove")
  /\ RemoveLock(start[s].held)
  /\ StartTo(s, "acquire")
  /\ UNCHANGED <<setting, jobs, tree, plugin, report, runner, panel>>

Acquire(s) ==
  /\ StartAt(s, "acquire")
  /\ \/ TryLock(s) /\ StartTo(s, "write")
     \/ files.lock # Nil /\ StartTo(s, "refused") /\ UNCHANGED files
  /\ UNCHANGED <<setting, jobs, tree, plugin, report, runner, panel, disturbed>>

WriteJob(s) ==
  /\ StartAt(s, "write")
  /\ jobs' = [jobs EXCEPT ![s] = NewJob(s)]
  /\ StartTo(s, "remember")
  /\ UNCHANGED <<setting, files, tree, plugin, report, runner, panel, disturbed>>

RememberRequest(s) ==
  /\ StartAt(s, "remember")
  /\ files' = [files EXCEPT !.latest = s]
  /\ StartTo(s, "spawn")
  /\ UNCHANGED <<setting, jobs, tree, plugin, report, runner, panel, disturbed>>

\* The runner is copied out of the plugin, tries itself and is spawned
\* detached: it outlives the plugin process.
SpawnRunner(s) ==
  /\ StartAt(s, "spawn")
  /\ runner' = [runner EXCEPT ![s].pc = "read"]
  /\ StartTo(s, "accepted")
  /\ UNCHANGED <<setting, files, jobs, tree, plugin, report, panel, disturbed>>

\* failStart: the job ends as blocked, and then the lock is given back.
SpawnFails(s) ==
  /\ StartAt(s, "spawn")
  /\ jobs' = [jobs EXCEPT ![s].state = "blocked", ![s].phase = "done", ![s].seq = @ + 1]
  /\ StartTo(s, "giveUp")
  /\ UNCHANGED <<setting, files, tree, plugin, report, runner, panel, disturbed>>

GiveUp(s) ==
  /\ StartAt(s, "giveUp")
  /\ StartTo(s, IF MayUnlock(s) THEN "giveUpRemove" ELSE "refused")
  /\ UNCHANGED <<setting, files, jobs, tree, plugin, report, runner, panel, disturbed>>

GiveUpRemove(s) ==
  /\ StartAt(s, "giveUpRemove")
  /\ RemoveLock(s)
  /\ StartTo(s, "refused")
  /\ UNCHANGED <<setting, jobs, tree, plugin, report, runner, panel>>

-----------------------------------------------------------------------------
(* The plugin process. *)

InProgress == StartSteps \ {"idle", "accepted", "refused", "lost", "closed"}

\* A restart loads what is on disk.  The calls in progress end with the old
\* process; a boot record it was writing may still be written.
Restarted(commit) ==
  /\ plugin.boot < setting.boots
  /\ plugin' = [boot |-> plugin.boot + 1, code |-> commit, asked |-> FALSE]
  /\ start' = [s \in Starts |->
       IF start[s].pc \in InProgress THEN [start[s] EXCEPT !.pc = "lost"] ELSE start[s]]

PluginRestarts ==
  /\ Restarted(tree.head)
  /\ UNCHANGED <<setting, files, jobs, tree, report, runner, panel, disturbed>>

\* confirmPendingBoot: a reloaded plugin that finds the update of the lock at
\* one of the waiting phases reports the commit on disk.
ConfirmPendingBoot ==
  /\ ~plugin.asked /\ report = Nil
  /\ plugin' = [plugin EXCEPT !.asked = TRUE]
  /\ report' = IF /\ files.lock # Nil
                  /\ jobs[files.lock.job] # Nil
                  /\ jobs[files.lock.job].state = "running"
                  /\ jobs[files.lock.job].phase
                       \in {"reloading", "verifying_runtime", "rolling_back"}
               THEN [boot |-> plugin.boot, commit |-> tree.head] ELSE Nil
  /\ UNCHANGED <<setting, files, jobs, tree, start, runner, panel, disturbed>>

\* version.get reports as well: its process and the commit on disk, which need
\* not be the commit it runs.
GetReports ==
  /\ setting.gets /\ report = Nil
  /\ files.boot # [boot |-> plugin.boot, commit |-> tree.head]
  /\ report' = [boot |-> plugin.boot, commit |-> tree.head]
  /\ UNCHANGED <<setting, files, jobs, tree, plugin, start, runner, panel, disturbed>>

WriteBoot ==
  /\ report # Nil
  /\ files' = [files EXCEPT !.boot = report]
  /\ report' = Nil
  /\ UNCHANGED <<setting, jobs, tree, plugin, start, runner, panel, disturbed>>

\* The user commits in the checkout or edits a file of it, or undoes the edit.
UserChanges ==
  /\ tree.edits < setting.edits
  /\ \/ tree' = [tree EXCEPT !.head = "own", !.edits = @ + 1]
     \/ tree' = [tree EXCEPT !.dirty = ~tree.dirty, !.edits = @ + 1]
  /\ disturbed' = TRUE
  /\ UNCHANGED <<setting, files, jobs, plugin, report, start, runner, panel>>

-----------------------------------------------------------------------------
(* The runner. *)

\* A bug: the seq stays.
WrittenAgain(job, state, phase) == [job EXCEPT !.state = state, !.phase = phase]

\* A status is written from the runner's own copy of the job.
Written(job, state, phase) ==
  [job EXCEPT !.state = state, !.phase = phase, !.seq = @ + 1]

RunnerTo(s, l, state, phase) ==
  LET job == Written(runner[s].job, state, phase) IN
  /\ jobs' = [jobs EXCEPT ![s] = job]
  /\ files' = [files EXCEPT !.latest = s]
  /\ runner' = [runner EXCEPT ![s].pc = l, ![s].job = job]

GoOn(s, l, phase) == RunnerTo(s, l, "running", phase)
Stop(s, state, phase) == RunnerTo(s, "unlock", state, phase)
\* A job that is held keeps the lock.
Hold(s) == RunnerTo(s, "held", "recovery_required", "reconciling")

RunnerStarts(s) ==
  /\ RunsAt(s, "read")
  /\ LET job == Written(jobs[s], "running",
                        IF setting.mode = "managed" THEN "applying_managed" ELSE "preflight") IN
     /\ jobs' = [jobs EXCEPT ![s] = job]
     /\ files' = [files EXCEPT !.latest = s]
     /\ runner' = [runner EXCEPT ![s] =
          [pc |-> IF setting.mode = "managed" THEN "apply" ELSE "preflight", first |-> jobs[s], job |-> job]]
  /\ UNCHANGED <<setting, tree, plugin, report, start, panel, disturbed>>

\* The checkout is clean, on its branch and at the commit that was checked.
DirectoryPreflight == ~tree.dirty /\ tree.head = "from"

Preflight(s) ==
  /\ RunsAt(s, "preflight")
  /\ IF DirectoryPreflight THEN GoOn(s, "fetch", "fetching")
                           ELSE Stop(s, "blocked", "preflight")
  /\ UNCHANGED <<setting, tree, plugin, report, start, panel, disturbed>>

Fetch(s) ==
  /\ RunsAt(s, "fetch")
  /\ \/ GoOn(s, "verifyTarget", "verifying_target")
     \/ Stop(s, "failed", "fetching")
  /\ UNCHANGED <<setting, tree, plugin, report, start, panel, disturbed>>

\* The fetched commit may be another by now, or not follow the installed one.
VerifyTarget(s) ==
  /\ RunsAt(s, "verifyTarget")
  /\ \/ Stop(s, "failed", "verifying_target")
     \/ ~DirectoryPreflight /\ Stop(s, "blocked", "verifying_target")
     \/ DirectoryPreflight /\ GoOn(s, "merge", "fast_forwarding")
  /\ UNCHANGED <<setting, tree, plugin, report, start, panel, disturbed>>

\* merge --ff-only.  A merge killed after it moved the branch counts as failed.
Merge(s) ==
  /\ RunsAt(s, "merge")
  /\ \/ /\ tree.head = "from"
        /\ tree' = [tree EXCEPT !.head = "target"]
        /\ GoOn(s, "install", "installing")
        /\ UNCHANGED disturbed
     \/ /\ tree.head = "from"
        /\ tree' = [tree EXCEPT !.head = "target"]
        /\ Stop(s, "failed", "fast_forwarding")
        /\ disturbed' = TRUE
     \/ Stop(s, "failed", "fast_forwarding") /\ UNCHANGED <<tree, disturbed>>
  /\ UNCHANGED <<setting, plugin, report, start, panel>>

\* npm ci removes the modules before it installs those of the commit.
NpmCi(ok) == tree' = [tree EXCEPT !.mods = IF ok THEN tree.head ELSE "broken"]

Rollback(s) == GoOn(s, "look", "rolling_back")

\* A bug: an install that fails ends the update without a rollback.
InstallOrStop(s) ==
  /\ RunsAt(s, "install")
  /\ \/ NpmCi(TRUE) /\ GoOn(s, "reload", "reloading")
     \/ NpmCi(FALSE) /\ Stop(s, "failed", "installing")
  /\ UNCHANGED <<setting, plugin, report, start, panel, disturbed>>

Install(s) ==
  /\ RunsAt(s, "install")
  /\ \/ NpmCi(TRUE) /\ GoOn(s, "reload", "reloading")
     \/ NpmCi(FALSE) /\ Rollback(s)
  /\ UNCHANGED <<setting, plugin, report, start, panel, disturbed>>

\* plugin reload; one reported as failed may have restarted the plugin.
Reload(s, from, next, phase, otherwise) ==
  /\ RunsAt(s, from)
  /\ \/ Restarted(tree.head) /\ (GoOn(s, next, phase) \/ otherwise)
     \/ otherwise /\ UNCHANGED <<plugin, start>>
  /\ UNCHANGED <<setting, tree, report, panel, disturbed>>

ReloadNew(s) == Reload(s, "reload", "verify", "verifying_runtime", Rollback(s))
ReloadOld(s) == Reload(s, "reloadBack", "verifyBack", "rolling_back", Hold(s))

\* Another process than the one that began has reported the commit, it runs,
\* and the branch is there; or 90 seconds have passed.
RuntimeConfirmed(s, commit, expectHead) ==
  /\ files.boot # Nil
  /\ files.boot.boot # start[s].boot /\ files.boot.commit = commit
  /\ expectHead => tree.head = commit

VerifyRuntime(s) ==
  /\ \/ RunsAt(s, "verify") /\ RuntimeConfirmed(s, "target", TRUE) /\ Stop(s, "succeeded", "done")
     \/ RunsAt(s, "verify") /\ Rollback(s)
     \/ RunsAt(s, "verifyManaged") /\ RuntimeConfirmed(s, "target", FALSE)
        /\ Stop(s, "succeeded", "done")
     \/ RunsAt(s, "verifyManaged") /\ Hold(s)
     \/ RunsAt(s, "verifyBack") /\ RuntimeConfirmed(s, "from", TRUE) /\ Stop(s, "rolled_back", "done")
     \/ RunsAt(s, "verifyBack") /\ Hold(s)
  /\ UNCHANGED <<setting, tree, plugin, report, start, panel, disturbed>>

\* The rollback leaves a checkout alone that is not as the update left it.
RollbackLook(s) ==
  /\ RunsAt(s, "look")
  /\ IF tree.head = "target" /\ ~tree.dirty
     THEN runner' = [runner EXCEPT ![s].pc = "reset"] /\ UNCHANGED <<jobs, files>>
     ELSE Hold(s)
  /\ UNCHANGED <<setting, tree, plugin, report, start, panel, disturbed>>

\* reset --keep moves the branch back and keeps edits; it may refuse over them.
Reset(s) ==
  /\ RunsAt(s, "reset")
  /\ \/ /\ tree' = [tree EXCEPT !.head = "from"]
        /\ runner' = [runner EXCEPT ![s].pc = "reinstall"] /\ UNCHANGED <<jobs, files>>
     \/ Hold(s) /\ UNCHANGED tree
  /\ UNCHANGED <<setting, plugin, report, start, panel, disturbed>>

Reinstall(s) ==
  /\ RunsAt(s, "reinstall")
  /\ \/ NpmCi(TRUE) /\ runner' = [runner EXCEPT ![s].pc = "reloadBack"] /\ UNCHANGED <<jobs, files>>
     \/ NpmCi(FALSE) /\ Hold(s)
  /\ UNCHANGED <<setting, plugin, report, start, panel, disturbed>>

\* A managed install is updated by the host, which restarts the plugin.  When
\* it reports a failure and still runs the old revision nothing happened.
ApplyManaged(s) ==
  /\ RunsAt(s, "apply")
  /\ \/ /\ tree' = [tree EXCEPT !.head = "target", !.mods = "target"]
        /\ Restarted("target")
        /\ (GoOn(s, "verifyManaged", "verifying_runtime") \/ Hold(s))
     \/ /\ UNCHANGED <<tree, plugin, start>>
        /\ IF tree.head = "from" THEN Stop(s, "rolled_back", "done") ELSE Hold(s)
  /\ UNCHANGED <<setting, report, panel, disturbed>>

\* The end of a runner: its unlock reads the lock file, then removes it.
RunnerUnlocks(s) ==
  /\ \/ /\ RunsAt(s, "unlock")
        /\ runner' = [runner EXCEPT ![s].pc =
             IF files.lock # Nil /\ files.lock.job = s THEN "unlockRemove" ELSE "gone"]
        /\ UNCHANGED <<files, disturbed>>
     \/ /\ RunsAt(s, "unlockRemove")
        /\ runner' = [runner EXCEPT ![s].pc = "gone"]
        /\ RemoveLock(s)
  /\ UNCHANGED <<setting, jobs, tree, plugin, report, start, panel>>

\* A step that throws (a status that cannot be written, say) ends the runner
\* with a status made from the job as the runner first read it.
RunnerThrows(s) ==
  /\ runner[s].pc \in Working \ {"read"}
  /\ jobs' = [jobs EXCEPT ![s] = Written(runner[s].first, "recovery_required", "reconciling")]
  /\ files' = [files EXCEPT !.latest = s]
  /\ runner' = [runner EXCEPT ![s].pc = "threw"]
  /\ UNCHANGED <<setting, tree, plugin, report, start, panel, disturbed>>

RunnerDies(s) ==
  /\ runner[s].pc \in Working \cup {"unlock", "unlockRemove"}
  /\ runner' = [runner EXCEPT ![s].pc = "dead"]
  /\ UNCHANGED <<setting, files, jobs, tree, plugin, report, start, panel, disturbed>>

-----------------------------------------------------------------------------
(* The panel. *)

\* A snapshot of the job shown is adopted when its seq is higher and it does
\* not revive an ended job; a snapshot of another when that started later.
AdoptJob(cur, next) ==
  IF next = Nil THEN cur
  ELSE IF cur = Nil THEN next
  ELSE IF cur.id = next.id
  THEN IF next.seq > cur.seq /\ ~(~IsActive(cur) /\ IsActive(next)) THEN next ELSE cur
  ELSE IF next.at > cur.at THEN next ELSE cur

\* The panel polls the job it shows while it is active; a panel that has none,
\* or one that has ended, asks for the latest when it is refreshed.
Poll ==
  /\ Cardinality(panel.asked) < setting.inFlight
  /\ LET id == IF IsActive(panel.shown) THEN panel.shown.id ELSE files.latest IN
     /\ id # Nil
     /\ jobs[id] # panel.shown
     /\ panel' = [panel EXCEPT !.asked = @ \cup {jobs[id]}]
  /\ UNCHANGED <<setting, files, jobs, tree, plugin, report, start, runner, disturbed>>

\* Answers arrive in any order.
Adopt(j) ==
  /\ panel' = [panel EXCEPT !.asked = @ \ {j}, !.shown = AdoptJob(panel.shown, j)]
  /\ UNCHANGED <<setting, files, jobs, tree, plugin, report, start, runner, disturbed>>

\* The answer of a start arrives: the job as it was written first, or a refusal.
StartAnswered(s) ==
  /\ Panel /\ start[s].pc \in {"accepted", "refused"}
  /\ StartTo(s, "closed")
  /\ panel' = [panel EXCEPT
       !.seeks = IF @ = s THEN Nil ELSE @,
       !.shown = IF panel.seeks = s /\ jobs[s] # Nil
                 THEN AdoptJob(@, IF StartAt(s, "accepted")
                                  THEN [jobs[s] EXCEPT !.state = "queued", !.phase = "preflight",
                                                       !.seq = 0]
                                  ELSE jobs[s])
                 ELSE @]
  /\ UNCHANGED <<setting, files, jobs, tree, plugin, report, runner, disturbed>>

\* The answer is lost with the connection.  The panel never sends the start
\* again: it asks for the latest job until that is the one, or 30 seconds pass.
StartAnswerLost(s) ==
  /\ Panel /\ start[s].pc \in {"accepted", "refused"}
  /\ StartTo(s, "lost")
  /\ UNCHANGED <<setting, files, jobs, tree, plugin, report, runner, panel, disturbed>>

Recover(s) ==
  /\ panel.seeks = s /\ StartAt(s, "lost")
  /\ \/ /\ files.latest = s
        /\ panel' = [panel EXCEPT !.seeks = Nil, !.shown = AdoptJob(@, jobs[s])]
     \/ panel' = [panel EXCEPT !.seeks = Nil]
  /\ UNCHANGED <<setting, files, jobs, tree, plugin, report, start, runner, disturbed>>

-----------------------------------------------------------------------------

StartMoves(s) ==
  \/ Begin(s) \/ LookAtLock(s) \/ Reclaim(s) \/ ReclaimRemove(s) \/ Acquire(s)
  \/ WriteJob(s) \/ RememberRequest(s) \/ SpawnRunner(s) \/ SpawnFails(s)
  \/ GiveUp(s) \/ GiveUpRemove(s)

RunnerMoves(s) ==
  \/ RunnerStarts(s) \/ Preflight(s) \/ Fetch(s) \/ VerifyTarget(s) \/ Merge(s) \/ Install(s)
  \/ ReloadNew(s) \/ ReloadOld(s) \/ VerifyRuntime(s) \/ RollbackLook(s) \/ Reset(s)
  \/ Reinstall(s) \/ ApplyManaged(s) \/ RunnerUnlocks(s)

Adopts == \E j \in panel.asked : Adopt(j)

Next ==
  \/ \E s \in Starts :
       \/ StartMoves(s) \/ RunnerMoves(s) \/ RunnerThrows(s) \/ RunnerDies(s)
       \/ StartAnswered(s) \/ StartAnswerLost(s) \/ Recover(s)
  \/ PluginRestarts \/ ConfirmPendingBoot \/ GetReports \/ WriteBoot
  \/ UserChanges \/ Poll \/ Adopts

\* Every command of the runner has a timeout, so a runner that lives goes on;
\* the panel asks every second.
Spec ==
  /\ Init /\ [][Next]_vars
  /\ \A s \in Starts : WF_vars(RunnerMoves(s)) /\ WF_vars(Recover(s))
  /\ WF_vars(Poll) /\ WF_vars(Adopts)

-----------------------------------------------------------------------------
(* Properties. *)

\* Two runners never work on one checkout, whatever starts overlap with each
\* other, with running updates and with restarts of the plugin; unless a lock
\* was removed that was not the lock looked at, or whose runner had been
\* spawned by a process that died before the runner wrote (the lock file,
\* service.ts beginUpdate and staleLock, runner.mjs stop and hold).
OneRunner ==
  disturbed \/ \A s, t \in Starts :
    runner[s].pc \in Working /\ runner[t].pc \in Working => s = t

Whole(commit) == tree'.head = commit /\ tree'.mods = commit /\ plugin'.code = commit

\* The last status of an update tells what is there: after a success the
\* branch, the modules and the running plugin are those of the target, after a
\* rollback those of the old commit, and an update that failed or was blocked
\* has moved nothing; provided nobody else changed the checkout and no merge
\* was killed after its effect (runner.mjs, the order of the steps and which
\* failure leads to a stop, a rollback or a hold).
EndTellsTheTruth ==
  [][\A s \in Starts :
       runner[s].pc \in Working /\ runner'[s].pc = "unlock" /\ ~disturbed' =>
         Whole(IF jobs'[s].state = "succeeded" THEN "target" ELSE "from")]_vars

\* A job whose runner has come to its end is not shown as active for ever: the
\* polls go on, and the order in which answers arrive cannot bring back an
\* older status (runner.mjs JobFile.write, view-model.ts adoptJobSnapshot,
\* use-version.ts).  A runner that threw is excepted: its last status bears a
\* seq the panel does not adopt.
EndIsShown ==
  \A s \in Starts :
    Panel /\ runner[s].pc \in {"gone", "held"} ~>
      ~(panel.shown # Nil /\ panel.shown.id = s /\ IsActive(panel.shown))
=============================================================================
