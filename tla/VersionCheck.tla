----------------------------- MODULE VersionCheck -----------------------------
(***************************************************************************)
(* The check for an update: what the plugin process finds out about the    *)
(* installation and its remote (server/version/service.ts, local-install,  *)
(* decide, pending), the update button the panel makes of it               *)
(* (view-model.ts), and what a start and the runner then ask of the same   *)
(* checkout (beginUpdate, runner.mjs directoryPreflight).                  *)
(*                                                                         *)
(* To count the pending commits a check may fetch the target into a        *)
(* private ref of its own, which bears the name of the check here.  The    *)
(* refs that may be left over are kept in a file; every check first        *)
(* records its own ref and removes those of earlier ones.                  *)
(***************************************************************************)
EXTENDS FiniteSets, Naturals

CONSTANTS Checks,   \* the calls of version.check
          Settings  \* the settings explored

\* A setting is an installation, and bounds: the checks that are made, how often
\* the plugin is restarted, and whether a check may run into its deadline.
VARIABLES
  setting,  \* the setting of this behaviour, never changed
  facts,    \* the installation and its remote; a fetch brings the target's objects
  refs,     \* the private refs in the repository
  file,     \* the refs recorded in pending-commits-refs.json
  check,    \* the calls: step, refs still to be removed, what was found
  press,    \* what became of the update the user started from a check
  crashes,
  spoiled   \* history: two checks overlapped, or the file could not be written
vars == <<setting, facts, refs, file, check, press, crashes, spoiled>>

Relations == {"equal", "behind", "ahead", "diverged", "unrelated"}

\* An installation.  known: the plugin found itself in the host's configuration;
\* layout: what its path says; record: what the host's sources.json says, with
\* a registry or not.  upstream: the branch tracks the remote's default branch,
\* another one or none; HEAD is detached; busy: a merge, pick or rebase is in
\* progress; ahead and behind count the commits not on, and only on, the
\* upstream; relation is that of HEAD to the target, whose objects may be
\* present; package: what the remote's web side answers about its version.
Installations ==
  [known : BOOLEAN, layout : {"directory", "git", "npm", "invalid"},
   record : {"git", "npm", "absent", "unreadable"}, registry : BOOLEAN, cli : BOOLEAN,
   isGit : BOOLEAN, manifestTracked : BOOLEAN, dirty : BOOLEAN, busy : BOOLEAN,
   detached : BOOLEAN, upstream : {"default", "other", "none"}, ahead : BOOLEAN,
   behind : BOOLEAN, relation : Relations, present : BOOLEAN,
   remote : {"ok", "none", "refused", "fails"}, package : {"read", "missing", "refused"}]

NoInfo == [found |-> FALSE, relation |-> "unknown", updateAvailable |-> FALSE, canUpdate |-> FALSE]
Infos == [found : BOOLEAN, relation : Relations \cup {"unknown"}, updateAvailable : BOOLEAN,
          canUpdate : BOOLEAN]

Listing == {"readStale", "record", "clean", "probe", "remove", "writeBack"}
Steps == Listing \cup {"idle", "discover", "ended", "lost"}

TypeOK ==
  /\ facts \in Installations
  /\ refs \subseteq Checks /\ file \subseteq Checks
  /\ check \in [Checks -> [pc : Steps, stale : SUBSET Checks, info : Infos, late : BOOLEAN]]
  /\ press \in {"none", "refused", "blocked", "passed", "managed"}
  /\ crashes \in 0..setting.restarts /\ spoiled \in BOOLEAN

Init ==
  /\ setting \in Settings /\ facts = setting.facts
  /\ refs = {} /\ file = {}
  /\ check = [c \in Checks |-> [pc |-> "idle", stale |-> {}, info |-> NoInfo, late |-> FALSE]]
  /\ press = "none" /\ crashes = 0 /\ spoiled = FALSE

-----------------------------------------------------------------------------
(* What a check finds. *)

\* installSourceFor: the path and the record must agree.  Without a home, a
\* configured path and the plugin's own manifest there nothing is known.
Source(f) ==
  CASE ~f.known -> "unknown"
    [] f.known /\ f.layout = "git" /\ f.record = "git" -> "git"
    [] f.known /\ f.layout = "npm" /\ f.record \in {"npm", "absent"} -> "npm"
    [] f.known /\ f.layout = "directory" /\ f.record \in {"absent", "unreadable"} -> "directory"
    [] OTHER -> "unknown"

\* What can be checked, but not applied by the plugin.
Foreign(f) == Source(f) = "npm" \/ (Source(f) = "git" /\ f.registry)

Checkout(f) == f.known /\ f.layout = "directory" /\ f.isGit
OnBranch(f) == Checkout(f) /\ ~f.detached

If(on, code) == IF on THEN {code} ELSE {}

\* inspectCheckout: what stands against an update of the user's own checkout.
CheckoutBlockers(f) ==
  UNION {
    If(f.known /\ f.layout = "directory" /\ ~f.isGit, "not_git"),
    If(Checkout(f) /\ f.busy, "repository_busy"),
    If(Checkout(f) /\ f.dirty, "dirty"),
    If(Checkout(f) /\ f.detached, "detached_head"),
    If(OnBranch(f) /\ f.upstream = "none", "no_upstream"),
    If(OnBranch(f) /\ f.upstream # "none" /\ f.ahead, IF f.behind THEN "diverged" ELSE "local_ahead"),
    If(Checkout(f) /\ ~f.manifestTracked, "unsupported_checkout")}

\* discover adds what it knows of the kind of installation.
Blockers(f) ==
  CheckoutBlockers(f)
    \cup If(Source(f) = "unknown", "installation_identity_unknown")
    \cup If(Foreign(f), "unsupported_checkout")

\* A detached HEAD, and an installation by the host, track nothing.
TrackingReview(f) ==
  If(Source(f) = "directory" /\ OnBranch(f) /\ f.upstream # "default", "branch_mismatch")

\* A managed install has no repository to ask.
Relate(f) ==
  IF f.relation = "equal" THEN "equal"
  ELSE IF Checkout(f) /\ f.present THEN f.relation
  ELSE "unknown"

\* decideUpdate; every blocker that is found here blocks the update.
Decide(f, relation, blockers) ==
  LET none == Source(f) = "unknown" \/ Foreign(f)
              \/ relation \in {"equal", "ahead", "diverged", "unrelated"} IN
  [found |-> TRUE, relation |-> relation, updateAvailable |-> ~none,
   canUpdate |-> ~none /\ f.cli /\ blockers = {}]

\* No remote to look at: nothing is saved, an update cannot be started from it.
Remoteless(f) ==
  \/ Source(f) = "unknown" \/ Foreign(f)
  \/ (Source(f) = "directory" /\ ~f.isGit) \/ f.remote = "none"

\* packageVersionAt: what the web side does not have, git shows if it has it.
VersionRead(f) ==
  \/ f.package = "read"
  \/ f.package = "missing" /\ f.present

\* inspectRemote: the remote may be asked, has a release or a default branch,
\* and its package has a version; anything else ends the check.
TargetFound(f) == ~Remoteless(f) /\ f.remote = "ok" /\ VersionRead(f)

\* The button of a fresh check that ended well.
ButtonEnabled(f, info) ==
  /\ Source(f) # "unknown" /\ ~Foreign(f)
  /\ ~(Source(f) = "directory" /\ ~f.isGit)
  /\ info.found /\ info.updateAvailable /\ info.canUpdate

\* pending.ts canFetch.
CanFetch(f) ==
  /\ Source(f) = "directory" /\ OnBranch(f) /\ ~f.dirty /\ ~f.ahead /\ f.upstream = "default"

-----------------------------------------------------------------------------
(* The steps of a check. *)

At(c, l) == check[c].pc = l
InList(c) == check[c].pc \in Listing
Goto(c, l) == check' = [check EXCEPT ![c].pc = l]

\* A call that finds a check running answers with that one.  A check counts as
\* running once it knows the installation, until it ends or times out.
CheckStarts(c) ==
  /\ At(c, "idle") /\ c \in setting.checks
  /\ Goto(c, IF \E d \in Checks : InList(d) /\ ~check[d].late THEN "ended" ELSE "discover")
  /\ UNCHANGED <<setting, facts, refs, file, press, crashes, spoiled>>

\* discover and the first part of inspectRemote.  The list of commits is left
\* out when there is no time for it.
Discover(c) ==
  /\ At(c, "discover")
  /\ IF ~TargetFound(facts)
     THEN Goto(c, "ended")
     ELSE LET blockers == Blockers(facts) \cup TrackingReview(facts)
              info == Decide(facts, Relate(facts), blockers) IN
          \E l \in {"readStale", "ended"} :
            check' = [check EXCEPT ![c].pc = l, ![c].info = info]
  /\ UNCHANGED <<setting, facts, refs, file, press, crashes, spoiled>>

ReadStale(c) ==
  /\ At(c, "readStale")
  /\ check' = [check EXCEPT ![c].pc = "record", ![c].stale = file]
  /\ spoiled' = (spoiled \/ \E d \in Checks \ {c} : InList(d))
  /\ UNCHANGED <<setting, facts, refs, file, press, crashes>>

\* A write of the file that fails is ignored.
WriteStaleRefs(stale) ==
  \/ file' = stale /\ UNCHANGED spoiled
  \/ UNCHANGED file /\ spoiled' = TRUE

\* A bug: a ref is recorded only when its removal has failed.
RecordLater(c) ==
  /\ At(c, "record")
  /\ Goto(c, "clean") /\ UNCHANGED <<file, spoiled>>
  /\ UNCHANGED <<setting, facts, refs, press, crashes>>

\* The ref is recorded before it can exist.
Record(c) ==
  /\ At(c, "record")
  /\ WriteStaleRefs(check[c].stale \cup {c})
  /\ Goto(c, "clean")
  /\ UNCHANGED <<setting, facts, refs, press, crashes>>

\* cleanRefs: a ref counts as removed when it has been seen to be gone.
Clean(c) ==
  /\ At(c, "clean")
  /\ \E gone \in SUBSET check[c].stale : \E seen \in SUBSET gone :
       /\ refs' = refs \ gone
       /\ check' = [check EXCEPT ![c].pc = "probe", ![c].stale = @ \ seen]
  /\ UNCHANGED <<setting, facts, file, press, crashes, spoiled>>

\* The target is fetched when it is not there.  A fetch may fail, and may be
\* killed after its effect.
Probe(c) ==
  /\ At(c, "probe")
  /\ \/ Goto(c, "writeBack") /\ UNCHANGED <<facts, refs>>
     \/ /\ ~facts.present /\ CanFetch(facts)
        /\ \/ refs' = refs \cup {c} /\ facts' = [facts EXCEPT !.present = TRUE]
           \/ UNCHANGED <<facts, refs>>
        /\ Goto(c, "remove")
  /\ UNCHANGED <<setting, file, press, crashes, spoiled>>

Remove(c) ==
  /\ At(c, "remove")
  /\ \/ refs' = refs \ {c} /\ Goto(c, "writeBack")
     \/ \E gone \in SUBSET {c} :
          /\ refs' = refs \ gone
          /\ check' = [check EXCEPT ![c].pc = "writeBack", ![c].stale = @ \cup {c}]
  /\ UNCHANGED <<setting, facts, file, press, crashes, spoiled>>

WriteBack(c) ==
  /\ At(c, "writeBack")
  /\ WriteStaleRefs(check[c].stale)
  /\ Goto(c, "ended")
  /\ UNCHANGED <<setting, facts, refs, press, crashes>>

\* withDeadline: the call fails, its work goes on.
TimesOut(c) ==
  /\ setting.timeouts /\ InList(c) /\ ~check[c].late
  /\ check' = [check EXCEPT ![c].late = TRUE, ![c].info = NoInfo]
  /\ UNCHANGED <<setting, facts, refs, file, press, crashes, spoiled>>

Restart ==
  /\ crashes < setting.restarts /\ crashes' = crashes + 1
  /\ check' = [c \in Checks |->
       IF InList(c) \/ At(c, "discover") THEN [check[c] EXCEPT !.pc = "lost", !.info = NoInfo]
       ELSE check[c]]
  /\ UNCHANGED <<setting, facts, refs, file, press, spoiled>>

-----------------------------------------------------------------------------
(* The update that is started from a check. *)

\* What the runner asks of a checkout before it fetches.
DirectoryPreflight(f) ==
  /\ ~f.dirty /\ ~f.detached /\ f.upstream # "none"
  /\ f.present => f.relation = "behind"

\* beginUpdate looks at the check it was started from and for the command line;
\* npm is taken to be there.
Press(c) ==
  LET info == check[c].info IN
  /\ At(c, "ended") /\ press = "none"
  /\ ButtonEnabled(facts, info)
  /\ press' = IF ~info.canUpdate \/ ~info.updateAvailable \/ ~facts.cli THEN "refused"
              ELSE IF Source(facts) = "git" THEN "managed"
              ELSE IF DirectoryPreflight(facts) THEN "passed"
              ELSE "blocked"
  /\ UNCHANGED <<setting, facts, refs, file, check, crashes, spoiled>>

-----------------------------------------------------------------------------

Next ==
  \/ \E c \in Checks :
       \/ CheckStarts(c) \/ Discover(c) \/ ReadStale(c) \/ Record(c) \/ Clean(c)
       \/ Probe(c) \/ Remove(c) \/ WriteBack(c) \/ TimesOut(c) \/ Press(c)
  \/ Restart

Spec == Init /\ [][Next]_vars

-----------------------------------------------------------------------------
(* Properties. *)

\* An update button that is enabled keeps its promise: with the installation
\* unchanged the start is not refused and the runner's own look at the checkout
\* finds nothing against it, although the check, the button and the runner each
\* decide by conditions of their own (decideUpdate, updateButtonView,
\* beginUpdate, directoryPreflight).  Where the check could not relate HEAD to
\* the target, for want of its objects, the runner may still block.
ButtonMeansPreflight ==
  /\ press # "refused"
  /\ press = "blocked" => \E c \in Checks : check[c].info.relation = "unknown"

\* Whatever a restart, a failed removal or a timeout leaves in the repository
\* is on record for the next check to remove; unless two checks overlapped or
\* the record could not be written (inspectRemote, readPendingCommits).
RefsAreRecorded == spoiled \/ refs \subseteq file
=============================================================================
