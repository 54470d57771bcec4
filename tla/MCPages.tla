-------------------------------- MODULE MCPages --------------------------------
(***************************************************************************)
(* For TLC: what the pages of the plugin do.  The save of a design, the    *)
(* version check, the plans of the Teams page, the designer's card, the    *)
(* Roles with their presets, the checks of a design, and the rows of a     *)
(* Team.  They share no state here: a behaviour is one of one of them,     *)
(* chosen at the start, and the others stay as they are.                   *)
(***************************************************************************)
EXTENDS DesignSave, Sequences, TLC

CONSTANTS
  None, NoScope,
  Checks,                                               \* of VersionCheck
  Scopes, PlanDrafts, ChunkSize, MaxConcurrent,         \* of TeamPlan
  Snapshots, PlanSteps,
  Windows, RoleIds, Templates, MaxTasks, MaxFailures,   \* of Catalog
  PageHosts, Texts, RuleOff, Limit,                     \* of DesignStart
  MaxPresses, MaxMoves, MaxLosses,
  DesignCatalogs, DesignHosts,                          \* of DesignValidation
  Proposals, RoleEdits, MaxChanges

VARIABLES
  part,
  kSetting, kFacts, kRefs, kFile, kCheck, kPress, kCrashes, kSpoiled,
  client, plans, steps,
  page, card, starts, busy, designs, prefills, used, gone, applied,
  store, phase, task, done, history,
  catalog, host, maxMembers, existingRolesOnly, result, changes,
  sample

saveVars == vars
checkVars == <<kSetting, kFacts, kRefs, kFile, kCheck, kPress, kCrashes, kSpoiled>>
planVars == <<client, plans, steps>>
startVars == <<page, card, starts, busy, designs, prefills, used, gone, applied>>
catalogVars == <<store, phase, task, done, history>>
designVars == <<catalog, host, maxMembers, existingRolesOnly, result, changes>>

\* Pages and windows only differ in name.
PageSymmetry == Permutations(Pages) \cup Permutations(Windows)

-----------------------------------------------------------------------------
(* The version check. *)
Usual == [known |-> TRUE, layout |-> "directory", record |-> "absent", registry |-> FALSE,
          cli |-> TRUE, isGit |-> TRUE, manifestTracked |-> TRUE, dirty |-> FALSE,
          busy |-> FALSE, detached |-> FALSE,
          upstream |-> "default", ahead |-> FALSE, behind |-> TRUE, relation |-> "behind",
          present |-> FALSE, remote |-> "ok", package |-> "read"]
Related == {"equal", "behind", "ahead", "diverged", "unrelated"}
\* Every checkout, one check each, and every other way to install the plugin.
Checkouts ==
  [known : {TRUE}, layout : {"directory"}, record : {"absent"}, registry : {FALSE},
   cli : BOOLEAN, isGit : {TRUE}, manifestTracked : BOOLEAN, dirty : BOOLEAN,
   busy : BOOLEAN, detached : BOOLEAN,
   upstream : {"default", "other", "none"}, ahead : BOOLEAN, behind : {TRUE}, relation : Related,
   present : BOOLEAN, remote : {"ok"}, package : {"read"}]
Others ==
  [known : BOOLEAN, layout : {"directory", "git", "npm", "invalid"},
   record : {"git", "npm", "absent", "unreadable"}, registry : BOOLEAN,
   cli : {TRUE}, isGit : {FALSE}, manifestTracked : {TRUE}, dirty : {FALSE},
   busy : {FALSE}, detached : {FALSE},
   upstream : {"default"}, ahead : {FALSE}, behind : {TRUE}, relation : Related,
   present : {FALSE}, remote : {"ok", "none", "refused", "fails"}, package : {"read"}]
Unread ==
  [known : {TRUE}, layout : {"directory"}, record : {"absent", "unreadable"}, registry : {FALSE},
   cli : {TRUE}, isGit : {TRUE}, manifestTracked : {TRUE}, dirty : {FALSE},
   busy : {FALSE}, detached : {FALSE},
   upstream : {"default"}, ahead : {FALSE}, behind : {TRUE}, relation : Related,
   present : BOOLEAN, remote : {"ok"}, package : {"missing", "refused"}]
\* Where HEAD is the target its objects are there; the host keeps the remote of
\* a managed install.
Real(f) ==
  /\ f.relation = "equal" /\ f.layout = "directory" /\ f.isGit => f.present
  /\ f.record = "git" /\ f.layout = "git" => f.remote # "none"
  /\ f.registry => f.record \in {"git", "npm"}
Once(f) == [facts |-> f, checks |-> {CHOOSE k \in Checks : TRUE}, restarts |-> 0, timeouts |-> FALSE]
\* Two checks of the usual checkout that follow or overlap each other, and two
\* that may run into their deadline.
Often == [facts |-> Usual, checks |-> Checks, restarts |-> 1, timeouts |-> FALSE]
Slow == [Often EXCEPT !.timeouts = TRUE]
Installations ==
  {Once(f) : f \in {g \in Checkouts \cup Others \cup Unread : Real(g)}} \cup {Often, Slow}

Checking == INSTANCE VersionCheck WITH
  Settings <- Installations,
  setting <- kSetting, facts <- kFacts, refs <- kRefs, file <- kFile, check <- kCheck,
  press <- kPress, crashes <- kCrashes, spoiled <- kSpoiled

-----------------------------------------------------------------------------
(* The plans of the Teams page: for TLC three scopes, the last one of        *)
(* another host.                                                             *)
MCScopes == {[host |-> 1, teams |-> 3, rev |-> 1], [host |-> 1, teams |-> 0, rev |-> 2],
             [host |-> 2, teams |-> 2, rev |-> 1]}
Plans == INSTANCE TeamPlan WITH
  page <- plans, Drafts <- PlanDrafts, MaxSteps <- PlanSteps

\* A scope is a record, a plan is asked for one Team at least, and None and
\* NoScope are none of what they stand beside: None may be among the contexts.
ASSUME PlanAssumption ==
  /\ Scopes \subseteq [host : Nat, teams : Nat, rev : Nat] /\ NoScope \notin Scopes
  /\ ChunkSize \in Nat \ {0} /\ MaxConcurrent \in Nat
  /\ None \notin PlanDrafts
  /\ None \notin [epoch : Nat, seq : Nat]

-----------------------------------------------------------------------------
(* The designer's card: two hosts, two tasks, one job at a time. *)
Starting == INSTANCE DesignStart WITH spent <- used

-----------------------------------------------------------------------------
(* The Roles: a preset and a Role of the user, two windows. *)
Presets == INSTANCE Catalog

\* The default presets are among the Roles; None is none of the records of DesignStart.
ASSUME CatalogAssumption == Templates \subseteq RoleIds
ASSUME StartAssumption ==
  /\ Limit \in Nat
  /\ None \notin Starting!StartCalls /\ None \notin Starting!Pendings
  /\ None \notin Starting!Retries /\ None \notin Starting!Lasts

-----------------------------------------------------------------------------
(* A design: for TLC Roles that lead and develop, a new Role, and what may   *)
(* become of them and of the host after the proposal.                        *)
R(name, text, preferred, fallback, enabled) ==
  [name |-> name, text |-> text, preferred |-> preferred, fallback |-> fallback,
   enabled |-> enabled, origin |-> None, retired |-> FALSE]
MCCatalogs ==
  { [lead |-> R("Lead", 1, <<"p">>, <<"q">>, TRUE), dev |-> R("Dev", 1, <<"q">>, <<>>, TRUE)],
    [lead |-> R("Lead", 1, <<"q">>, <<"p">>, TRUE), dev |-> R("Dev", 1, <<"p">>, <<"q">>, FALSE)] }
NewRole == [new |-> [name |-> "New", text |-> 1, preferred |-> <<"p">>, fallback |-> <<"q">>]]
OneMember(role) == <<[role |-> role, label |-> None]>>
MCProposals ==
  { [roles |-> NewRole, coordinator |-> "lead", members |-> OneMember("new")],
    [roles |-> NewRole, coordinator |-> "new",
     members |-> <<[role |-> "dev", label |-> 1], [role |-> "dev", label |-> 2]>>],
    [roles |-> [id \in {} |-> None], coordinator |-> "lead", members |-> OneMember("dev")] }
MCRoleEdits ==
  [lead |-> {R("Lead", 2, <<"p">>, <<"q">>, TRUE), R("New", 1, <<"p">>, <<"q">>, TRUE)},
   dev |-> {R("Dev", 1, <<"q">>, <<>>, FALSE), R("Dev", 1, <<"p">>, <<"q">>, TRUE)},
   new |-> {R("New", 1, <<"q">>, <<"p">>, TRUE), R("Other", 1, <<"p">>, <<"q">>, TRUE)}]
Both == [p |-> [provider |-> "v", setup |-> 1], q |-> [provider |-> "w", setup |-> 1]]
Full == [ready |-> TRUE, profiles |-> Both, available |-> [v |-> TRUE, w |-> TRUE], tools |-> TRUE]
MCHosts ==
  { Full, [Full EXCEPT !.ready = FALSE], [Full EXCEPT !.tools = FALSE],
    [Full EXCEPT !.available["v"] = FALSE],
    [Full EXCEPT !.available = [v |-> FALSE]],
    [Full EXCEPT !.profiles = [q |-> Both.q], !.available["w"] = FALSE] }

Design == INSTANCE DesignValidation WITH
  Catalogs <- DesignCatalogs, Hosts <- DesignHosts, roles <- catalog

\* A proposal names its members in a list; None is no seat id.
ASSUME DesignAssumption ==
  /\ \A p \in Proposals : p.members \in Seq(Design!RangeOf(p.members))
  /\ \A i \in 1..Design!MaxRuntimeMembers : <<"seat", i>> # None

-----------------------------------------------------------------------------
(* Teams, Roles and hosts for the pure functions. *)
Teams == INSTANCE TeamModel

Bound(p) == [preferred |-> <<p>>, fallback |-> <<"spare">>, enabled |-> TRUE, text |-> 1]
Host ==
  [ready |-> TRUE, available |-> [P |-> TRUE], tools |-> TRUE,
   profiles |-> [fast |-> [provider |-> "P", setup |-> 1], spare |-> [provider |-> "Q", setup |-> 1]]]

Seats == {None, <<1>>, <<2>>, <<1, 2>>, <<2, 2>>}
SeatMembers == [role : {"dev"}, seat : Seats, label : {1}, enabled : BOOLEAN]
TeamOf(members) == [coordinator |-> "lead", members |-> members, creation |-> None, text |-> 1]
SeatTeams == {TeamOf(ms) : ms \in [1..3 -> SeatMembers] \cup [1..2 -> SeatMembers]}

PlanMembers == [role : {"dev", "qa", "gone"}, seat : {None}, label : {None, 1}, enabled : BOOLEAN]
PlanTeams ==
  {[TeamOf(ms) EXCEPT !.coordinator = c, !.creation = o] :
     ms \in UNION {[1..n -> PlanMembers] : n \in 0..2}, c \in {"lead", "gone"},
     o \in {None, "on-demand", "other"}}
PlanRoles == [lead |-> Bound("fast"), dev |-> Bound("fast"), qa |-> [Bound("none") EXCEPT !.fallback = <<>>]]
PlanHosts ==
  {Host, [Host EXCEPT !.ready = FALSE], [Host EXCEPT !.tools = FALSE],
   [Host EXCEPT !.available["P"] = FALSE]}

Samples ==
  {[team |-> t, host |-> Host, max |-> 4] : t \in SeatTeams}
  \cup [team : PlanTeams, host : PlanHosts, max : {1, 4}]

-----------------------------------------------------------------------------
PagesInit ==
  /\ part \in {"save", "check", "plans", "start", "catalog", "design", "rows"}
  /\ Init /\ (part # "save" => pc = [p \in Pages |-> "idle"])
  /\ Checking!Init /\ (part # "check" => kSetting = Often)
  /\ Plans!Init /\ Starting!Init /\ Presets!Init
  \* The hosts only differ in name.
  /\ page.host = CHOOSE h \in PageHosts : TRUE
  /\ Design!Init
  /\ part # "design" => catalog = CHOOSE c \in DesignCatalogs : TRUE
  /\ part # "design" => host = (CHOOSE h \in DesignHosts : TRUE) /\ maxMembers = 1 /\ existingRolesOnly
  /\ sample \in IF part = "rows" THEN Samples ELSE {None}

PagesNext ==
  /\ UNCHANGED <<part, sample>>
  /\ \/ /\ part = "save" /\ Next
        /\ UNCHANGED <<checkVars, planVars, startVars, catalogVars, designVars>>
     \/ /\ part = "check" /\ Checking!Next
        /\ UNCHANGED <<saveVars, planVars, startVars, catalogVars, designVars>>
     \/ /\ part = "plans" /\ Plans!Next
        /\ UNCHANGED <<saveVars, checkVars, startVars, catalogVars, designVars>>
     \/ /\ part = "start" /\ Starting!Next
        /\ UNCHANGED <<saveVars, checkVars, planVars, catalogVars, designVars>>
     \/ /\ part = "catalog" /\ Presets!Next
        /\ UNCHANGED <<saveVars, checkVars, planVars, startVars, designVars>>
     \/ /\ part = "design" /\ Design!Next
        /\ UNCHANGED <<saveVars, checkVars, planVars, startVars, catalogVars>>

PagesSpec ==
  PagesInit
  /\ [][PagesNext]_<<part, saveVars, checkVars, planVars, startVars, catalogVars, designVars, sample>>

-----------------------------------------------------------------------------
(* The properties of the parts. *)
\* Every part's variables have their types.
Typed ==
  CASE part = "save" -> TypeOK
    [] part = "check" -> Checking!TypeOK
    [] part = "plans" -> Plans!TypeOK
    [] part = "start" -> Starting!StartTypeOK
    [] part = "catalog" -> Presets!CatalogTypeOK
    [] part = "design" -> Design!DesignTypeOK
    [] part = "rows" -> sample # None

\* ButtonMeansPreflight and RefsAreRecorded of VersionCheck: the panel offers the
\* update that the start will allow, and a private ref is not forgotten.
CheckSound == part = "check" => Checking!ButtonMeansPreflight /\ Checking!RefsAreRecorded

\* PlansAreCurrent, DraftIsUnderWay and RefreshIsOpen of TeamPlan: what the Teams
\* page shows is planned for what it shows it for, and is not left to wait.
PlanPageSound ==
  part = "plans" => Plans!PlansAreCurrent /\ Plans!DraftIsUnderWay /\ Plans!RefreshIsOpen

\* OneJobPerAsk, DraftsAreJobs, PrefillsAtHome and AdmissionHolds of DesignStart: a
\* task is designed once, on its own host, and no draft is lost on the way.
DesignStartSound ==
  part = "start" => /\ Starting!OneJobPerAsk /\ Starting!DraftsAreJobs
                    /\ Starting!PrefillsAtHome /\ Starting!AdmissionHolds

\* NothingIsLost, SeenIsHonest and ImportStaysDone of Catalog: no window writes
\* over what it has not seen, and what the user did to the presets stays done.
CatalogSound ==
  part = "catalog" => Presets!NothingIsLost /\ Presets!SeenIsHonest /\ Presets!ImportStaysDone

\* The properties of DesignValidation: what the checks of a design let through is
\* what was designed, and it goes through as often as it is tried.
DesignSound ==
  part = "design" => /\ Design!SaveCanBeRetried /\ Design!SavedIsAsDesigned
                     /\ Design!MergeAgrees /\ Design!NewNamesAreFree /\ Design!GapIsReal

\* SeatIdsAgree, RowKeysUnique and PanelAgreesWithLaunch of TeamModel: the rows of
\* the panel are those of the launch, for every sample of a Team.
TeamsAgree ==
  sample # None =>
    /\ Teams!SeatIdsAgree(sample.team)
    /\ Teams!RowKeysUnique(sample.team,
          Teams!SeatPlan(sample.team, PlanRoles, sample.host, sample.max).seats)
    /\ Teams!PanelAgreesWithLaunch(sample.team, PlanRoles, sample.host, sample.max)
=============================================================================
