---------------------------- MODULE DesignValidation ----------------------------
(***************************************************************************)
(* When a proposed Team becomes a result, and when a stored result may     *)
(* still be saved: shared/domain/design-validation.ts, called by           *)
(* server/designer/service.ts with the planner of a launch as its judge    *)
(* (server/designer/planning.ts, modelled in TeamModel).                   *)
(*                                                                         *)
(* A Role of the catalog is one of TeamModel with a name, an origin (the   *)
(* job that wrote it, or None) and retired: whether it still carries the   *)
(* keys that later versions leave out.  Role names are compared by what    *)
(* normalizeRoleName makes of them.  The wording rules of a proposal and   *)
(* the free Team id are left out: nothing below depends on them.           *)
(***************************************************************************)
EXTENDS TeamModel

CONSTANTS
  Catalogs,     \* what the roles document may hold when the job runs
  Proposals,    \* [roles, coordinator, members]: roles maps new ids to Roles
  Hosts,        \* what the host may answer
  RoleEdits,    \* what a Role of the catalog may become, by its id
  MaxChanges    \* bound: changes besides the rows of the design itself

VARIABLES
  roles,              \* the roles document
  host, maxMembers,   \* what the host and the preferences say
  existingRolesOnly,  \* the rule of the job's record
  result,             \* the materialized design, or None
  changes             \* what has changed since the proposal

vars == <<roles, host, maxMembers, existingRolesOnly, result, changes>>

Job == "job"
NewRoleLimit == IF existingRolesOnly THEN 0 ELSE 3
UsedRoles(team) == {team.coordinator} \cup {m.role : m \in RangeOf(team.members)}
\* roleBehaviorContent: what a reused Role is hashed by.
Behavior(role) == [name |-> role.name, text |-> role.text, preferred |-> role.preferred,
                   fallback |-> role.fallback, enabled |-> role.enabled, retired |-> role.retired]

-----------------------------------------------------------------------------
(* checkDesignContent. *)
\* A bug: whatever the job once wrote is taken for the row it wrote.
SameByOrigin(saved, expected) == TRUE
\* sameContent: only the retirement of old keys may differ.
SameContent(saved, expected) ==
  \/ saved = expected
  \/ expected.retired /\ saved = [expected EXCEPT !.retired = FALSE]

\* The rows of the design that are saved already, and still as the design has them.
OwnRows(newRoles) ==
  {id \in DOMAIN newRoles \cap DOMAIN roles :
     roles[id].origin = Job /\ SameContent(roles[id], newRoles[id])}

References(role) == role.preferred \o role.fallback
NewRoleFits(id, newRoles, team, own) ==
  LET role == newRoles[id] IN
  /\ id \notin DOMAIN roles \ own
  /\ \A other \in DOMAIN roles \ own : roles[other].name # role.name
  /\ \A other \in DOMAIN newRoles \ {id} : newRoles[other].name # role.name
  /\ role.enabled /\ role.origin = Job
  /\ Len(role.preferred) \in 1..5 /\ Len(role.fallback) <= 5
  /\ Cardinality(RangeOf(References(role))) = Len(References(role))
  /\ RangeOf(References(role)) \subseteq DOMAIN host.profiles
  /\ id \in UsedRoles(team)

\* Exactly the used Roles that are not new, enabled, and as they were hashed.
ReuseFits(reuse, newRoles, team, hashed) ==
  /\ DOMAIN reuse = UsedRoles(team) \ DOMAIN newRoles
  /\ \A id \in DOMAIN reuse :
       /\ id \in DOMAIN roles /\ roles[id].enabled
       /\ hashed => reuse[id] = Behavior(roles[id])

LabelsFit(team) ==
  \A i, j \in DOMAIN team.members :
    (i # j /\ team.members[i].role = team.members[j].role) =>
      /\ team.members[i].label # None
      /\ team.members[i].label # team.members[j].label

TeamFits(team, newRoles) ==
  /\ Len(team.members) \in 1..64
  /\ team.coordinator \notin {m.role : m \in RangeOf(team.members)}
  /\ \A id \in UsedRoles(team) :
       IF id \in DOMAIN roles THEN roles[id].enabled ELSE id \in DOMAIN newRoles
  /\ LabelsFit(team)

ContentFits(team, newRoles, reuse, own, hashed) ==
  /\ Cardinality(DOMAIN newRoles) <= NewRoleLimit
  /\ \A id \in DOMAIN newRoles : NewRoleFits(id, newRoles, team, own)
  /\ ReuseFits(reuse, newRoles, team, hashed)
  /\ TeamFits(team, newRoles)

-----------------------------------------------------------------------------
(* The planner. *)
\* The rows of two records of Roles; of two with one id the first is taken.
Over(first, second) ==
  [id \in DOMAIN first \cup DOMAIN second |-> IF id \in DOMAIN first THEN first[id] ELSE second[id]]
\* [...roles, ...newRoles]: of two rows with one id the planner takes the last.
PlannedRoles(newRoles) == Over(newRoles, roles)
\* What a save leaves: a row that is there already is kept.
SavedRoles(newRoles) == Over(roles, newRoles)

Launches(team, catalog) == LaunchBlockers(team, catalog, host, maxMembers) = {}
\* expectedProfileIdsForTarget: the Profile of the coordinator (0) and of each
\* member's seat.
ExpectedProfileIds(team, catalog) ==
  LET seats == SeatPlan(team, catalog, host, maxMembers).seats
  IN [target \in 0..Len(team.members) |->
        IF target = 0 THEN Coordinator(team, catalog, host).profile
        ELSE (CHOOSE s \in RangeOf(seats) : s.seat = team.members[target].seat).selected.profile]

-----------------------------------------------------------------------------
(* validateDesign and materializeDesign. *)
\* buildTeam: every member gets the seat id that its key stands for.
BuildTeam(proposal) ==
  [coordinator |-> proposal.coordinator, creation |-> "eager", text |-> "designed",
   members |-> [i \in DOMAIN proposal.members |->
                  [role |-> proposal.members[i].role, label |-> proposal.members[i].label,
                   seat |-> <<"seat", i>>, enabled |-> TRUE]]]
\* buildNewRole; the results of earlier versions carry the retired keys.
BuildRoles(proposal, retired) ==
  [id \in DOMAIN proposal.roles |->
     [name |-> proposal.roles[id].name, text |-> proposal.roles[id].text,
      preferred |-> proposal.roles[id].preferred, fallback |-> proposal.roles[id].fallback,
      enabled |-> TRUE, origin |-> Job, retired |-> retired]]
ReuseOf(team, newRoles) ==
  [id \in (UsedRoles(team) \ DOMAIN newRoles) \cap DOMAIN roles |-> Behavior(roles[id])]

\* What an agent of a launch is to the one who reads the design.
Shown(agents) ==
  [k \in DOMAIN agents |-> [role |-> agents[k].role, prompt |-> agents[k].prompt,
                            label |-> agents[k].label, profile |-> agents[k].profile]]

\* One choice of Profile per target, and it is the planner's.
Targets(proposal) == 0..Len(proposal.members)
ChoicesFit(choices, team, catalog) == choices = ExpectedProfileIds(team, catalog)

\* What of a proposal is refused before anything is built from it: its new and
\* its reused Roles, then its Team.
RolesProposable(proposal) ==
  /\ host.ready
  /\ Cardinality(DOMAIN proposal.roles) <= NewRoleLimit
  /\ \A id \in DOMAIN proposal.roles :
       LET role == proposal.roles[id]
           named == {r \in DOMAIN roles : roles[r].name = role.name}
                    \cup {r \in DOMAIN proposal.roles \ {id} : proposal.roles[r].name = role.name}
       IN /\ id \in UsedRoles(proposal) \ DOMAIN roles /\ named = {}
          /\ Len(role.preferred) \in 1..5 /\ Len(role.fallback) <= 5
          /\ Cardinality(RangeOf(References(role))) = Len(References(role))
          /\ RangeOf(References(role)) \subseteq DOMAIN host.profiles
  /\ \A id \in UsedRoles(proposal) \ DOMAIN proposal.roles :
       id \in DOMAIN roles /\ roles[id].enabled
TeamProposable(proposal) ==
  /\ Len(proposal.members) \in 1..64
  /\ \A i \in DOMAIN proposal.members : proposal.members[i].role # proposal.coordinator
  /\ LabelsFit(proposal)

\* A proposal that passes becomes the result.
Propose(proposal, choices, retired) ==
  LET team == BuildTeam(proposal)
      newRoles == BuildRoles(proposal, retired)
      reuse == ReuseOf(team, newRoles)
      catalog == PlannedRoles(newRoles)
  IN /\ result = None
     /\ RolesProposable(proposal) /\ TeamProposable(proposal)
     /\ ContentFits(team, newRoles, reuse, {}, FALSE)
     /\ Launches(team, catalog)
     /\ ChoicesFit(choices, team, catalog)
     /\ result' = [team |-> team, newRoles |-> newRoles, reuse |-> reuse, reasons |-> choices,
                   shown |-> Shown(Agents(LaunchPlan(team, catalog, host, maxMembers), team, catalog, host))]
     /\ UNCHANGED <<roles, host, maxMembers, existingRolesOnly, changes>>

PlansAlike(r) ==
  /\ Launches(r.team, PlannedRoles(r.newRoles))
  /\ r.reasons = ExpectedProfileIds(r.team, PlannedRoles(r.newRoles))

\* validateMaterializedDesign: before a result is stored, when a save is
\* prepared and when the page asks again.
StillFits(r) ==
  /\ host.ready
  /\ ContentFits(r.team, r.newRoles, r.reuse, OwnRows(r.newRoles), TRUE)
  /\ PlansAlike(r)

\* mergeDesign, with the documents that the save was prepared for: what of the
\* Roles makes the page refuse the save.
MergeFits(r) ==
  LET saved(id) == /\ roles[id].origin = Job
                   /\ SameContent(roles[id], r.newRoles[id])
      catalog == SavedRoles(r.newRoles)
  IN /\ \A id \in DOMAIN r.newRoles :
          IF id \in DOMAIN roles THEN saved(id)
          ELSE \A other \in DOMAIN catalog \ {id} : catalog[other].name # r.newRoles[id].name
     /\ \A id \in UsedRoles(r.team) : id \in DOMAIN catalog /\ catalog[id].enabled
     /\ DOMAIN r.reuse \cap DOMAIN r.newRoles = {}
     /\ \A id \in DOMAIN r.reuse : id \in DOMAIN catalog /\ catalog[id].enabled

-----------------------------------------------------------------------------
(* validateRoleGap, for an existing Role that is said to be unlaunchable.  *)
(* For an enabled Role the verdicts of its two uses are one.               *)
Verified(role) ==
  \A p \in RangeOf(References(role)) \cap DOMAIN host.profiles :
    host.profiles[p].provider \in DOMAIN host.available
Launchable(role) == ResolveProfile(role, host) # None
GapAccepted(id) ==
  /\ existingRolesOnly /\ host.ready
  /\ id \in DOMAIN roles /\ roles[id].enabled
  /\ Verified(roles[id]) /\ ~Launchable(roles[id])

-----------------------------------------------------------------------------
(* What happens around a result. *)
\* The page writes a row of the design, with or without the retired keys.
SaveRow(id, asIs) ==
  /\ result # None
  /\ id \in DOMAIN result.newRoles \ DOMAIN roles
  /\ LET row == IF asIs THEN result.newRoles[id] ELSE [result.newRoles[id] EXCEPT !.retired = FALSE]
     IN roles' = Over(roles, [new \in {id} |-> row])
  /\ UNCHANGED <<host, maxMembers, existingRolesOnly, result, changes>>

Changed == changes < MaxChanges /\ changes' = changes + 1
EditRole(id, role) ==
  /\ Changed
  /\ id \in DOMAIN roles /\ role # roles[id]
  /\ roles' = [roles EXCEPT ![id] = [role EXCEPT !.origin = roles[id].origin]]
  /\ UNCHANGED <<host, maxMembers, existingRolesOnly, result>>
AddRole(id, role) ==
  /\ Changed
  /\ id \notin DOMAIN roles
  /\ roles' = Over(roles, [new \in {id} |-> role])
  /\ UNCHANGED <<host, maxMembers, existingRolesOnly, result>>
RemoveRole(id) ==
  /\ Changed
  /\ id \in DOMAIN roles
  /\ roles' = [other \in DOMAIN roles \ {id} |-> roles[other]]
  /\ UNCHANGED <<host, maxMembers, existingRolesOnly, result>>
HostChanges(new) ==
  /\ Changed
  /\ host' = new
  /\ UNCHANGED <<roles, maxMembers, existingRolesOnly, result>>
LimitChanges(limit) ==
  /\ Changed
  /\ maxMembers' = limit
  /\ UNCHANGED <<roles, host, existingRolesOnly, result>>

Init ==
  /\ roles \in Catalogs /\ host \in Hosts /\ maxMembers \in {1, 2}
  /\ existingRolesOnly \in BOOLEAN
  /\ result = None /\ changes = 0

Next ==
  \/ \E proposal \in Proposals, retired \in BOOLEAN :
       \E choices \in [Targets(proposal) -> DOMAIN host.profiles] :
         Propose(proposal, choices, retired)
  \/ /\ result # None
     /\ \/ \E id \in DOMAIN result.newRoles, asIs \in BOOLEAN : SaveRow(id, asIs)
        \/ \E id \in DOMAIN RoleEdits : \E role \in RoleEdits[id] :
             EditRole(id, role) \/ AddRole(id, role)
        \/ \E id \in DOMAIN roles : RemoveRole(id)
        \/ \E new \in Hosts : HostChanges(new)
        \/ \E limit \in {1, 2} : LimitChanges(limit)

Spec == Init /\ [][Next]_vars

\* The module's one type invariant.
DesignTypeOK ==
  /\ host \in Hosts /\ maxMembers \in {1, 2} /\ changes \in 0..MaxChanges
  /\ \A id \in DOMAIN roles : roles[id].origin \in {None, Job}
  /\ result # None => DOMAIN result.reasons = Targets(result.team)

-----------------------------------------------------------------------------
(* What a reader of the design relies on. *)
\* A stored result stays good while nothing but its own rows is written: it
\* passes the check that follows at once, and a save that was cut short after
\* its Roles can be taken up again.
SaveCanBeRetried == (result # None /\ changes = 0) => StillFits(result)

\* Whenever the check lets a save go on, the documents it leaves launch without
\* a blocker, and every agent has the Role, the prompt, the label and the Profile
\* that the design showed.
SavedIsAsDesigned ==
  (result # None /\ StillFits(result)) =>
    LET catalog == SavedRoles(result.newRoles) IN
    /\ Launches(result.team, catalog)
    /\ Shown(Agents(LaunchPlan(result.team, catalog, host, maxMembers), result.team, catalog, host)) = result.shown

\* The host's check and the page's merge are two programs: what the first lets
\* through, the second does not refuse for the sake of the Roles.
MergeAgrees == (result # None /\ StillFits(result)) => MergeFits(result)

\* No save gives two Roles of the catalog one name because of a new Role.
NewNamesAreFree ==
  (result # None /\ StillFits(result)) =>
    \A id \in DOMAIN result.newRoles, other \in DOMAIN SavedRoles(result.newRoles) :
      SavedRoles(result.newRoles)[other].name = result.newRoles[id].name => other = id

\* A gap that is accepted is real: no Team with this Role, as its coordinator or
\* as a member, can be launched now.
GapIsReal ==
  \A id \in DOMAIN roles : GapAccepted(id) =>
    \A other \in DOMAIN roles \ {id} :
      /\ ~Launches(BuildTeam([coordinator |-> id, members |-> <<[role |-> other, label |-> None]>>]), roles)
      /\ ~Launches(BuildTeam([coordinator |-> other, members |-> <<[role |-> id, label |-> None]>>]), roles)
=============================================================================
