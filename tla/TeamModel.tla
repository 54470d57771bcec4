------------------------------- MODULE TeamModel -------------------------------
(***************************************************************************)
(* How a Team becomes the agents of a launch: seats and Profiles           *)
(* (shared/domain/seat-plan.ts, profile-resolver.ts, team-model-plan.ts),  *)
(* the plan of a launch and the fingerprint the page echoes back           *)
(* (launch-plan.ts, launch-hash.ts), and the rows that agent-team.team.plan*)
(* shows for a saved Team or a draft (server/team-plan-service.ts).        *)
(*                                                                         *)
(* A Team is [coordinator, members, creation, text], a member [role, seat, *)
(* label, enabled]; roles maps the ids of the catalog to [preferred,       *)
(* fallback, enabled, text]; a host is [ready, profiles, available, tools] *)
(* with profiles from ids to [provider, setup] and available from          *)
(* providers to BOOLEAN.  Everything a prompt is compiled from is a text.  *)
(***************************************************************************)
EXTENDS Integers, Sequences, FiniteSets

CONSTANT None

\* TEAM_PLAN_MAX_ROWS never binds: a Team has at most 64 members.
MaxRuntimeMembers == 64
Enabled(team) == {i \in DOMAIN team.members : team.members[i].enabled}
RangeOf(f) == {f[x] : x \in DOMAIN f}

-----------------------------------------------------------------------------
(* Profiles. *)
Candidates(role) ==
  [i \in 1..(Len(role.preferred) + Len(role.fallback)) |->
     IF i <= Len(role.preferred) THEN [profile |-> role.preferred[i], source |-> "preferred"]
     ELSE [profile |-> role.fallback[i - Len(role.preferred)], source |-> "fallback"]]

\* A provider without a row counts as usable.
Usable(profile, host) ==
  /\ host.ready /\ profile \in DOMAIN host.profiles
  /\ LET provider == host.profiles[profile].provider
     IN provider \in DOMAIN host.available => host.available[provider]

\* resolveProfile: the first usable binding, preferred ones first.
FirstUsable(candidates, host) ==
  LET usable == {i \in DOMAIN candidates : Usable(candidates[i].profile, host)}
  IN IF usable = {} THEN None
     ELSE candidates[CHOOSE i \in usable : \A j \in usable : i <= j]
ResolveProfile(role, host) == FirstUsable(Candidates(role), host)

-----------------------------------------------------------------------------
(* Seats. *)
GeneratedId(i, taken) ==
  IF <<i>> \notin taken THEN <<i>>
  ELSE LET n == CHOOSE n \in 2..(Cardinality(taken) + 2) :
                  <<i, n>> \notin taken /\ \A k \in 2..(n - 1) : <<i, k>> \in taken
       IN <<i, n>>

ExplicitIds(team) == {team.members[i].seat : i \in Enabled(team)} \ {None}

\* buildSeatPlan: the entries of the enabled members, each with its seat id.
Entries(team) ==
  LET f[i \in 0..Len(team.members)] ==
        IF i = 0 THEN <<>>
        ELSE LET m == team.members[i]
                 taken == ExplicitIds(team) \cup {e.seat : e \in RangeOf(f[i - 1])}
             IN IF ~m.enabled THEN f[i - 1]
                ELSE Append(f[i - 1], [member |-> i,
                                       seat |-> IF m.seat # None THEN m.seat ELSE GeneratedId(i, taken)])
  IN f[Len(team.members)]

SameRole(team, i) == {j \in Enabled(team) : team.members[j].role = team.members[i].role}

\* What blocks the seats; warnings are left out.
When(reason, holds) == IF holds THEN {reason} ELSE {}
SeatBlockers(team, roles, host, seats, maxMembers) ==
  LET on == Enabled(team)
      member(i) == team.members[i]
      limit == IF maxMembers < MaxRuntimeMembers THEN maxMembers ELSE MaxRuntimeMembers
  IN When("unknown creation", team.creation \notin {None, "eager", "on-demand"})
     \cup When("on-demand unavailable", team.creation = "on-demand")
     \cup When("duplicate seat", \E i, j \in on : i # j /\ member(i).seat # None
                                                 /\ member(i).seat = member(j).seat)
     \cup When("label required", \E i \in on : member(i).label = None
                                              /\ Cardinality(SameRole(team, i)) > 1)
     \cup When("role missing", \E i \in on : member(i).role \notin DOMAIN roles)
     \cup When("no profile", \E i \in on : member(i).role \in DOMAIN roles
                                          /\ ResolveProfile(roles[member(i).role], host) = None)
     \cup When("member limit", Len(seats) > limit)

\* The entries that become seats: their Role exists and has a usable Profile.  A
\* disabled Role is planned as an enabled one, with a warning.
Planned(team, roles, host, entry) ==
  LET role == team.members[entry.member].role
  IN role \in DOMAIN roles /\ ResolveProfile(roles[role], host) # None
PlannedAmong(team, roles, host, all) ==
  LET f[i \in 0..Len(all)] ==
        IF i = 0 THEN <<>>
        ELSE IF Planned(team, roles, host, all[i]) THEN Append(f[i - 1], all[i]) ELSE f[i - 1]
  IN f[Len(all)]
PlannedEntries(team, roles, host) == PlannedAmong(team, roles, host, Entries(team))

SeatsOf(team, roles, host, entries) ==
  [k \in DOMAIN entries |->
     LET m == team.members[entries[k].member]
     IN [seat |-> entries[k].seat, role |-> m.role, label |-> m.label,
         selected |-> ResolveProfile(roles[m.role], host),
         activation |-> IF team.creation = "on-demand" THEN "on-demand" ELSE "eager"]]

SeatPlan(team, roles, host, maxMembers) ==
  LET seats == SeatsOf(team, roles, host, PlannedEntries(team, roles, host))
  IN IF ~host.ready THEN [seats |-> <<>>, blockers |-> {"context unavailable"}]
     ELSE [seats |-> seats, blockers |-> SeatBlockers(team, roles, host, seats, maxMembers)]

\* The coordinator is resolved by its Role's binding, enabled or not.
Coordinator(team, roles, host) ==
  IF team.coordinator \notin DOMAIN roles THEN None
  ELSE ResolveProfile(roles[team.coordinator], host)

-----------------------------------------------------------------------------
(* A launch. *)
\* coordinatorToolsBlocker, for the provider of the coordinator.
ToolsMissing(coordinator, host) == coordinator # None /\ host.ready /\ ~host.tools

\* buildLaunchPlan: the seats, the coordinator, and what stops the launch.
LaunchPlan(team, roles, host, maxMembers) ==
  LET plan == SeatPlan(team, roles, host, maxMembers)
      coordinator == Coordinator(team, roles, host)
  IN [seats |-> plan.seats, coordinator |-> coordinator,
      blockers |-> plan.blockers
                   \cup When("no members", Enabled(team) = {})
                   \cup When("no coordinator", coordinator = None)
                   \cup When("no tools", ToolsMissing(coordinator, host))]
LaunchBlockers(team, roles, host, maxMembers) == LaunchPlan(team, roles, host, maxMembers).blockers

\* An agent: its place, the Role and the setup of its Profile, and what its
\* prompts are compiled from.
Agent(kind, role, label, profile, roles, host, team) ==
  [kind |-> kind, role |-> role, prompt |-> roles[role].text, label |-> label, team |-> team.text,
   profile |-> profile, setup |-> host.profiles[profile]]
\* The coordinator first, then every eager seat.
Agents(plan, team, roles, host) ==
  <<Agent("coordinator", team.coordinator, None, plan.coordinator.profile, roles, host, team)>>
  \o [k \in DOMAIN plan.seats |->
        Agent("member", plan.seats[k].role, plan.seats[k].label, plan.seats[k].selected.profile,
              roles, host, team)]

Referenced(team, roles) == DOMAIN roles \cap ({team.coordinator} \cup {m.role : m \in RangeOf(team.members)})
\* launchPlanFingerprint: the Team, the Roles it refers to, the runtime tuples
\* of the selected Profiles, and the rest of what may change the launch.
Fingerprint(plan, team, roles, host, maxMembers) ==
  LET selected == {plan.seats[k].selected.profile : k \in DOMAIN plan.seats}
                  \cup (IF plan.coordinator = None THEN {} ELSE {plan.coordinator.profile})
      profiles == IF host.ready THEN [p \in selected \cap DOMAIN host.profiles |-> host.profiles[p]]
                  ELSE None
      providers == IF host.ready THEN {profiles[p].provider : p \in DOMAIN profiles} ELSE {}
  IN [team |-> team,
      roles |-> [r \in Referenced(team, roles) |-> roles[r]],
      coordinator |-> plan.coordinator,
      seats |-> [k \in DOMAIN plan.seats |->
                   [role |-> plan.seats[k].role, label |-> plan.seats[k].label,
                    selected |-> plan.seats[k].selected]],
      profiles |-> profiles,
      available |-> IF host.ready
                    THEN [v \in providers \cap DOMAIN host.available |-> host.available[v]] ELSE None,
      maxMembers |-> maxMembers]

-----------------------------------------------------------------------------
(* The rows of agent-team.team.plan. *)
\* A bug: the suffix is the place among the enabled members.
LogicalSeatIdsByPlace(team) ==
  [i \in DOMAIN team.members |->
     LET m == team.members[i] IN
     IF ~m.enabled THEN None
     ELSE IF m.seat # None THEN m.seat
     ELSE GeneratedId(Cardinality({j \in Enabled(team) : j <= i}), ExplicitIds(team))]
\* logicalSeatIds: the id that buildSeatPlan derives, by a rule of its own.
LogicalSeatIds(team) ==
  LET f[i \in 0..Len(team.members)] ==
        IF i = 0 THEN <<>>
        ELSE LET m == team.members[i] IN
             Append(f[i - 1],
               CASE ~m.enabled -> None
                 [] m.enabled /\ m.seat # None -> m.seat
                 [] OTHER -> GeneratedId(i, ExplicitIds(team) \cup RangeOf(f[i - 1])))
  IN f[Len(team.members)]

\* savedRowKeys: from the stored member only.
SavedRowKeys(team) ==
  [i \in DOMAIN team.members |->
     LET seat == team.members[i].seat IN
     IF seat = None \/ \E j \in 1..(i - 1) : team.members[j].seat = seat
     THEN <<"member", i>> ELSE <<"seat", seat>>]

\* A stored seat id that is repeated makes rows claim their keys.
HasDuplicateSeats(team) ==
  \E i, j \in DOMAIN team.members :
    i # j /\ team.members[i].seat # None /\ team.members[i].seat = team.members[j].seat

\* planTeam: each member with its seats, or a placeholder; the bases of the keys.
RowBases(team, rowKeys, seats) ==
  LET ids == LogicalSeatIds(team)
      owner(seat) == CHOOSE i \in DOMAIN ids : ids[i] = seat /\ \A j \in 1..(i - 1) : ids[j] # seat
      owned(i) == {k \in DOMAIN seats : seats[k].seat \in RangeOf(ids) /\ owner(seats[k].seat) = i}
      rows(i) == [k \in 1..(IF owned(i) = {} THEN 1 ELSE Cardinality(owned(i))) |->
                    [key |-> rowKeys[i], member |-> i]]
      f[i \in 0..Len(team.members)] == IF i = 0 THEN <<>> ELSE f[i - 1] \o rows(i)
  IN f[Len(team.members)]

ClaimRowKey(base, used) ==
  LET fallback == <<"member", base.member>> IN
  IF base.key \notin used THEN base.key
  ELSE IF fallback \notin used THEN fallback
  ELSE LET n == CHOOSE n \in 2..(Cardinality(used) + 2) :
                  Append(fallback, n) \notin used /\ \A k \in 2..(n - 1) : Append(fallback, k) \in used
       IN Append(fallback, n)

RowKeys(team, rowKeys, seats) ==
  LET bases == RowBases(team, rowKeys, seats)
      f[i \in 0..Len(bases)] ==
        IF i = 0 THEN <<<<"coordinator">>>>
        ELSE Append(f[i - 1], IF HasDuplicateSeats(team) THEN ClaimRowKey(bases[i], RangeOf(f[i - 1]))
                              ELSE bases[i].key)
  IN f[Len(bases)]

PlanStatus(team, roles, host, maxMembers) ==
  CASE ~host.ready -> "unavailable"
    [] host.ready /\ (\/ SeatPlan(team, roles, host, maxMembers).blockers # {}
                      \/ Coordinator(team, roles, host) = None
                      \/ Enabled(team) = {}) -> "blocked"
    [] OTHER -> "ready"

\* The editor's draft: a row key takes the place of the seat id, and a stored
\* creation that this version cannot read is not sent (draftRowKey,
\* readMemberCreation, draftTeam).
DraftRowKey(member, i) == IF member.seat # None THEN <<"seat", member.seat>> ELSE <<"member", i>>
DraftRowKeys(team) == [i \in DOMAIN team.members |-> DraftRowKey(team.members[i], i)]
DraftTeam(team) ==
  [team EXCEPT !.creation = IF @ \in {"eager", "on-demand"} THEN @ ELSE None,
               !.members = [i \in DOMAIN @ |-> [@[i] EXCEPT !.seat = DraftRowKeys(team)[i]]]]
DraftIsValid(team) == Cardinality(RangeOf(DraftRowKeys(team))) = Len(team.members)

-----------------------------------------------------------------------------
(* What the two sides must agree on, for one Team.                         *)
\* "Same rule; pinned by tests" (team-plan-service.ts:106): each seat of the
\* plan belongs to the row of its member.
SeatIdsAgree(team) ==
  \A k \in DOMAIN Entries(team) : LogicalSeatIds(team)[Entries(team)[k].member] = Entries(team)[k].seat

\* Each row has a key of its own, whatever seat ids are stored: the editor binds
\* its rows by them.
RowKeysUnique(team, seats) ==
  LET keys == RowKeys(team, SavedRowKeys(team), seats)
  IN \A i, j \in DOMAIN keys : keys[i] = keys[j] => i = j

\* The panel calls a Team ready exactly when a launch finds nothing to refuse
\* in the Team itself, and a draft of it is judged as the Team is.
PanelAgreesWithLaunch(team, roles, host, maxMembers) ==
  /\ PlanStatus(team, roles, host, maxMembers) = "ready"
       <=> LaunchBlockers(team, roles, host, maxMembers) \subseteq {"no tools"}
  /\ team.creation # "other" /\ DraftIsValid(team) =>
       PlanStatus(DraftTeam(team), roles, host, maxMembers) = PlanStatus(team, roles, host, maxMembers)
=============================================================================
