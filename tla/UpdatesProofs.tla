------------------------------ MODULE UpdatesProofs ------------------------------
(***************************************************************************)
(* Proofs about the behaviours of MCUpdates.  Launch, for every set of     *)
(* catalogs, hosts and tasks and every bound: what a job is started with   *)
(* is what the user confirmed, and what a finished job says of its agents  *)
(* is so.  VersionUpdate, for any number of starts and every setting: one  *)
(* runner at a time, and the end of a job tells what is in the checkout.   *)
(***************************************************************************)
EXTENDS MCUpdates, SequenceTheorems, WellFoundedInduction, FiniteSetTheorems, TLAPS

-----------------------------------------------------------------------------
(* I.  Launch.  The plan of a launch is computed by recursion over the      *)
(* members of a Team.  Two facts about it carry the rest: every seat of a   *)
(* plan is that of a member whose Role exists and whose Profile is usable,  *)
(* and so the fingerprint of a plan without blockers fixes the agents made  *)
(* from it.                                                                 *)

(* Induction over the natural numbers, from the library's theorem that they *)
(* are well founded.                                                        *)
\* A set of natural numbers that is not empty has a least element.
LEMMA LeastElement ==
  ASSUME NEW T, T \subseteq Nat, T # {}
  PROVE  \E x \in T : \A y \in T : ~(y < x)
<1>1. IsWellFoundedOn(OpToRel(<, Nat), Nat)
  BY NatLessThanWellFounded
<1>2. \E x \in T : \A y \in T : ~(<<y, x>> \in OpToRel(<, Nat))
  BY <1>1, WFMin
<1>3. ASSUME NEW x \in Nat, NEW y \in Nat, y < x PROVE <<y, x>> \in OpToRel(<, Nat)
  BY <1>3 DEF OpToRel
<1> QED
  BY <1>2, <1>3

\* A set of natural numbers with 0 and every successor has them all.
LEMMA NatInd ==
  ASSUME NEW T, T \subseteq Nat, 0 \in T, \A n \in T : n + 1 \in T
  PROVE  T = Nat
<1> SUFFICES ASSUME Nat \ T # {} PROVE FALSE
  OBVIOUS
<1>1. PICK x \in Nat \ T : \A y \in Nat \ T : ~(y < x)
  BY LeastElement
<1>2. x # 0 /\ x - 1 \in Nat /\ x - 1 < x /\ (x - 1) + 1 = x
  BY <1>1
<1>3. x - 1 \in T
  BY <1>1, <1>2
<1> QED
  BY <1>1, <1>2, <1>3

-----------------------------------------------------------------------------
(* The seats of a plan. *)
\* s is a list of entries, each of which names one of the first i members.
EntriesOf(s, i) ==
  \E n \in Nat : /\ s \in [1..n -> RangeOf(s)]
                 /\ \A j \in 1..n : s[j].member \in 1..i

\* The entries that buildSeatPlan makes are those of members of the Team.
LEMMA EntriesAreMembers ==
  ASSUME NEW team, team.members \in Seq(RangeOf(team.members))
  PROVE  EntriesOf(Entries(team), Len(team.members))
<1> DEFINE
      n == Len(team.members)
      Entry(s, i) ==
        [member |-> i,
         seat |-> IF team.members[i].seat # None THEN team.members[i].seat
                  ELSE GeneratedId(i, ExplicitIds(team) \cup {e.seat : e \in RangeOf(s)})]
      Step(s, i) == IF ~team.members[i].enabled THEN s ELSE Append(s, Entry(s, i))
      Solves(g, k) == g = [i \in 0..k |-> IF i = 0 THEN <<>> ELSE Step(g[i - 1], i)]
      F == CHOOSE f : Solves(f, n)
<1>1. Entries(team) = F[n]
  BY DEF Entries
<1>2. n \in Nat
  OBVIOUS
<1>3. ASSUME NEW i \in Nat, NEW s, EntriesOf(s, i)
      PROVE  EntriesOf(Step(s, i + 1), i + 1)
  <2> DEFINE x == Entry(s, i + 1)
  <2>1. x.member = i + 1
    OBVIOUS
  <2> HIDE DEF x
  <2>2. PICK m \in Nat : /\ s \in [1..m -> RangeOf(s)]
                         /\ \A j \in 1..m : s[j].member \in 1..i
    BY <1>3 DEF EntriesOf
  <2>3. s \in Seq(RangeOf(s) \cup {x}) /\ Len(s) = m
    BY <2>2
  <2> DEFINE t == Append(s, x)
  <2>4. /\ t \in [1..(m + 1) -> RangeOf(s) \cup {x}]
        /\ \A j \in 1..m : t[j] = s[j]
        /\ t[m + 1] = x
    <3>1. x \in RangeOf(s) \cup {x}
      OBVIOUS
    <3>2. /\ t \in Seq(RangeOf(s) \cup {x}) /\ Len(t) = m + 1
          /\ \A j \in 1..m : t[j] = s[j]
          /\ t[m + 1] = x
      BY <2>3, <3>1, AppendProperties
    <3> HIDE DEF t
    <3> QED
      BY <3>2
  <2> HIDE DEF t
  <2>5. t \in [1..(m + 1) -> RangeOf(t)]
    BY <2>4 DEF RangeOf
  <2>6. \A j \in 1..(m + 1) : t[j].member \in 1..(i + 1)
    BY <2>1, <2>2, <2>4
  <2>7. EntriesOf(t, i + 1)
    BY <2>2, <2>5, <2>6 DEF EntriesOf
  <2>8. \A j \in 1..m : s[j].member \in 1..(i + 1)
    BY <2>2
  <2>9. EntriesOf(s, i + 1)
    BY <2>2, <2>8 DEF EntriesOf
  <2> QED
    BY <2>7, <2>9 DEF t, x
<1> HIDE DEF Step
<1>4. \E g : Solves(g, n)
  <2> DEFINE T == {k \in Nat : \E g : Solves(g, k)}
  <2>1. 0 \in T
    <3>1. Solves([i \in 0..0 |-> <<>>], 0)
      OBVIOUS
    <3> QED
      BY <3>1
  <2>2. ASSUME NEW k \in T PROVE k + 1 \in T
    <3>1. PICK g : Solves(g, k)
      OBVIOUS
    <3> DEFINE h == [i \in 0..(k + 1) |-> IF i = k + 1 THEN Step(g[k], i) ELSE g[i]]
    <3>2. Solves(h, k + 1)
      BY <3>1
    <3> HIDE DEF h, Solves
    <3> QED
      BY <3>2
  <2> HIDE DEF T
  <2>3. T \subseteq Nat
    BY DEF T
  <2>4. T = Nat
    BY <2>1, <2>2, <2>3, NatInd
  <2> QED
    BY <1>2, <2>4 DEF T
<1>5. Solves(F, n)
  <2> HIDE DEF Solves
  <2> QED
    BY <1>4
<1> HIDE DEF F, n
<1>6. F[0] = <<>> /\ \A k \in Nat : k + 1 <= n => F[k + 1] = Step(F[k], k + 1)
  <2>1. F[0] = <<>>
    BY <1>2, <1>5
  <2>2. ASSUME NEW k \in Nat, k + 1 <= n PROVE F[k + 1] = Step(F[k], k + 1)
    <3>1. k + 1 \in 0..n /\ k + 1 # 0 /\ (k + 1) - 1 = k
      BY <1>2, <2>2
    <3> QED
      BY <1>5, <3>1
  <2> QED
    BY <2>1, <2>2
<1>7. \A k \in Nat : k <= n => EntriesOf(F[k], k)
  <2> DEFINE T == {k \in Nat : k <= n => EntriesOf(F[k], k)}
  <2>1. 0 \in T
    <3>1. EntriesOf(<<>>, 0)
      BY DEF EntriesOf
    <3> QED
      BY <1>6, <3>1
  <2>2. ASSUME NEW k \in T PROVE k + 1 \in T
    <3>1. CASE k + 1 <= n
      <4>1. F[k + 1] = Step(F[k], k + 1)
        BY <1>6, <3>1
      <4>2. EntriesOf(F[k], k)
        BY <1>2, <3>1
      <4> QED
        BY <1>3, <4>1, <4>2
    <3>2. CASE ~(k + 1 <= n)
      BY <3>2
    <3> QED
      BY <3>1, <3>2
  <2> HIDE DEF T
  <2>3. T \subseteq Nat
    BY DEF T
  <2>4. T = Nat
    BY <2>1, <2>2, <2>3, NatInd
  <2> QED
    BY <2>4 DEF T
<1> QED
  BY <1>1, <1>2, <1>7 DEF n

\* Every seat of a plan is that of a member of the Team whose Role exists and
\* resolves to a usable Profile.
SeatIsPlanned(seat, team, roles, h) ==
  /\ seat.role \in Referenced(team, roles)
  /\ seat.selected = ResolveProfile(roles[seat.role], h)
  /\ seat.selected # None

\* The entries that become seats are a list of entries of such members.
Chosen(s, team, roles, h) ==
  \E n \in Nat : /\ s \in [1..n -> RangeOf(s)]
                 /\ \A j \in 1..n : /\ s[j].member \in DOMAIN team.members
                                    /\ Planned(team, roles, h, s[j])

LEMMA EntriesAreChosen ==
  ASSUME NEW team, NEW roles, NEW h, team.members \in Seq(RangeOf(team.members))
  PROVE  Chosen(PlannedEntries(team, roles, h), team, roles, h)
<1> DEFINE
      all == Entries(team)
      n == Len(all)
      Step(s, i) == IF Planned(team, roles, h, all[i]) THEN Append(s, all[i]) ELSE s
      Solves(g, k) == g = [i \in 0..k |-> IF i = 0 THEN <<>> ELSE Step(g[i - 1], i)]
      F == CHOOSE f : Solves(f, n)
<1>1. PlannedEntries(team, roles, h) = F[n]
  BY DEF PlannedEntries, PlannedAmong
<1>2. n \in Nat /\ \A i \in 1..n : all[i].member \in DOMAIN team.members
  <2>1. EntriesOf(all, Len(team.members)) /\ DOMAIN team.members = 1..Len(team.members)
    BY EntriesAreMembers
  <2> QED
    BY <2>1 DEF EntriesOf
<1> HIDE DEF all, n
<1>3. ASSUME NEW i \in 1..n, NEW s, Chosen(s, team, roles, h)
      PROVE  Chosen(Step(s, i), team, roles, h)
  <2>1. CASE ~Planned(team, roles, h, all[i])
    BY <1>3, <2>1
  <2>2. CASE Planned(team, roles, h, all[i])
    <3> DEFINE x == all[i]
               t == Append(s, x)
    <3>1. x.member \in DOMAIN team.members /\ Planned(team, roles, h, x)
      BY <1>2, <2>2
    <3> HIDE DEF x
    <3>2. PICK m \in Nat : /\ s \in [1..m -> RangeOf(s)]
                           /\ \A j \in 1..m : /\ s[j].member \in DOMAIN team.members
                                              /\ Planned(team, roles, h, s[j])
      BY <1>3 DEF Chosen
    <3>3. s \in Seq(RangeOf(s) \cup {x}) /\ Len(s) = m /\ x \in RangeOf(s) \cup {x}
      BY <3>2
    <3>4. /\ t \in Seq(RangeOf(s) \cup {x}) /\ Len(t) = m + 1
          /\ \A j \in 1..m : t[j] = s[j]
          /\ t[m + 1] = x
      BY <3>3, AppendProperties
    <3> HIDE DEF t
    <3>5. t \in [1..(m + 1) -> RangeOf(t)]
      BY <3>4 DEF RangeOf
    <3>6. \A j \in 1..(m + 1) : t[j] = x \/ (j \in 1..m /\ t[j] = s[j])
      BY <3>2, <3>4
    <3>7. Chosen(t, team, roles, h)
      BY SMTT(40), <3>1, <3>2, <3>5, <3>6 DEF Chosen
    <3> QED
      BY <2>2, <3>7 DEF t, x
  <2> QED
    BY <2>1, <2>2
<1> HIDE DEF Step
<1>4. \E g : Solves(g, n)
  <2> DEFINE T == {k \in Nat : \E g : Solves(g, k)}
  <2>1. 0 \in T
    <3>1. Solves([i \in 0..0 |-> <<>>], 0)
      OBVIOUS
    <3> QED
      BY <3>1
  <2>2. ASSUME NEW k \in T PROVE k + 1 \in T
    <3>1. PICK g : Solves(g, k)
      OBVIOUS
    <3> DEFINE e == [i \in 0..(k + 1) |-> IF i = k + 1 THEN Step(g[k], i) ELSE g[i]]
    <3>2. Solves(e, k + 1)
      BY <3>1
    <3> HIDE DEF e, Solves
    <3> QED
      BY <3>2
  <2> HIDE DEF T
  <2>3. T \subseteq Nat
    BY DEF T
  <2>4. T = Nat
    BY <2>1, <2>2, <2>3, NatInd
  <2> QED
    BY <1>2, <2>4 DEF T
<1>5. Solves(F, n)
  <2> HIDE DEF Solves
  <2> QED
    BY <1>4
<1> HIDE DEF F
<1>6. F[0] = <<>> /\ \A k \in Nat : k + 1 <= n => F[k + 1] = Step(F[k], k + 1)
  <2>1. F[0] = <<>>
    BY <1>2, <1>5
  <2>2. ASSUME NEW k \in Nat, k + 1 <= n PROVE F[k + 1] = Step(F[k], k + 1)
    <3>1. k + 1 \in 0..n /\ k + 1 # 0 /\ (k + 1) - 1 = k
      BY <1>2, <2>2
    <3> QED
      BY <1>5, <3>1
  <2> QED
    BY <2>1, <2>2
<1>7. \A k \in Nat : k <= n => Chosen(F[k], team, roles, h)
  <2> DEFINE T == {k \in Nat : k <= n => Chosen(F[k], team, roles, h)}
  <2>1. 0 \in T
    <3>1. Chosen(<<>>, team, roles, h)
      BY DEF Chosen
    <3> QED
      BY <1>6, <3>1
  <2>2. ASSUME NEW k \in T PROVE k + 1 \in T
    <3>1. CASE k + 1 <= n
      <4>1. F[k + 1] = Step(F[k], k + 1)
        BY <1>6, <3>1
      <4>2. Chosen(F[k], team, roles, h) /\ k + 1 \in 1..n
        BY <1>2, <3>1
      <4> QED
        BY <1>3, <4>1, <4>2
    <3>2. CASE ~(k + 1 <= n)
      BY <3>2
    <3> QED
      BY <3>1, <3>2
  <2> HIDE DEF T
  <2>3. T \subseteq Nat
    BY DEF T
  <2>4. T = Nat
    BY <2>1, <2>2, <2>3, NatInd
  <2> QED
    BY <2>4 DEF T
<1> QED
  BY <1>1, <1>2, <1>7

\* The seats of a plan are a list of such seats.
LEMMA SeatsArePlanned ==
  ASSUME NEW team, NEW roles, NEW h, NEW maxMembers,
         team.members \in Seq(RangeOf(team.members)), h.ready
  PROVE  \E n \in Nat :
           /\ DOMAIN SeatPlan(team, roles, h, maxMembers).seats = 1..n
           /\ \A k \in 1..n :
                SeatIsPlanned(SeatPlan(team, roles, h, maxMembers).seats[k], team, roles, h)
<1> DEFINE entries == PlannedEntries(team, roles, h)
           seats == SeatPlan(team, roles, h, maxMembers).seats
<1>1. PICK n \in Nat : /\ entries \in [1..n -> RangeOf(entries)]
                       /\ \A j \in 1..n : /\ entries[j].member \in DOMAIN team.members
                                          /\ Planned(team, roles, h, entries[j])
  BY SMTT(40), EntriesAreChosen DEF Chosen
<1> HIDE DEF entries
<1>2. /\ DOMAIN seats = 1..n
      /\ \A k \in 1..n :
           LET m == team.members[entries[k].member]
           IN seats[k].role = m.role /\ seats[k].selected = ResolveProfile(roles[m.role], h)
  BY <1>1 DEF SeatPlan, SeatsOf, entries
<1> HIDE DEF seats
<1>3. ASSUME NEW k \in 1..n PROVE SeatIsPlanned(seats[k], team, roles, h)
  <2> DEFINE m == team.members[entries[k].member]
  <2>1. m \in RangeOf(team.members)
    BY ZenonT(60), <1>1 DEF RangeOf
  <2>2. m.role \in DOMAIN roles /\ ResolveProfile(roles[m.role], h) # None
    BY SMTT(40), <1>1 DEF Planned
  <2>3. seats[k].role = m.role /\ seats[k].selected = ResolveProfile(roles[m.role], h)
    BY SMTT(40), <1>2
  <2> HIDE DEF m
  <2> QED
    BY <2>1, <2>2, <2>3 DEF SeatIsPlanned, Referenced
<1> QED
  BY SMTT(40), <1>2, <1>3 DEF seats

\* A Profile that a Role resolves to is one of the host's.
LEMMA ResolvedIsUsable ==
  ASSUME NEW role, NEW h, ResolveProfile(role, h) # None
  PROVE  h.ready /\ ResolveProfile(role, h).profile \in DOMAIN h.profiles
<1> DEFINE all == Candidates(role)
           usable == {i \in DOMAIN all : Usable(all[i].profile, h)}
           least == CHOOSE i \in usable : \A j \in usable : i <= j
<1>1. usable # {} /\ ResolveProfile(role, h) = all[least]
  BY DEF ResolveProfile, FirstUsable
<1>2. usable \subseteq Nat
  <2> DEFINE n == Len(role.preferred) + Len(role.fallback)
  <2>1. DOMAIN all = 1..n
    BY DEF Candidates
  <2> HIDE DEF all, n
  <2> QED
    BY <2>1
<1>3. \E i \in usable : \A j \in usable : i <= j
  <2> HIDE DEF usable
  <2>1. PICK i \in usable : \A j \in usable : ~(j < i)
    BY <1>1, <1>2, LeastElement
  <2> QED
    BY <1>2, <2>1
<1>4. least \in usable
  <2> HIDE DEF usable
  <2> QED
    BY <1>3
<1> QED
  BY <1>1, <1>4 DEF Usable

-----------------------------------------------------------------------------
(* The fingerprint of a plan without blockers fixes the agents. *)
PlanOf(s, h) == LaunchPlan(s.team, s.roles, h, s.maxMembers)
AgentsOf(s, h) == Agents(PlanOf(s, h), s.team, s.roles, h)
FingerprintOf(s, h) == Fingerprint(PlanOf(s, h), s.team, s.roles, h, s.maxMembers)

\* Settings and a host that a launch can start from.
CanLaunch(s, h) ==
  s \in Catalogs /\ h \in Hosts /\ s.team # None /\ PlanOf(s, h).blockers = {}

\* What such a plan has: a coordinator and seats whose Roles exist and whose
\* Profiles the host has.
LEMMA LaunchableHasAll ==
  ASSUME WellFormed, NEW s, NEW h, CanLaunch(s, h)
  PROVE  LET plan == PlanOf(s, h) IN
         /\ h.ready
         /\ s.team.coordinator \in Referenced(s.team, s.roles)
         /\ plan.coordinator.profile \in DOMAIN h.profiles
         /\ plan.coordinator # None
         /\ \E n \in Nat : /\ DOMAIN plan.seats = 1..n
                           /\ \A k \in 1..n :
                                /\ plan.seats[k].role \in Referenced(s.team, s.roles)
                                /\ plan.seats[k].selected.profile \in DOMAIN h.profiles
<1> DEFINE plan == PlanOf(s, h)
<1>1. /\ plan.seats = SeatPlan(s.team, s.roles, h, s.maxMembers).seats
      /\ plan.coordinator = Coordinator(s.team, s.roles, h)
      /\ SeatPlan(s.team, s.roles, h, s.maxMembers).blockers = {}
      /\ When("no coordinator", plan.coordinator = None) = {}
  BY DEF CanLaunch, PlanOf, LaunchPlan
<1>2. h.ready
  BY <1>1 DEF SeatPlan
<1>3. plan.coordinator # None
  BY <1>1 DEF When
<1>4. /\ s.team.coordinator \in DOMAIN s.roles
      /\ plan.coordinator = ResolveProfile(s.roles[s.team.coordinator], h)
  BY <1>1, <1>3 DEF Coordinator
<1>5. s.team.coordinator \in Referenced(s.team, s.roles)
  BY <1>4 DEF Referenced
<1>6. plan.coordinator.profile \in DOMAIN h.profiles
  BY <1>3, <1>4, ResolvedIsUsable
<1>7. s.team.members \in Seq(RangeOf(s.team.members))
  BY DEF WellFormed, CanLaunch
<1>8. PICK n \in Nat :
        /\ DOMAIN plan.seats = 1..n
        /\ \A k \in 1..n : SeatIsPlanned(plan.seats[k], s.team, s.roles, h)
  <2> DEFINE seats == SeatPlan(s.team, s.roles, h, s.maxMembers).seats
  <2>1. \E n \in Nat : /\ DOMAIN seats = 1..n
                       /\ \A k \in 1..n : SeatIsPlanned(seats[k], s.team, s.roles, h)
    BY <1>2, <1>7, SeatsArePlanned
  <2>2. plan.seats = seats
    BY <1>1
  <2> HIDE DEF seats, plan
  <2> QED
    BY <2>1, <2>2
<1>9. ASSUME NEW k \in 1..n
      PROVE  /\ plan.seats[k].role \in Referenced(s.team, s.roles)
             /\ plan.seats[k].selected.profile \in DOMAIN h.profiles
  BY <1>8, ResolvedIsUsable DEF SeatIsPlanned
<1> HIDE DEF plan
<1> QED
  BY <1>2, <1>3, <1>5, <1>6, <1>8, <1>9 DEF plan

\* The agents of such a plan are a list that is not empty.
LEMMA AgentsAreAList ==
  ASSUME WellFormed, NEW s, NEW h, CanLaunch(s, h)
  PROVE  \E n \in Nat \ {0} : Len(AgentsOf(s, h)) = n /\ DOMAIN AgentsOf(s, h) = 1..n
<1> DEFINE plan == PlanOf(s, h)
           lead == Agent("coordinator", s.team.coordinator, None, plan.coordinator.profile,
                         s.roles, h, s.team)
           member(k) == Agent("member", plan.seats[k].role, plan.seats[k].label,
                              plan.seats[k].selected.profile, s.roles, h, s.team)
           rest == [k \in DOMAIN plan.seats |-> member(k)]
<1>1. AgentsOf(s, h) = <<lead>> \o rest
  BY DEF AgentsOf, Agents
<1>2. PICK n \in Nat : DOMAIN plan.seats = 1..n
  BY LaunchableHasAll
<1> HIDE DEF plan, lead, member
<1>3. rest \in Seq(RangeOf(rest)) /\ Len(rest) = n
  BY SMTT(40), <1>2 DEF RangeOf
<1> HIDE DEF rest
<1>4. <<lead>> \in Seq({lead}) /\ Len(<<lead>>) = 1
  OBVIOUS
<1>5. <<lead>> \in Seq({lead} \cup RangeOf(rest)) /\ rest \in Seq({lead} \cup RangeOf(rest))
  BY <1>3, <1>4, SeqMonotonic
<1>6. /\ <<lead>> \o rest \in Seq({lead} \cup RangeOf(rest))
      /\ Len(<<lead>> \o rest) = 1 + n
  BY <1>3, <1>4, <1>5, ConcatProperties
<1>7. DOMAIN (<<lead>> \o rest) = 1..(1 + n)
  BY SMTT(40), <1>6, LenProperties
<1> QED
  BY <1>1, <1>2, <1>6, <1>7

\* Two plans with one fingerprint have the same agents.
LEMMA FingerprintFixesAgents ==
  ASSUME WellFormed, NEW s, NEW h, CanLaunch(s, h), NEW t, NEW g, CanLaunch(t, g),
         FingerprintOf(s, h) = FingerprintOf(t, g)
  PROVE  AgentsOf(s, h) = AgentsOf(t, g)
<1> DEFINE
      plan(x, y) == PlanOf(x, y)
      selected(x, y) == {plan(x, y).seats[k].selected.profile : k \in DOMAIN plan(x, y).seats}
                        \cup {plan(x, y).coordinator.profile}
      profiles(x, y) == [p \in selected(x, y) \cap DOMAIN y.profiles |-> y.profiles[p]]
      used1(x) == [r \in Referenced(x.team, x.roles) |-> x.roles[r]]
      seats(x, y) == [k \in DOMAIN plan(x, y).seats |->
                        [role |-> plan(x, y).seats[k].role, label |-> plan(x, y).seats[k].label,
                         selected |-> plan(x, y).seats[k].selected]]
<1>1. ASSUME NEW x, NEW y, CanLaunch(x, y)
      PROVE  /\ FingerprintOf(x, y).team = x.team
             /\ FingerprintOf(x, y).roles = used1(x)
             /\ FingerprintOf(x, y).coordinator = plan(x, y).coordinator
             /\ FingerprintOf(x, y).seats = seats(x, y)
             /\ FingerprintOf(x, y).profiles = profiles(x, y)
  <2>1. y.ready /\ plan(x, y).coordinator # None
    BY <1>1, LaunchableHasAll
  <2> QED
    BY <2>1 DEF FingerprintOf, Fingerprint
<1>2. /\ s.team = t.team
      /\ used1(s) = used1(t)
      /\ plan(s, h).coordinator = plan(t, g).coordinator
      /\ seats(s, h) = seats(t, g)
      /\ profiles(s, h) = profiles(t, g)
  <2> HIDE DEF plan, used1, seats, profiles
  <2>1. /\ FingerprintOf(s, h).team = s.team
        /\ FingerprintOf(s, h).roles = used1(s)
        /\ FingerprintOf(s, h).coordinator = plan(s, h).coordinator
        /\ FingerprintOf(s, h).seats = seats(s, h)
        /\ FingerprintOf(s, h).profiles = profiles(s, h)
    BY <1>1
  <2>2. /\ FingerprintOf(t, g).team = t.team
        /\ FingerprintOf(t, g).roles = used1(t)
        /\ FingerprintOf(t, g).coordinator = plan(t, g).coordinator
        /\ FingerprintOf(t, g).seats = seats(t, g)
        /\ FingerprintOf(t, g).profiles = profiles(t, g)
    BY <1>1
  <2> QED
    BY <2>1, <2>2
<1>3. ASSUME NEW r \in Referenced(s.team, s.roles)
      PROVE  r \in Referenced(t.team, t.roles) /\ s.roles[r] = t.roles[r]
  <2>1. DOMAIN used1(s) = DOMAIN used1(t) /\ used1(s)[r] = used1(t)[r]
    BY <1>2
  <2> QED
    BY <2>1
<1>4. ASSUME NEW p \in selected(s, h), p \in DOMAIN h.profiles
      PROVE  h.profiles[p] = g.profiles[p]
  <2> HIDE DEF selected
  <2>1. p \in DOMAIN profiles(s, h) /\ profiles(s, h)[p] = h.profiles[p]
    BY <1>4
  <2>2. p \in DOMAIN profiles(t, g) /\ profiles(t, g)[p] = h.profiles[p]
    BY <1>2, <2>1
  <2> QED
    BY <2>2
<1>5. /\ DOMAIN plan(s, h).seats = DOMAIN plan(t, g).seats
      /\ \A k \in DOMAIN plan(s, h).seats :
           /\ plan(s, h).seats[k].role = plan(t, g).seats[k].role
           /\ plan(s, h).seats[k].label = plan(t, g).seats[k].label
           /\ plan(s, h).seats[k].selected = plan(t, g).seats[k].selected
  <2> HIDE DEF plan
  <2>1. DOMAIN seats(s, h) = DOMAIN seats(t, g)
    BY <1>2
  <2>2. ASSUME NEW k \in DOMAIN plan(s, h).seats
        PROVE  seats(s, h)[k] = seats(t, g)[k]
    BY <1>2
  <2>3. ASSUME NEW k \in DOMAIN plan(s, h).seats
        PROVE  /\ plan(s, h).seats[k].role = plan(t, g).seats[k].role
               /\ plan(s, h).seats[k].label = plan(t, g).seats[k].label
               /\ plan(s, h).seats[k].selected = plan(t, g).seats[k].selected
    <3>1. k \in DOMAIN plan(t, g).seats
      BY <2>1
    <3>2. [role |-> plan(s, h).seats[k].role, label |-> plan(s, h).seats[k].label,
           selected |-> plan(s, h).seats[k].selected]
          = [role |-> plan(t, g).seats[k].role, label |-> plan(t, g).seats[k].label,
             selected |-> plan(t, g).seats[k].selected]
      BY <2>2, <3>1
    <3> QED
      BY <3>2
  <2> QED
    BY <2>1, <2>3
<1>6. /\ s.team.coordinator \in Referenced(s.team, s.roles)
      /\ plan(s, h).coordinator.profile \in DOMAIN h.profiles
      /\ \A k \in DOMAIN plan(s, h).seats :
           /\ plan(s, h).seats[k].role \in Referenced(s.team, s.roles)
           /\ plan(s, h).seats[k].selected.profile \in DOMAIN h.profiles
  <2>1. PICK n \in Nat : /\ DOMAIN PlanOf(s, h).seats = 1..n
                         /\ \A k \in 1..n :
                              /\ PlanOf(s, h).seats[k].role \in Referenced(s.team, s.roles)
                              /\ PlanOf(s, h).seats[k].selected.profile \in DOMAIN h.profiles
    BY LaunchableHasAll
  <2>2. /\ s.team.coordinator \in Referenced(s.team, s.roles)
        /\ PlanOf(s, h).coordinator.profile \in DOMAIN h.profiles
    BY LaunchableHasAll
  <2> QED
    BY <2>1, <2>2
<1> HIDE DEF plan, used1, seats, profiles
<1> DEFINE
      lead(x, y) == Agent("coordinator", x.team.coordinator, None, plan(x, y).coordinator.profile,
                          x.roles, y, x.team)
      member(x, y, k) == Agent("member", plan(x, y).seats[k].role, plan(x, y).seats[k].label,
                               plan(x, y).seats[k].selected.profile, x.roles, y, x.team)
<1>7. lead(s, h) = lead(t, g)
  <2>1. plan(s, h).coordinator.profile \in selected(s, h)
    BY SMTT(40)
  <2> QED
    BY SMTT(40), <1>2, <1>3, <1>4, <1>6, <2>1 DEF Agent
<1>8. ASSUME NEW k \in DOMAIN plan(s, h).seats
      PROVE  member(s, h, k) = member(t, g, k)
  <2>1. plan(s, h).seats[k].selected.profile \in selected(s, h)
    OBVIOUS
  <2> QED
    BY <1>2, <1>3, <1>4, <1>5, <1>6, <2>1 DEF Agent
<1>9. AgentsOf(s, h) = <<lead(s, h)>> \o [k \in DOMAIN plan(s, h).seats |-> member(s, h, k)]
  BY DEF AgentsOf, Agents, plan
<1>10. AgentsOf(t, g) = <<lead(t, g)>> \o [k \in DOMAIN plan(t, g).seats |-> member(t, g, k)]
  BY DEF AgentsOf, Agents, plan
<1> HIDE DEF lead, member
<1> QED
  BY <1>5, <1>7, <1>8, <1>9, <1>10

-----------------------------------------------------------------------------
(* The invariant. *)
\* What a plan that was confirmed looks like: hash and agents are those of
\* settings and a host that could be launched.
Confirmed(hash, plan) ==
  \E s \in Catalogs, h \in Hosts, t \in Tasks :
    /\ CanLaunch(s, h)
    /\ hash = <<FingerprintOf(s, h), t>> /\ plan = AgentsOf(s, h)

\* The values of the records.
Plans == {AgentsOf(s, h) : s \in Catalogs, h \in Hosts} \cup {<<>>}
Hashes == {<<FingerprintOf(s, h), t>> : s \in Catalogs, h \in Hosts, t \in Tasks} \cup {None}
Refusals == {PlanOf(s, h).blockers : s \in Catalogs, h \in Hosts} \cup {{"no-team"}}
Shown == [task : Tasks, blockers : Refusals, hash : Hashes, agents : Plans]
JobStates == {"running", "succeeded", "failed", "dead"}
Dialogs ==
  [task : Tasks, shown : Shown \cup {None}, fetching : BOOLEAN, starting : BOOLEAN,
   job : [run : Nat, state : JobStates] \cup {None}, error : BOOLEAN]
Calls ==
  [kind : {"preview", "start"}, task : Tasks, hash : Hashes, seen : Plans \cup {None},
   read : Catalogs \cup {None}]
LaunchJobs ==
  [state : JobStates, step : Steps, plan : Plans,
   seen : Plans \cup {None}, archive : {s.archive : s \in Catalogs}, created : Nat,
   kept : SUBSET Nat, archived : BOOLEAN, missed : SUBSET Nat]
OnHost == [run : Nat, place : Nat, known : BOOLEAN, archived : BOOLEAN]
Types ==
  /\ settings \in Catalogs /\ host \in Hosts
  /\ dialog \in Dialogs /\ calls \in SUBSET Calls
  /\ launches \in Seq(LaunchJobs) /\ listed \in SUBSET DOMAIN launches /\ agents \in SUBSET OnHost

\* Every plan on its way to a job is one that could be launched, with its hash.
ShownIsConfirmed ==
  dialog.shown # None /\ dialog.shown.blockers = {} =>
    Confirmed(dialog.shown.hash, dialog.shown.agents)
CallsAreConfirmed == \A c \in calls : c.kind = "start" => Confirmed(c.hash, c.seen)
RefersToJobs ==
  /\ dialog.job # None => dialog.job.run \in DOMAIN launches
  /\ \A a \in agents : a.run \in DOMAIN launches /\ a.place \in DOMAIN launches[a.run].plan

\* The agents that a job knows of are those it created, one for each place.
Places(set) == {a.place : a \in set}
KnowsItsAgents(r) ==
  /\ Places(Created(r)) = 1..launches[r].created
  /\ \A a, b \in Created(r) : a.place = b.place => a = b
\* How far a job is, and what it has created by then.
Progress(r) ==
  LET job == launches[r] IN
  /\ Len(job.plan) \in Nat \ {0} /\ DOMAIN job.plan = 1..Len(job.plan)
  /\ job.created <= Len(job.plan)
  /\ job.state = "running" =>
       /\ job.step # "done" /\ ~job.archived /\ job.kept = {}
       /\ job.step \in {"workspace", "coordinator"} => job.created = 0
       /\ job.step = "member" => job.created < Len(job.plan)
       /\ job.step = "kickoff" => job.created = Len(job.plan)
\* Nothing is archived before the job archives, and then whatever was not missed.
Archiving(r) ==
  launches[r].state = "running" =>
    IF launches[r].step = "archiving"
    THEN launches[r].missed \subseteq Places({a \in Created(r) : ~a.archived})
    ELSE launches[r].missed = {} /\ \A a \in Created(r) : ~a.archived
\* What a job that is over says.
Left(r) == {a.place : a \in {x \in agents : x.run = r /\ x.known /\ ~x.archived}}
TellsTruth(r) ==
  LET job == launches[r] IN
  CASE job.state = "succeeded" -> Left(r) = DOMAIN job.plan
    [] job.state = "failed" -> Left(r) = IF job.archived THEN job.missed ELSE job.kept
    [] OTHER -> TRUE
JobInv(r) ==
  /\ launches[r].plan = launches[r].seen
  /\ KnowsItsAgents(r) /\ Progress(r) /\ Archiving(r) /\ TellsTruth(r)

LaunchInv ==
  /\ Types /\ ShownIsConfirmed /\ CallsAreConfirmed /\ RefersToJobs
  /\ \A r \in DOMAIN launches : JobInv(r)

-----------------------------------------------------------------------------
(* The plans. *)
\* What the service prepares from settings it read and a host.
LEMMA PreparedIsAPlan ==
  ASSUME NEW c, c.read \in Catalogs, c.task \in Tasks, host \in Hosts
  PROVE  /\ Prepared(c) \in [blockers : Refusals, hash : Hashes, agents : Plans]
         /\ Prepared(c).blockers = {} => Confirmed(Prepared(c).hash, Prepared(c).agents)
<1> DEFINE s == c.read
<1>1. CASE s.team = None
  <2>1. Prepared(c) = [blockers |-> {"no-team"}, hash |-> None, agents |-> <<>>]
    BY <1>1 DEF Prepared, PlanAnswer
  <2>2. {"no-team"} \in Refusals /\ None \in Hashes /\ <<>> \in Plans
    BY DEF Refusals, Hashes, Plans
  <2>3. Prepared(c).blockers # {}
    BY <2>1
  <2> QED
    BY <2>1, <2>2, <2>3
<1>2. CASE s.team # None
  <2> DEFINE b == PlanOf(s, host).blockers
             hash == <<FingerprintOf(s, host), c.task>>
             plan == IF b = {} THEN AgentsOf(s, host) ELSE <<>>
  <2>1. Prepared(c) = [blockers |-> b, hash |-> hash, agents |-> plan]
    BY <1>2 DEF Prepared, PlanAnswer, PlanOf, FingerprintOf, AgentsOf
  <2>2. b \in Refusals /\ hash \in Hashes /\ plan \in Plans
    <3>1. b \in Refusals
      BY DEF Refusals
    <3>2. hash \in Hashes
      BY DEF Hashes
    <3>3. plan \in Plans
      BY DEF Plans
    <3> QED
      BY <3>1, <3>2, <3>3
  <2>3. b = {} => Confirmed(hash, plan)
    BY <1>2 DEF Confirmed, CanLaunch
  <2> HIDE DEF b, hash, plan
  <2> QED
    BY <2>1, <2>2, <2>3
<1> QED
  BY <1>1, <1>2

\* One hash, one list of agents, which is not empty.
LEMMA ConfirmedIsOne ==
  ASSUME WellFormed, NEW hash, NEW p, NEW q, Confirmed(hash, p), Confirmed(hash, q)
  PROVE  /\ p = q
         /\ p \in Plans
         /\ Len(p) \in Nat \ {0} /\ DOMAIN p = 1..Len(p)
<1>1. PICK s \in Catalogs, h \in Hosts, t \in Tasks :
        CanLaunch(s, h) /\ hash = <<FingerprintOf(s, h), t>> /\ p = AgentsOf(s, h)
  BY DEF Confirmed
<1>2. PICK x \in Catalogs, y \in Hosts, z \in Tasks :
        CanLaunch(x, y) /\ hash = <<FingerprintOf(x, y), z>> /\ q = AgentsOf(x, y)
  BY DEF Confirmed
<1>3. FingerprintOf(s, h) = FingerprintOf(x, y)
  BY <1>1, <1>2
<1>4. p = q
  BY <1>1, <1>2, <1>3, FingerprintFixesAgents
<1>5. \E n \in Nat \ {0} : Len(p) = n /\ DOMAIN p = 1..n
  BY <1>1, AgentsAreAList
<1>6. p \in Plans
  BY <1>1 DEF Plans
<1> QED
  BY <1>4, <1>5, <1>6

-----------------------------------------------------------------------------
(* The steps of a job. *)
\* A step of one job leaves the others as they are.
LEMMA OneJobMoves ==
  ASSUME LaunchInv, NEW r \in DOMAIN launches, NEW job \in LaunchJobs,
         launches' = [launches EXCEPT ![r] = job], job.plan = launches[r].plan,
         agents' \in SUBSET OnHost,
         \A a \in OnHost : a.run # r => (a \in agents' <=> a \in agents),
         \A a \in agents' : a.run = r => a.place \in DOMAIN job.plan,
         JobInv(r)', UNCHANGED <<settings, host, dialog, calls, listed>>
  PROVE  LaunchInv'
<1>1. launches' \in Seq(LaunchJobs) /\ DOMAIN launches' = DOMAIN launches
  BY DEF LaunchInv, Types
<1>2. launches'[r] = job /\ \A q \in DOMAIN launches : q # r => launches'[q] = launches[q]
  BY DEF LaunchInv, Types
<1>3. Types'
  BY <1>1 DEF LaunchInv, Types
<1>4. ShownIsConfirmed' /\ CallsAreConfirmed'
  BY DEF LaunchInv, ShownIsConfirmed, CallsAreConfirmed
<1>5. RefersToJobs'
  <2>1. dialog'.job # None => dialog'.job.run \in DOMAIN launches'
    BY <1>1 DEF LaunchInv, RefersToJobs
  <2>2. ASSUME NEW a \in agents'
        PROVE  a.run \in DOMAIN launches' /\ a.place \in DOMAIN launches'[a.run].plan
    <3>1. CASE a.run = r
      BY <1>1, <1>2, <3>1
    <3>2. CASE a.run # r
      <4>1. a \in agents
        BY <3>2
      <4>2. a.run \in DOMAIN launches /\ a.place \in DOMAIN launches[a.run].plan
        BY <4>1 DEF LaunchInv, RefersToJobs
      <4> QED
        BY <1>1, <1>2, <3>2, <4>2
    <3> QED
      BY <3>1, <3>2
  <2> QED
    BY <2>1, <2>2 DEF RefersToJobs
<1>6. ASSUME NEW q \in DOMAIN launches', q # r PROVE JobInv(q)'
  <2>1. JobInv(q) /\ launches'[q] = launches[q]
    BY <1>1, <1>2, <1>6 DEF LaunchInv
  <2>2. agents \subseteq OnHost
    BY DEF LaunchInv, Types
  <2>3. Created(q)' = Created(q) /\ Left(q)' = Left(q)
    BY <1>6, <2>2 DEF Created, Left
  <2> QED
    BY <2>1, <2>3 DEF JobInv, KnowsItsAgents, Progress, Archiving, TellsTruth
<1> QED
  BY <1>1, <1>3, <1>4, <1>5, <1>6 DEF LaunchInv

\* A job that a step takes up, as the invariant has it.
LEMMA JobOf ==
  ASSUME LaunchInv, NEW r \in DOMAIN launches
  PROVE  /\ launches[r] \in LaunchJobs /\ JobInv(r)
         /\ agents \in SUBSET OnHost
         /\ \A a \in agents : a.run = r => a.place \in DOMAIN launches[r].plan
<1>1. launches[r] \in LaunchJobs
  <2>1. launches \in Seq(LaunchJobs)
    BY DEF LaunchInv, Types
  <2> QED
    BY <2>1
<1> QED
  BY <1>1 DEF LaunchInv, Types, RefersToJobs

LEMMA MakeWorkspaceKeeps ==
  ASSUME LaunchInv, NEW r \in DOMAIN launches, NEW fails \in BOOLEAN, MakeWorkspace(r, fails)
  PROVE  LaunchInv'
<1> DEFINE job == IF fails THEN Failed(launches[r]) ELSE [launches[r] EXCEPT !.step = "coordinator"]
<1>1. /\ launches[r].state = "running" /\ launches[r].step = "workspace"
      /\ launches' = [launches EXCEPT ![r] = job]
      /\ UNCHANGED <<settings, host, dialog, calls, listed, agents>>
  BY DEF MakeWorkspace, Works, JobTo
<1>2. /\ launches[r] \in LaunchJobs /\ JobInv(r) /\ agents \in SUBSET OnHost
      /\ \A a \in agents : a.run = r => a.place \in DOMAIN launches[r].plan
  BY JobOf
<1>3. /\ job \in LaunchJobs
      /\ job.state = IF fails THEN "failed" ELSE "running"
      /\ job.step = IF fails THEN "workspace" ELSE "coordinator"
      /\ job.plan = launches[r].plan /\ job.seen = launches[r].seen
      /\ job.created = launches[r].created
      /\ job.kept = launches[r].kept /\ job.archived = launches[r].archived
      /\ job.missed = launches[r].missed
  BY <1>1, <1>2 DEF LaunchJobs, Failed, Steps, JobStates
<1> HIDE DEF job
<1>4. launches'[r] = job
  BY <1>1
<1>5. Created(r)' = Created(r) /\ Left(r)' = Left(r)
  BY <1>1 DEF Created, Left
<1>6. KnowsItsAgents(r)' /\ Progress(r)' /\ Archiving(r)'
  BY <1>1, <1>2, <1>3, <1>4, <1>5 DEF JobInv, KnowsItsAgents, Progress, Archiving
<1>7. fails => Left(r) = {}
  <2>1. Places(Created(r)) = {}
    BY <1>1, <1>2 DEF JobInv, KnowsItsAgents, Progress
  <2> QED
    BY <2>1 DEF Places, Created, Left
<1>8. TellsTruth(r)'
  <2>1. launches[r].archived = FALSE /\ launches[r].kept = {}
    BY <1>1, <1>2 DEF JobInv, Progress, LaunchJobs, JobStates
  <2>2. CASE fails
    BY <1>3, <1>4, <1>5, <1>7, <2>1, <2>2 DEF TellsTruth
  <2>3. CASE ~fails
    BY <1>3, <1>4, <2>3 DEF TellsTruth
  <2> QED
    BY <2>2, <2>3
<1>9. JobInv(r)'
  BY <1>2, <1>3, <1>4, <1>6, <1>8 DEF JobInv
<1> QED
  BY <1>1, <1>2, <1>3, <1>9, OneJobMoves

LEMMA CreateAgentKeeps ==
  ASSUME LaunchInv, NEW r \in DOMAIN launches, CreateAgent(r)
  PROVE  LaunchInv'
<1> DEFINE made == launches[r].created + 1
           next == NextStep(launches[r], made)
           job == [launches[r] EXCEPT !.created = made, !.step = next]
           new == [run |-> r, place |-> made, known |-> TRUE, archived |-> FALSE]
<1>1. /\ launches[r].state = "running" /\ launches[r].step \in {"coordinator", "member"}
      /\ launches' = [launches EXCEPT ![r] = job]
      /\ agents' = agents \cup {new}
      /\ UNCHANGED <<settings, host, dialog, calls, listed>>
  BY DEF CreateAgent, Works, JobTo, NewAgent
<1>2. /\ launches[r] \in LaunchJobs /\ JobInv(r) /\ agents \in SUBSET OnHost
      /\ \A a \in agents : a.run = r => a.place \in DOMAIN launches[r].plan
  BY JobOf
<1>3. r \in Nat /\ made \in Nat /\ made \in DOMAIN launches[r].plan
  <2>1. r \in Nat
    BY DEF LaunchInv, Types
  <2>2. /\ Len(launches[r].plan) \in Nat \ {0} /\ DOMAIN launches[r].plan = 1..Len(launches[r].plan)
        /\ launches[r].created \in Nat /\ launches[r].created < Len(launches[r].plan)
    BY <1>1, <1>2 DEF JobInv, Progress, LaunchJobs, JobStates
  <2> QED
    BY <2>1, <2>2
<1>4. /\ job \in LaunchJobs /\ job.state = "running" /\ job.created = made
      /\ job.step = IF made = Len(launches[r].plan) THEN "kickoff" ELSE "member"
      /\ job.plan = launches[r].plan /\ job.seen = launches[r].seen
      /\ job.kept = launches[r].kept /\ job.archived = launches[r].archived
      /\ job.missed = launches[r].missed
  <2>1. next \in Steps /\ next = IF made = Len(launches[r].plan) THEN "kickoff" ELSE "member"
    BY DEF NextStep, Steps
  <2> HIDE DEF next, made
  <2> QED
    BY <1>1, <1>2, <1>3, <2>1 DEF LaunchJobs, JobStates
<1>5. new \in OnHost /\ new.run = r /\ new.place = made /\ new.known /\ ~new.archived
  BY <1>3 DEF OnHost
<1> HIDE DEF job, new
<1>6. launches'[r] = job
  BY <1>1
<1>7. Created(r)' = Created(r) \cup {new}
  BY <1>1, <1>5 DEF Created
<1>8. Places(Created(r)) = 1..launches[r].created /\ launches[r].created \in Nat
  BY <1>2 DEF JobInv, KnowsItsAgents, LaunchJobs, JobStates
<1>9. \A a \in Created(r) : a.place \in 1..launches[r].created
  BY <1>8 DEF Places
<1>10. KnowsItsAgents(r)'
  <2>1. Places(Created(r)') = Places(Created(r)) \cup {made}
    BY <1>5, <1>7 DEF Places
  <2>2. Places(Created(r)') = 1..made
    BY <1>8, <2>1
  <2>3. ASSUME NEW a \in Created(r)', NEW b \in Created(r)', a.place = b.place PROVE a = b
    <3>1. CASE a \in Created(r) /\ b \in Created(r)
      BY <1>2, <2>3, <3>1 DEF JobInv, KnowsItsAgents
    <3>2. \A x \in Created(r) : x.place # made
      BY <1>8, <1>9
    <3> QED
      BY <1>5, <1>7, <2>3, <3>1, <3>2
  <2>4. Places(Created(r))' = Places(Created(r)')
    BY DEF Places
  <2> QED
    BY <1>4, <1>6, <2>2, <2>3, <2>4 DEF KnowsItsAgents
<1>11. Progress(r)'
  BY <1>1, <1>2, <1>3, <1>4, <1>6 DEF JobInv, Progress
<1>12. Archiving(r)'
  BY <1>1, <1>2, <1>4, <1>5, <1>6, <1>7 DEF JobInv, Archiving
<1>13. TellsTruth(r)'
  BY <1>4, <1>6 DEF TellsTruth
<1>14. JobInv(r)'
  BY <1>2, <1>4, <1>6, <1>10, <1>11, <1>12, <1>13 DEF JobInv
<1>15. /\ agents' \in SUBSET OnHost
       /\ \A a \in OnHost : a.run # r => (a \in agents' <=> a \in agents)
       /\ \A a \in agents' : a.run = r => a.place \in DOMAIN job.plan
  BY <1>1, <1>2, <1>3, <1>4, <1>5
<1> QED
  BY <1>1, <1>4, <1>14, <1>15, OneJobMoves

LEMMA CreateFailsKeeps ==
  ASSUME LaunchInv, NEW r \in DOMAIN launches, NEW effect \in BOOLEAN, CreateFails(r, effect)
  PROVE  LaunchInv'
<1> DEFINE on == launches[r].step = "member" /\ launches[r].archive
           job == IF on THEN [launches[r] EXCEPT !.step = "archiving"]
                  ELSE [Failed(launches[r]) EXCEPT !.kept = Kept(r)]
           made == launches[r].created + 1
           new == [run |-> r, place |-> made, known |-> FALSE, archived |-> FALSE]
<1>1. /\ launches[r].state = "running" /\ launches[r].step \in {"coordinator", "member"}
      /\ launches' = [launches EXCEPT ![r] = job]
      /\ agents' = IF effect THEN agents \cup {new} ELSE agents
      /\ UNCHANGED <<settings, host, dialog, calls, listed>>
  BY DEF CreateFails, Works, JobTo, NewAgent
<1>2. /\ launches[r] \in LaunchJobs /\ JobInv(r) /\ agents \in SUBSET OnHost
      /\ \A a \in agents : a.run = r => a.place \in DOMAIN launches[r].plan
  BY JobOf
<1>3. r \in Nat /\ made \in Nat /\ made \in DOMAIN launches[r].plan
  <2>1. r \in Nat
    BY DEF LaunchInv, Types
  <2>2. /\ Len(launches[r].plan) \in Nat \ {0} /\ DOMAIN launches[r].plan = 1..Len(launches[r].plan)
        /\ launches[r].created \in Nat /\ launches[r].created < Len(launches[r].plan)
    BY <1>1, <1>2 DEF JobInv, Progress, LaunchJobs, JobStates
  <2> QED
    BY <2>1, <2>2
<1>4. Kept(r) \in SUBSET Nat
  BY <1>2 DEF Kept, Created, OnHost
<1>5. /\ job \in LaunchJobs
      /\ on => job.state = "running" /\ job.step = "archiving" /\ job.kept = launches[r].kept
      /\ ~on => job.state = "failed" /\ job.kept = Kept(r)
      /\ job.plan = launches[r].plan /\ job.seen = launches[r].seen
      /\ job.created = launches[r].created
      /\ job.archived = launches[r].archived /\ job.missed = launches[r].missed
  BY <1>1, <1>2, <1>4 DEF LaunchJobs, Failed, Steps, JobStates
<1>6. new \in OnHost /\ new.run = r /\ new.place = made /\ ~new.known
  BY <1>3 DEF OnHost
<1> HIDE DEF job, new, on
<1>7. launches'[r] = job
  BY <1>1
<1>8. Created(r)' = Created(r) /\ Left(r)' = Left(r)
  BY <1>1, <1>6 DEF Created, Left
<1>9. \A a \in Created(r) : ~a.archived
  BY <1>1, <1>2 DEF JobInv, Archiving
<1>10. KnowsItsAgents(r)' /\ Progress(r)'
  BY <1>1, <1>2, <1>5, <1>7, <1>8 DEF JobInv, KnowsItsAgents, Progress
<1>11. Archiving(r)'
  <2>1. launches[r].missed = {}
    BY <1>1, <1>2 DEF JobInv, Archiving
  <2> QED
    BY <1>5, <1>7, <2>1 DEF Archiving
<1>12. TellsTruth(r)'
  <2>1. Left(r) = Kept(r)
    BY <1>9 DEF Left, Kept, Created
  <2>2. launches[r].archived = FALSE
    BY <1>1, <1>2 DEF JobInv, Progress, LaunchJobs, JobStates
  <2>3. CASE on
    BY <1>5, <1>7, <2>3 DEF TellsTruth
  <2>4. CASE ~on
    BY <1>5, <1>7, <1>8, <2>1, <2>2, <2>4 DEF TellsTruth
  <2> QED
    BY <2>3, <2>4
<1>13. JobInv(r)'
  BY <1>2, <1>5, <1>7, <1>10, <1>11, <1>12 DEF JobInv
<1>14. /\ agents' \in SUBSET OnHost
       /\ \A a \in OnHost : a.run # r => (a \in agents' <=> a \in agents)
       /\ \A a \in agents' : a.run = r => a.place \in DOMAIN job.plan
  BY <1>1, <1>2, <1>3, <1>5, <1>6
<1> QED
  BY <1>1, <1>5, <1>13, <1>14, OneJobMoves

LEMMA ArchiveKeeps ==
  ASSUME LaunchInv, NEW r \in DOMAIN launches, NEW fails \in BOOLEAN, Archive(r, fails)
  PROVE  LaunchInv'
<1> DEFINE a == CHOOSE x \in Unarchived(r) : \A y \in Unarchived(r) : x.place <= y.place
           done == [a EXCEPT !.archived = TRUE]
           missed == launches[r].missed \cup {a.place}
           job == IF fails THEN [launches[r] EXCEPT !.missed = missed] ELSE launches[r]
<1>1. /\ launches[r].state = "running" /\ launches[r].step = "archiving" /\ Unarchived(r) # {}
      /\ launches' = [launches EXCEPT ![r] = job]
      /\ agents' = IF fails THEN agents ELSE (agents \ {a}) \cup {done}
      /\ UNCHANGED <<settings, host, dialog, calls, listed>>
  BY DEF Archive, Works, JobTo
<1>2. /\ launches[r] \in LaunchJobs /\ JobInv(r) /\ agents \in SUBSET OnHost
      /\ \A x \in agents : x.run = r => x.place \in DOMAIN launches[r].plan
  BY JobOf
<1>3. a \in Unarchived(r)
  <2> DEFINE T == {x.place : x \in Unarchived(r)}
  <2>1. T \subseteq Nat /\ T # {}
    BY <1>1, <1>2 DEF Unarchived, Created, OnHost
  <2>2. PICK n \in T : \A m \in T : ~(m < n)
    <3> HIDE DEF T
    <3> QED
      BY <2>1, LeastElement
  <2>3. PICK x \in Unarchived(r) : x.place = n
    OBVIOUS
  <2>4. \A y \in Unarchived(r) : x.place <= y.place
    BY SMTT(40), <2>1, <2>2, <2>3
  <2> QED
    BY <2>4
<1> HIDE DEF a
<1>4. /\ a \in agents /\ a \in OnHost /\ a.run = r /\ a.known /\ ~a.archived
      /\ a.place \notin launches[r].missed /\ a \in Created(r)
  BY <1>2, <1>3 DEF Unarchived, Created
<1>5. /\ done \in OnHost /\ done.run = r /\ done.place = a.place /\ done.known /\ done.archived
  BY <1>4 DEF OnHost
<1>6. /\ job \in LaunchJobs /\ job.state = "running" /\ job.step = "archiving"
      /\ job.missed = IF fails THEN missed ELSE launches[r].missed
      /\ job.plan = launches[r].plan /\ job.seen = launches[r].seen
      /\ job.created = launches[r].created
      /\ job.kept = launches[r].kept /\ job.archived = launches[r].archived
  <2>1. missed \in SUBSET Nat
    BY <1>2, <1>4 DEF LaunchJobs, OnHost, JobStates
  <2> HIDE DEF missed
  <2> QED
    BY <1>1, <1>2, <2>1 DEF LaunchJobs, JobStates
<1> HIDE DEF job, done
<1>7. launches'[r] = job
  BY <1>1
<1>8. Created(r)' = IF fails THEN Created(r) ELSE (Created(r) \ {a}) \cup {done}
  BY <1>1, <1>4, <1>5 DEF Created
<1>9. KnowsItsAgents(r)'
  <2>1. /\ Places(Created(r)) = 1..launches[r].created
        /\ \A x, y \in Created(r) : x.place = y.place => x = y
    BY <1>2 DEF JobInv, KnowsItsAgents
  <2>2. Places(Created(r))' = Places(Created(r))
    <3>1. \A p : (\E x \in Created(r) : x.place = p) <=> (\E x \in Created(r)' : x.place = p)
      BY <1>4, <1>5, <1>8
    <3> QED
      BY <3>1 DEF Places
  <2>3. ASSUME NEW x \in Created(r)', NEW y \in Created(r)', x.place = y.place PROVE x = y
    BY <1>4, <1>5, <1>8, <2>1, <2>3
  <2> QED
    BY <1>6, <1>7, <2>1, <2>2, <2>3 DEF KnowsItsAgents
<1>10. Progress(r)'
  BY <1>1, <1>2, <1>6, <1>7 DEF JobInv, Progress
<1>11. Archiving(r)'
  <2>1. launches[r].missed \subseteq Places({x \in Created(r) : ~x.archived})
    BY <1>1, <1>2 DEF JobInv, Archiving
  <2>2. ASSUME NEW p \in job.missed PROVE \E x \in Created(r)' : ~x.archived /\ x.place = p
    <3>1. CASE fails
      BY <1>4, <1>6, <1>8, <2>1, <2>2, <3>1 DEF Places
    <3>2. CASE ~fails
      BY <1>4, <1>6, <1>8, <2>1, <2>2, <3>2 DEF Places
    <3> QED
      BY <3>1, <3>2
  <2> QED
    BY <1>6, <1>7, <2>2 DEF Archiving, Places
<1>12. TellsTruth(r)'
  BY <1>6, <1>7 DEF TellsTruth
<1>13. JobInv(r)'
  BY <1>2, <1>6, <1>7, <1>9, <1>10, <1>11, <1>12 DEF JobInv
<1>14. /\ agents' \in SUBSET OnHost
       /\ \A x \in OnHost : x.run # r => (x \in agents' <=> x \in agents)
       /\ \A x \in agents' : x.run = r => x.place \in DOMAIN job.plan
  BY <1>1, <1>2, <1>4, <1>5, <1>6
<1> QED
  BY <1>1, <1>6, <1>13, <1>14, OneJobMoves

LEMMA ArchiveEndsKeeps ==
  ASSUME LaunchInv, NEW r \in DOMAIN launches, ArchiveEnds(r)
  PROVE  LaunchInv'
<1> DEFINE job == [Failed(launches[r]) EXCEPT !.archived = TRUE]
<1>1. /\ launches[r].state = "running" /\ launches[r].step = "archiving" /\ Unarchived(r) = {}
      /\ launches' = [launches EXCEPT ![r] = job]
      /\ UNCHANGED <<settings, host, dialog, calls, listed, agents>>
  BY DEF ArchiveEnds, Works, JobTo
<1>2. /\ launches[r] \in LaunchJobs /\ JobInv(r) /\ agents \in SUBSET OnHost
      /\ \A x \in agents : x.run = r => x.place \in DOMAIN launches[r].plan
  BY JobOf
<1>3. /\ job \in LaunchJobs /\ job.state = "failed" /\ job.archived = TRUE
      /\ job.plan = launches[r].plan /\ job.seen = launches[r].seen
      /\ job.created = launches[r].created
      /\ job.missed = launches[r].missed
  BY <1>1, <1>2 DEF LaunchJobs, Failed, JobStates
<1> HIDE DEF job
<1>4. launches'[r] = job
  BY <1>1
<1>5. Created(r)' = Created(r) /\ Left(r)' = Left(r)
  BY <1>1 DEF Created, Left
<1>6. KnowsItsAgents(r)' /\ Progress(r)' /\ Archiving(r)'
  BY <1>2, <1>3, <1>4, <1>5 DEF JobInv, KnowsItsAgents, Progress, Archiving
<1>7. Left(r) = launches[r].missed
  <2>1. launches[r].missed \subseteq Places({x \in Created(r) : ~x.archived})
    BY <1>1, <1>2 DEF JobInv, Archiving
  <2>2. \A x \in Created(r) : ~x.archived => x.place \in launches[r].missed
    BY <1>1 DEF Unarchived
  <2>3. Left(r) = Places({x \in Created(r) : ~x.archived})
    BY DEF Left, Places, Created
  <2> QED
    BY <2>1, <2>2, <2>3 DEF Places
<1>8. TellsTruth(r)'
  BY <1>3, <1>4, <1>5, <1>7 DEF TellsTruth
<1>9. JobInv(r)'
  BY <1>2, <1>3, <1>4, <1>6, <1>8 DEF JobInv
<1> QED
  BY <1>1, <1>2, <1>3, <1>9, OneJobMoves

LEMMA KickoffKeeps ==
  ASSUME LaunchInv, NEW r \in DOMAIN launches, NEW fails \in BOOLEAN, Kickoff(r, fails)
  PROVE  LaunchInv'
<1> DEFINE job == IF fails THEN [Failed(launches[r]) EXCEPT !.kept = Kept(r)]
                  ELSE [launches[r] EXCEPT !.state = "succeeded", !.step = "done"]
<1>1. /\ launches[r].state = "running" /\ launches[r].step = "kickoff"
      /\ launches' = [launches EXCEPT ![r] = job]
      /\ UNCHANGED <<settings, host, dialog, calls, listed, agents>>
  BY DEF Kickoff, Works, JobTo
<1>2. /\ launches[r] \in LaunchJobs /\ JobInv(r) /\ agents \in SUBSET OnHost
      /\ \A x \in agents : x.run = r => x.place \in DOMAIN launches[r].plan
  BY JobOf
<1>3. Kept(r) \in SUBSET Nat
  BY <1>2 DEF Kept, Created, OnHost
<1>4. /\ job \in LaunchJobs
      /\ fails => job.state = "failed" /\ job.kept = Kept(r)
      /\ ~fails => job.state = "succeeded"
      /\ job.plan = launches[r].plan /\ job.seen = launches[r].seen
      /\ job.created = launches[r].created
      /\ job.archived = launches[r].archived /\ job.missed = launches[r].missed
  BY <1>1, <1>2, <1>3 DEF LaunchJobs, Failed, Steps, JobStates
<1> HIDE DEF job
<1>5. launches'[r] = job
  BY <1>1
<1>6. Created(r)' = Created(r) /\ Left(r)' = Left(r)
  BY <1>1 DEF Created, Left
<1>7. KnowsItsAgents(r)' /\ Progress(r)' /\ Archiving(r)'
  BY <1>2, <1>4, <1>5, <1>6 DEF JobInv, KnowsItsAgents, Progress, Archiving
<1>8. Left(r) = Kept(r) /\ Left(r) = DOMAIN launches[r].plan /\ launches[r].archived = FALSE
  <2>1. \A x \in Created(r) : ~x.archived
    BY <1>1, <1>2 DEF JobInv, Archiving
  <2>2. Left(r) = Places(Created(r)) /\ Kept(r) = Places(Created(r))
    BY <2>1 DEF Left, Kept, Places, Created
  <2>3. Places(Created(r)) = DOMAIN launches[r].plan
    BY <1>1, <1>2 DEF JobInv, KnowsItsAgents, Progress
  <2>4. launches[r].archived = FALSE
    BY <1>1, <1>2 DEF JobInv, Progress, LaunchJobs, JobStates
  <2> QED
    BY <2>2, <2>3, <2>4
<1>9. TellsTruth(r)'
  <2>1. CASE fails
    BY <1>4, <1>5, <1>6, <1>8, <2>1 DEF TellsTruth
  <2>2. CASE ~fails
    BY <1>4, <1>5, <1>6, <1>8, <2>2 DEF TellsTruth
  <2> QED
    BY <2>1, <2>2
<1>10. JobInv(r)'
  BY <1>2, <1>4, <1>5, <1>7, <1>9 DEF JobInv
<1> QED
  BY <1>1, <1>2, <1>4, <1>10, OneJobMoves

-----------------------------------------------------------------------------
(* The other steps. *)
\* A step of the dialog or of a call leaves the jobs as they are.
LEMMA DialogMoves ==
  ASSUME LaunchInv, settings' \in Catalogs, host' \in Hosts,
         dialog' \in Dialogs, calls' \in SUBSET Calls,
         dialog'.job # None => dialog'.job.run \in DOMAIN launches,
         ShownIsConfirmed', CallsAreConfirmed', UNCHANGED <<launches, listed, agents>>
  PROVE  LaunchInv'
<1>1. Types'
  BY DEF LaunchInv, Types
<1>2. RefersToJobs'
  BY DEF LaunchInv, RefersToJobs
<1>3. ASSUME NEW r \in DOMAIN launches PROVE JobInv(r)'
  <2>1. JobInv(r)
    BY DEF LaunchInv
  <2>2. Created(r)' = Created(r) /\ Left(r)' = Left(r)
    BY DEF Created, Left
  <2> QED
    BY <2>1, <2>2 DEF JobInv, KnowsItsAgents, Progress, Archiving, TellsTruth
<1> QED
  BY <1>1, <1>2, <1>3 DEF LaunchInv

\* The call of a preview has the type of a call.
LEMMA PreviewIsACall ==
  ASSUME NEW task \in Tasks
  PROVE  PreviewCall(task) \in Calls /\ PreviewCall(task).kind = "preview"
<1>1. None \in Hashes
  BY DEF Hashes
<1> QED
  BY <1>1 DEF PreviewCall, Calls

\* Asking for another preview adds nothing that could start a job.
LEMMA FetchKeepsTypes ==
  ASSUME LaunchInv, NEW d \in Dialogs, FetchPlan(d)
  PROVE  /\ dialog' \in Dialogs /\ dialog'.job = d.job /\ dialog'.shown = d.shown
         /\ calls' \in SUBSET Calls /\ CallsAreConfirmed'
<1>1. dialog' = [d EXCEPT !.fetching = TRUE] /\ calls' = Asked(d.task)
  BY DEF FetchPlan
<1>2. dialog' \in Dialogs /\ dialog'.job = d.job /\ dialog'.shown = d.shown
  BY <1>1 DEF Dialogs, JobStates
<1>3. d.task \in Tasks
  BY DEF Dialogs, JobStates
<1>4. calls' \subseteq calls \cup {PreviewCall(d.task)}
  BY <1>1 DEF Asked
<1>5. calls' \in SUBSET Calls
  BY <1>3, <1>4, PreviewIsACall DEF LaunchInv, Types
<1>6. CallsAreConfirmed'
  BY <1>3, <1>4, PreviewIsACall DEF LaunchInv, CallsAreConfirmed
<1> QED
  BY <1>2, <1>5, <1>6

LEMMA EditTaskKeeps ==
  ASSUME LaunchInv, NEW task \in Tasks, EditTask(task)
  PROVE  LaunchInv'
<1> DEFINE d == [dialog EXCEPT !.task = task, !.shown = None, !.error = FALSE]
<1>1. d \in Dialogs /\ d.shown = None /\ d.job = dialog.job
  BY DEF LaunchInv, Types, Dialogs, JobStates
<1>2. FetchPlan(d) /\ UNCHANGED <<settings, host, launches, listed, agents>>
  BY DEF EditTask
<1> HIDE DEF d
<1>3. /\ dialog' \in Dialogs /\ dialog'.job = dialog.job /\ dialog'.shown = None
      /\ calls' \in SUBSET Calls /\ CallsAreConfirmed'
  BY <1>1, <1>2, FetchKeepsTypes
<1>4. ShownIsConfirmed'
  BY <1>3 DEF ShownIsConfirmed
<1> QED
  BY <1>2, <1>3, <1>4, DialogMoves DEF LaunchInv, Types, RefersToJobs

LEMMA PressKeeps ==
  ASSUME LaunchInv, Press
  PROVE  LaunchInv'
<1> DEFINE new == [kind |-> "start", task |-> dialog.task, hash |-> dialog.shown.hash,
                   seen |-> dialog.shown.agents, read |-> None]
<1>1. /\ dialog.shown # None /\ dialog.shown.blockers = {}
      /\ dialog' = [dialog EXCEPT !.starting = TRUE, !.error = FALSE, !.job = None]
      /\ calls' = calls \cup {new}
      /\ UNCHANGED <<settings, host, launches, listed, agents>>
  BY DEF Press, Gate
<1>2. dialog \in Dialogs /\ dialog.shown \in Shown
  BY <1>1 DEF LaunchInv, Types, Dialogs, JobStates
<1>3. new \in Calls /\ new.hash = dialog.shown.hash /\ new.seen = dialog.shown.agents
  BY <1>2 DEF Calls, Dialogs, Shown, JobStates
<1>4. Confirmed(dialog.shown.hash, dialog.shown.agents)
  BY <1>1 DEF LaunchInv, ShownIsConfirmed
<1>5. dialog' \in Dialogs /\ dialog'.job = None /\ dialog'.shown = dialog.shown
  BY <1>1, <1>2 DEF Dialogs, JobStates
<1> HIDE DEF new
<1>6. calls' \in SUBSET Calls /\ CallsAreConfirmed'
  BY <1>1, <1>3, <1>4 DEF LaunchInv, Types, CallsAreConfirmed
<1>7. ShownIsConfirmed'
  BY <1>4, <1>5 DEF ShownIsConfirmed
<1> QED
  BY <1>1, <1>5, <1>6, <1>7, DialogMoves DEF LaunchInv, Types

LEMMA ReadSettingsKeeps ==
  ASSUME LaunchInv, NEW c \in calls, ReadSettings(c)
  PROVE  LaunchInv'
<1> DEFINE new == [c EXCEPT !.read = settings]
<1>1. /\ calls' = (calls \ {c}) \cup {new}
      /\ UNCHANGED <<settings, host, dialog, launches, listed, agents>>
  BY DEF ReadSettings
<1>2. c \in Calls /\ settings \in Catalogs
  BY DEF LaunchInv, Types
<1>3. new \in Calls /\ new.kind = c.kind /\ new.hash = c.hash /\ new.seen = c.seen
  BY <1>2 DEF Calls
<1> HIDE DEF new
<1>4. calls' \in SUBSET Calls /\ CallsAreConfirmed'
  BY <1>1, <1>3 DEF LaunchInv, Types, CallsAreConfirmed
<1>5. ShownIsConfirmed'
  BY <1>1 DEF LaunchInv, ShownIsConfirmed
<1> QED
  BY <1>1, <1>4, <1>5, DialogMoves DEF LaunchInv, Types, RefersToJobs

LEMMA PreviewAnsweredKeeps ==
  ASSUME LaunchInv, NEW c \in calls, PreviewAnswered(c)
  PROVE  LaunchInv'
<1> DEFINE plan == Prepared(c)
           shown == [task |-> c.task, blockers |-> plan.blockers, hash |-> plan.hash,
                     agents |-> plan.agents]
<1>1. /\ c.read # None /\ calls' = calls \ {c}
      /\ dialog' = IF c.task # dialog.task THEN dialog
                   ELSE [dialog EXCEPT !.fetching = FALSE, !.shown = shown]
      /\ UNCHANGED <<settings, host, launches, listed, agents>>
  BY DEF PreviewAnswered
<1>2. c \in Calls /\ host \in Hosts /\ dialog \in Dialogs
  BY DEF LaunchInv, Types
<1>3. c.read \in Catalogs /\ c.task \in Tasks
  BY <1>1, <1>2 DEF Calls
<1>4. /\ plan \in [blockers : Refusals, hash : Hashes, agents : Plans]
      /\ plan.blockers = {} => Confirmed(plan.hash, plan.agents)
  BY <1>2, <1>3, PreparedIsAPlan
<1> HIDE DEF plan
<1>5. /\ shown \in Shown
      /\ shown.blockers = {} => Confirmed(shown.hash, shown.agents)
  BY <1>3, <1>4 DEF Shown
<1> HIDE DEF shown
<1>6. dialog' \in Dialogs /\ dialog'.job = dialog.job /\ dialog'.shown \in {dialog.shown, shown}
  BY <1>1, <1>2, <1>5 DEF Dialogs, JobStates
<1>7. ShownIsConfirmed'
  BY <1>5, <1>6 DEF LaunchInv, ShownIsConfirmed
<1>8. calls' \in SUBSET Calls /\ CallsAreConfirmed'
  BY <1>1 DEF LaunchInv, Types, CallsAreConfirmed
<1> QED
  BY <1>1, <1>6, <1>7, <1>8, DialogMoves DEF LaunchInv, Types, RefersToJobs

LEMMA PreviewLostKeeps ==
  ASSUME LaunchInv, NEW c \in calls, PreviewLost(c)
  PROVE  LaunchInv'
<1>1. /\ calls' = calls \ {c}
      /\ dialog' = IF c.task # dialog.task THEN dialog
                   ELSE [dialog EXCEPT !.fetching = FALSE, !.shown = None, !.error = TRUE]
      /\ UNCHANGED <<settings, host, launches, listed, agents>>
  BY DEF PreviewLost
<1>2. dialog' \in Dialogs /\ dialog'.job = dialog.job /\ dialog'.shown \in {dialog.shown, None}
  BY <1>1 DEF LaunchInv, Types, Dialogs, JobStates
<1>3. ShownIsConfirmed'
  BY <1>2 DEF LaunchInv, ShownIsConfirmed
<1>4. calls' \in SUBSET Calls /\ CallsAreConfirmed'
  BY <1>1 DEF LaunchInv, Types, CallsAreConfirmed
<1> QED
  BY <1>1, <1>2, <1>3, <1>4, DialogMoves DEF LaunchInv, Types, RefersToJobs

LEMMA PollKeeps ==
  ASSUME LaunchInv, PollLaunch
  PROVE  LaunchInv'
<1> DEFINE r == dialog.job.run
           state == StatusOf(r)
           job == IF state = "lost" THEN None ELSE [dialog.job EXCEPT !.state = state]
           lost == state = "lost"
           d == [dialog EXCEPT !.job = job, !.error = lost]
<1>1. /\ dialog.job # None /\ UNCHANGED <<settings, host, launches, listed, agents>>
      /\ IF state = "running" THEN UNCHANGED <<dialog, calls>> ELSE FetchPlan(d)
  BY DEF PollLaunch, Running
<1>2. /\ dialog \in Dialogs /\ calls \in SUBSET Calls /\ settings \in Catalogs /\ host \in Hosts
      /\ r \in DOMAIN launches /\ dialog.job \in [run : Nat, state : JobStates]
      /\ ShownIsConfirmed /\ CallsAreConfirmed
  BY <1>1 DEF LaunchInv, Types, RefersToJobs, Dialogs, JobStates
<1>3. state \in JobStates \cup {"lost"}
  <2>1. launches[r] \in LaunchJobs
    BY <1>2, JobOf
  <2> QED
    BY <2>1 DEF StatusOf, LaunchJobs, JobStates
<1>4. CASE state = "running"
  <2>1. ShownIsConfirmed' /\ CallsAreConfirmed'
    BY <1>1, <1>2, <1>4 DEF ShownIsConfirmed, CallsAreConfirmed
  <2> HIDE DEF state
  <2> QED
    BY <1>1, <1>2, <1>4, <2>1, DialogMoves
<1>5. CASE state # "running"
  <2>1. /\ job \in [run : Nat, state : JobStates] \cup {None}
        /\ job # None => job.run = r
    <3> HIDE DEF state
    <3> QED
      BY <1>2, <1>3
  <2>2. lost \in BOOLEAN
    OBVIOUS
  <2> HIDE DEF job, lost
  <2>3. d \in Dialogs /\ d.shown = dialog.shown /\ d.job = job
    BY <1>2, <2>1, <2>2 DEF Dialogs, JobStates
  <2> HIDE DEF d
  <2>4. FetchPlan(d)
    BY <1>1, <1>5
  <2>5. /\ dialog' \in Dialogs /\ dialog'.job = job /\ dialog'.shown = dialog.shown
        /\ calls' \in SUBSET Calls /\ CallsAreConfirmed'
    BY <2>3, <2>4, FetchKeepsTypes
  <2>6. ShownIsConfirmed'
    BY <1>2, <2>5 DEF ShownIsConfirmed
  <2> QED
    BY <1>1, <1>2, <2>1, <2>5, <2>6, DialogMoves
<1> QED
  BY <1>4, <1>5

LEMMA ChangeKeeps ==
  ASSUME LaunchInv, NEW s \in Catalogs, NEW h \in Hosts, Change(s, h)
  PROVE  LaunchInv'
<1>1. settings' = s /\ host' = h /\ UNCHANGED <<dialog, calls, launches, listed, agents>>
  BY DEF Change
<1>2. ShownIsConfirmed' /\ CallsAreConfirmed'
  BY <1>1 DEF LaunchInv, ShownIsConfirmed, CallsAreConfirmed
<1> QED
  BY <1>1, <1>2, DialogMoves DEF LaunchInv, Types, RefersToJobs

\* A restart ends the jobs that run; what they say of themselves is left open.
LEMMA RestartKeeps ==
  ASSUME LaunchInv, Restart
  PROVE  LaunchInv'
<1> DEFINE over(r) == IF launches[r].state = "running" THEN [launches[r] EXCEPT !.state = "dead"]
                      ELSE launches[r]
           error == dialog.error \/ calls # {}
           shown == IF dialog.fetching THEN None ELSE dialog.shown
<1>1. /\ launches' = [r \in DOMAIN launches |-> over(r)]
      /\ listed' = {} /\ calls' = {}
      /\ dialog' = [dialog EXCEPT !.starting = FALSE, !.fetching = FALSE, !.error = error,
                                  !.shown = shown]
      /\ UNCHANGED <<settings, host, agents>>
  BY DEF Restart
<1>2. /\ dialog \in Dialogs /\ launches \in Seq(LaunchJobs) /\ agents \in SUBSET OnHost
      /\ settings \in Catalogs /\ host \in Hosts /\ RefersToJobs /\ ShownIsConfirmed
  BY DEF LaunchInv, Types
<1>3. ASSUME NEW r \in DOMAIN launches
      PROVE  /\ over(r) \in LaunchJobs
             /\ over(r).state = IF launches[r].state = "running" THEN "dead" ELSE launches[r].state
             /\ over(r).plan = launches[r].plan /\ over(r).seen = launches[r].seen
             /\ over(r).created = launches[r].created /\ over(r).kept = launches[r].kept
             /\ over(r).archived = launches[r].archived /\ over(r).missed = launches[r].missed
             /\ over(r).step = launches[r].step
  <2>1. launches[r] \in LaunchJobs
    BY JobOf
  <2> QED
    BY <2>1 DEF LaunchJobs, JobStates
<1>4. error \in BOOLEAN /\ shown \in Shown \cup {None} /\ shown \in {None, dialog.shown}
  BY <1>2 DEF Dialogs, JobStates
<1> HIDE DEF over, error, shown
<1>5. /\ dialog' \in Dialogs /\ dialog'.job = dialog.job /\ dialog'.shown \in {None, dialog.shown}
  BY <1>1, <1>2, <1>4 DEF Dialogs, JobStates
<1>6. launches' \in Seq(LaunchJobs) /\ DOMAIN launches' = DOMAIN launches
  <2>1. DOMAIN launches = 1..Len(launches) /\ Len(launches) \in Nat
    BY <1>2
  <2>2. launches' \in [1..Len(launches) -> LaunchJobs]
    BY <1>1, <1>3, <2>1
  <2> QED
    BY <1>1, <2>1, <2>2, SeqDef
<1>7. Types'
  BY <1>1, <1>2, <1>5, <1>6 DEF Types
<1>8. ShownIsConfirmed' /\ CallsAreConfirmed'
  BY <1>1, <1>2, <1>5 DEF ShownIsConfirmed, CallsAreConfirmed
<1>9. RefersToJobs'
  BY <1>1, <1>2, <1>3, <1>5, <1>6 DEF RefersToJobs
<1>10. ASSUME NEW r \in DOMAIN launches PROVE JobInv(r)'
  <2>1. JobInv(r)
    BY DEF LaunchInv
  <2>2. Created(r)' = Created(r) /\ Left(r)' = Left(r) /\ launches'[r] = over(r)
    BY <1>1 DEF Created, Left
  <2>3. over(r).state # "running"
    BY <1>3
  <2>4. KnowsItsAgents(r)'
    BY <1>3, <2>1, <2>2 DEF JobInv, KnowsItsAgents
  <2>5. Progress(r)' /\ Archiving(r)'
    BY <1>3, <2>1, <2>2, <2>3 DEF JobInv, Progress, Archiving
  <2>6. TellsTruth(r)'
    BY <1>3, <2>1, <2>2 DEF JobInv, TellsTruth
  <2> QED
    BY <1>3, <2>1, <2>2, <2>4, <2>5, <2>6 DEF JobInv
<1> QED
  BY <1>6, <1>7, <1>8, <1>9, <1>10 DEF LaunchInv

\* A job that starts has created nothing, and its plan is the one confirmed.
LEMMA StartKeeps ==
  ASSUME WellFormed, LaunchInv, NEW c \in calls, NEW lost \in BOOLEAN, Start(c, lost)
  PROVE  LaunchInv'
<1> DEFINE plan == Prepared(c)
           failed == [dialog EXCEPT !.starting = FALSE, !.error = TRUE]
           new == NewLaunch(c, plan)
<1>0. PICK n \in Nat : n = Len(launches) + 1
  BY DEF LaunchInv, Types
<1>1. /\ c \in Calls /\ c.kind = "start" /\ c.read # None /\ Confirmed(c.hash, c.seen)
      /\ dialog \in Dialogs /\ launches \in Seq(LaunchJobs) /\ calls \in SUBSET Calls
      /\ listed \in SUBSET DOMAIN launches /\ agents \in SUBSET OnHost
      /\ settings \in Catalogs /\ host \in Hosts
      /\ RefersToJobs /\ ShownIsConfirmed /\ CallsAreConfirmed
  BY DEF Start, LaunchInv, Types, CallsAreConfirmed
<1>2. UNCHANGED <<settings, host, agents>>
  BY DEF Start
<1>3. c.read \in Catalogs /\ c.task \in Tasks
  BY <1>1 DEF Calls
<1>4. /\ plan \in [blockers : Refusals, hash : Hashes, agents : Plans]
      /\ plan.blockers = {} => Confirmed(plan.hash, plan.agents)
  BY <1>1, <1>3, PreparedIsAPlan
<1>5. failed \in Dialogs /\ failed.shown = dialog.shown /\ failed.job = dialog.job
  BY <1>1 DEF Dialogs, JobStates
<1>6. CASE Accepted(c, plan)
  <2>1. /\ launches' = Append(launches, new)
        /\ listed' \subseteq listed \cup {n}
        /\ calls' = calls \ {c}
        /\ dialog' = IF lost THEN failed
                     ELSE [dialog EXCEPT !.starting = FALSE,
                                         !.job = [run |-> n, state |-> "running"]]
    BY <1>0, <1>6 DEF Start, Pruned
  <2> HIDE DEF plan
  <2>2. plan.blockers = {} /\ Confirmed(c.hash, plan.agents)
    BY <1>4, <1>6 DEF Accepted
  <2>3. /\ plan.agents = c.seen /\ plan.agents \in Plans
        /\ Len(plan.agents) \in Nat \ {0} /\ DOMAIN plan.agents = 1..Len(plan.agents)
    BY <1>1, <2>2, ConfirmedIsOne
  <2>4. /\ new \in LaunchJobs /\ new.state = "running" /\ new.step \in {"workspace", "coordinator"}
        /\ new.plan = plan.agents /\ new.seen = c.seen /\ new.created = 0
        /\ new.kept = {} /\ new.archived = FALSE /\ new.missed = {}
    <3> DEFINE step == IF c.task.project THEN "workspace" ELSE "coordinator"
    <3>1. step \in {"workspace", "coordinator"} /\ step \in Steps
      BY DEF Steps
    <3>2. c.read.archive \in {s.archive : s \in Catalogs}
      BY <1>3
    <3>3. new = [state |-> "running", step |-> step, plan |-> plan.agents, seen |-> c.seen,
                 archive |-> c.read.archive, created |-> 0, kept |-> {}, archived |-> FALSE,
                 missed |-> {}]
      BY DEF NewLaunch
    <3> HIDE DEF new, step
    <3> QED
      BY <2>3, <3>1, <3>2, <3>3 DEF LaunchJobs, JobStates
  <2> HIDE DEF new
  <2>5. /\ Len(launches) \in Nat /\ DOMAIN launches = 1..Len(launches)
    BY <1>1
  <2>6. /\ launches' \in Seq(LaunchJobs) /\ Len(launches') = n
        /\ \A r \in DOMAIN launches : launches'[r] = launches[r]
        /\ launches'[n] = new
    BY <1>0, <1>1, <2>1, <2>4, <2>5, AppendProperties
  <2>7. DOMAIN launches' = DOMAIN launches \cup {n} /\ n \notin DOMAIN launches
    BY <1>0, <2>5, <2>6
  <2> HIDE DEF failed
  <2>8. /\ dialog' \in Dialogs /\ dialog'.shown = dialog.shown
        /\ dialog'.job # None => dialog'.job.run \in DOMAIN launches'
    <3> DEFINE job == [run |-> n, state |-> "running"]
    <3>1. job \in [run : Nat, state : JobStates] /\ job.run = n
      BY DEF JobStates
    <3> HIDE DEF job
    <3>2. CASE lost
      BY <1>1, <1>5, <2>1, <2>7, <3>2 DEF RefersToJobs
    <3>3. CASE ~lost
      <4>1. dialog' = [dialog EXCEPT !.starting = FALSE, !.job = job]
        BY <2>1, <3>3 DEF job
      <4> QED
        BY <1>1, <2>7, <3>1, <4>1 DEF Dialogs, JobStates
    <3> QED
      BY <3>2, <3>3
  <2>9. Types'
    BY <1>1, <1>2, <2>1, <2>6, <2>7, <2>8 DEF Types
  <2>10. ShownIsConfirmed' /\ CallsAreConfirmed'
    BY <1>1, <2>1, <2>8 DEF ShownIsConfirmed, CallsAreConfirmed
  <2>11. RefersToJobs'
    BY <1>1, <1>2, <2>6, <2>7, <2>8 DEF RefersToJobs
  <2>12. ASSUME NEW r \in DOMAIN launches PROVE JobInv(r)'
    <3>1. JobInv(r) /\ launches'[r] = launches[r]
      BY <2>6 DEF LaunchInv
    <3>2. Created(r)' = Created(r) /\ Left(r)' = Left(r)
      BY <1>2 DEF Created, Left
    <3> QED
      BY <3>1, <3>2 DEF JobInv, KnowsItsAgents, Progress, Archiving, TellsTruth
  <2>13. JobInv(n)'
    <3>1. Created(n)' = {}
      BY <1>1, <1>2, <2>7 DEF Created, RefersToJobs
    <3>2. KnowsItsAgents(n)'
      BY <2>4, <2>6, <3>1 DEF KnowsItsAgents, Places
    <3>3. Progress(n)'
      BY <2>3, <2>4, <2>6 DEF Progress
    <3>4. Archiving(n)' /\ TellsTruth(n)'
      BY <2>4, <2>6, <3>1 DEF Archiving, TellsTruth
    <3> QED
      BY <2>3, <2>4, <2>6, <3>2, <3>3, <3>4 DEF JobInv
  <2> QED
    BY <2>7, <2>9, <2>10, <2>11, <2>12, <2>13 DEF LaunchInv
<1>7. CASE ~Accepted(c, plan)
  <2>1. /\ UNCHANGED <<launches, listed>>
        /\ calls' \subseteq calls \cup {PreviewCall(c.task)}
        /\ \/ dialog' = [dialog EXCEPT !.starting = FALSE, !.fetching = TRUE]
           \/ dialog' = failed
           \/ dialog' = [dialog EXCEPT !.starting = FALSE]
    <3>1. /\ UNCHANGED <<launches, listed>>
          /\ \/ /\ dialog' = [dialog EXCEPT !.starting = FALSE, !.fetching = TRUE]
                /\ calls' = Asked(c.task) \ {c}
             \/ /\ dialog' = IF lost THEN failed ELSE [dialog EXCEPT !.starting = FALSE]
                /\ calls' = calls \ {c}
      BY <1>7 DEF Start
    <3> QED
      BY <3>1 DEF Asked
  <2>2. dialog' \in Dialogs /\ dialog'.shown = dialog.shown /\ dialog'.job = dialog.job
    BY <1>1, <1>5, <2>1 DEF Dialogs, JobStates
  <2>3. calls' \in SUBSET Calls /\ CallsAreConfirmed'
    BY <1>1, <1>3, <2>1, PreviewIsACall DEF CallsAreConfirmed
  <2>4. ShownIsConfirmed'
    BY <1>1, <2>2 DEF ShownIsConfirmed
  <2> QED
    BY <1>1, <1>2, <2>1, <2>2, <2>3, <2>4, DialogMoves DEF RefersToJobs
<1> QED
  BY <1>6, <1>7

-----------------------------------------------------------------------------
(* The theorems. *)
LEMMA InvInit ==
  ASSUME LaunchInit
  PROVE  LaunchInv
<1>1. PICK task \in Tasks : dialog = Opened(task) /\ calls = {PreviewCall(task)}
  BY DEF LaunchInit
<1>2. /\ dialog \in Dialogs /\ dialog.shown = None /\ dialog.job = None
  BY <1>1 DEF Opened, Dialogs, JobStates
<1>3. calls \in SUBSET Calls /\ CallsAreConfirmed
  BY <1>1, PreviewIsACall DEF CallsAreConfirmed
<1>4. launches = <<>> /\ listed = {} /\ agents = {} /\ settings \in Catalogs /\ host \in Hosts
  BY DEF LaunchInit
<1>5. launches \in Seq(LaunchJobs) /\ DOMAIN launches = {}
  BY <1>4
<1> QED
  BY <1>2, <1>3, <1>4, <1>5
     DEF LaunchInv, Types, ShownIsConfirmed, RefersToJobs

LEMMA LaunchStep ==
  ASSUME WellFormed, LaunchInv, [LaunchNext]_launchVars
  PROVE  LaunchInv'
<1>0. settings \in Catalogs /\ host \in Hosts
  BY DEF LaunchInv, Types
<1>1. ASSUME NEW task \in Tasks, EditTask(task) PROVE LaunchInv'
  BY <1>1, EditTaskKeeps
<1>2. CASE Press
  BY <1>2, PressKeeps
<1>3. CASE PollLaunch
  BY <1>3, PollKeeps
<1>4. ASSUME NEW c \in calls,
             \/ ReadSettings(c) \/ PreviewAnswered(c) \/ PreviewLost(c)
             \/ \E lost \in BOOLEAN : Start(c, lost)
      PROVE  LaunchInv'
  BY <1>4, ReadSettingsKeeps, PreviewAnsweredKeeps, PreviewLostKeeps, StartKeeps
<1>5. ASSUME NEW r \in DOMAIN launches,
             \/ JobStep(r) \/ MakeWorkspace(r, TRUE)
             \/ \E effect \in BOOLEAN : CreateFails(r, effect)
             \/ Archive(r, TRUE) \/ Kickoff(r, TRUE)
      PROVE  LaunchInv'
  BY <1>5, MakeWorkspaceKeeps, CreateAgentKeeps, CreateFailsKeeps, ArchiveKeeps,
     ArchiveEndsKeeps, KickoffKeeps DEF JobStep
<1>6. ASSUME NEW s \in Catalogs, Change(s, host) PROVE LaunchInv'
  BY <1>0, <1>6, ChangeKeeps
<1>7. ASSUME NEW h \in Hosts, Change(settings, h) PROVE LaunchInv'
  BY <1>0, <1>7, ChangeKeeps
<1>8. CASE Restart
  BY <1>8, RestartKeeps
<1>9. CASE UNCHANGED launchVars
  <2>1. UNCHANGED <<settings, host, dialog, calls, launches, listed, agents>>
    BY <1>9 DEF launchVars
  <2>2. ShownIsConfirmed' /\ CallsAreConfirmed'
    BY <2>1 DEF LaunchInv, ShownIsConfirmed, CallsAreConfirmed
  <2> QED
    BY <2>1, <2>2, DialogMoves DEF LaunchInv, Types, RefersToJobs
<1> QED
  BY <1>1, <1>2, <1>3, <1>4, <1>5, <1>6, <1>7, <1>8, <1>9 DEF LaunchNext

LEMMA InvHolds == LaunchSpec => []LaunchInv
<1>1. LaunchInit => LaunchInv
  BY InvInit
<1>2. LaunchInv /\ [LaunchNext]_launchVars => LaunchInv'
  BY LaunchStep, LaunchAssumption
<1> QED
  BY <1>1, <1>2, PTL DEF LaunchSpec

LEMMA InvIsTyped == LaunchInv => LaunchTypeOK
<1> SUFFICES ASSUME LaunchInv PROVE LaunchTypeOK
  OBVIOUS
<1>1. ASSUME NEW r \in DOMAIN launches
      PROVE  /\ launches[r].state \in JobStates /\ launches[r].step \in Steps
             /\ launches[r].created <= Len(launches[r].plan)
  <2>1. launches[r] \in LaunchJobs /\ JobInv(r)
    BY JobOf
  <2> QED
    BY <2>1 DEF JobInv, Progress, LaunchJobs
<1> QED
  BY <1>1 DEF LaunchTypeOK, LaunchInv, Types, RefersToJobs, JobStates

\* LaunchTypeOK: every reachable state is well typed; in particular no job has
\* more agents than its plan, and every agent of a job has its place in it.
THEOREM LaunchTypeCorrect == LaunchSpec => []LaunchTypeOK
<1> QED
  BY InvIsTyped, InvHolds, PTL

\* ConfirmedIsLaunched: every agent of a job is one the user saw in the plan they
\* confirmed, whatever changes between the preview and the start and between the
\* reads of one request.
THEOREM ConfirmedIsLaunchedHolds == LaunchSpec => []ConfirmedIsLaunched
<1>1. LaunchInv => ConfirmedIsLaunched
  BY DEF LaunchInv, JobInv, ConfirmedIsLaunched
<1>2. LaunchSpec => []LaunchInv
  BY InvHolds
<1> QED
  BY <1>1, <1>2, PTL

\* JobTellsTruth: what a job that is over says of its agents is what is on the
\* host, whichever of its requests failed.
THEOREM JobTellsTruthHolds == LaunchSpec => []JobTellsTruth
<1>1. LaunchInv => JobTellsTruth
  BY DEF LaunchInv, JobInv, TellsTruth, Left, JobTellsTruth
<1>2. LaunchSpec => []LaunchInv
  BY InvHolds
<1> QED
  BY <1>1, <1>2, PTL

\* LaunchSound, the two together.
THEOREM LaunchSoundHolds == LaunchSpec => []LaunchSound
<1>1. LaunchInv => LaunchSound
  BY DEF LaunchInv, JobInv, TellsTruth, Left, LaunchSound, ConfirmedIsLaunched, JobTellsTruth
<1>2. LaunchSpec => []LaunchInv
  BY InvHolds
<1> QED
  BY <1>1, <1>2, PTL

-----------------------------------------------------------------------------
(* II.  VersionUpdate.                                                      *)

(* Types.  A start writes its job before it spawns the runner, and a runner *)
(* works on a copy of the job; the panel only knows jobs that were written. *)

Unwritten == {"idle", "look", "reclaim", "reclaimRemove", "acquire", "write"}

\* A start, its job and its runner.
InStep(s) ==
  /\ jobs[s] # Nil => jobs[s].id = s
  /\ start[s].pc \in Unwritten => jobs[s] = Nil
  /\ start[s].pc \in {"remember", "spawn"} => jobs[s] # Nil /\ jobs[s].state = "queued"
  /\ start[s].pc \notin {"accepted", "lost", "closed"} => RunsAt(s, "none")
  /\ start[s].pc \in {"reclaim", "reclaimRemove"} => start[s].held \in Starts
  /\ RunsAt(s, "read") => jobs[s] # Nil /\ jobs[s].state = "queued"
  /\ runner[s].pc \in Working \ {"read"} =>
       /\ jobs[s] # Nil /\ jobs[s].state = "running"
       /\ runner[s].job # Nil /\ runner[s].job.id = s
       /\ runner[s].first # Nil /\ runner[s].first.id = s

\* What is remembered or shown of a job is of one that was written.
Known ==
  /\ files.latest # Nil => jobs[files.latest] # Nil
  /\ panel.shown # Nil => jobs[panel.shown.id] # Nil
  /\ \A j \in panel.asked : jobs[j.id] # Nil

TypeInv == TypeOK /\ (\A s \in Starts : InStep(s)) /\ Known


LEMMA TypeInit == Init => TypeInv
<1> SUFFICES ASSUME Init PROVE TypeInv
  OBVIOUS
<1>1. TypeOK
  <2>1. start \in [Starts -> [pc : StartSteps, held : Starts \cup {Nil}, boot : Nat]]
    BY DEF Init, StartSteps
  <2>2. runner \in [Starts -> [pc : Runs, first : Jobs \cup {Nil}, job : Jobs \cup {Nil}]]
    BY DEF Init, Runs
  <2>3. files \in [lock : Locks \cup {Nil}, latest : Starts \cup {Nil}, boot : Boots \cup {Nil}]
    BY DEF Init
  <2>4. tree \in [head : Commits, dirty : BOOLEAN, mods : Commits \cup {"broken"}, edits : Nat]
        /\ plugin \in [boot : Nat \ {0}, code : Commits, asked : BOOLEAN]
    BY DEF Init, Commits
  <2>5. panel \in [shown : Jobs \cup {Nil}, asked : SUBSET Jobs, seeks : Starts \cup {Nil}]
    BY DEF Init
  <2> QED
    BY <2>1, <2>2, <2>3, <2>4, <2>5 DEF Init, TypeOK
<1>2. ASSUME NEW s \in Starts PROVE InStep(s)
  BY DEF Init, InStep, Unwritten, Working, RunsAt
<1>3. Known
  BY DEF Init, Known
<1> QED
  BY <1>1, <1>2, <1>3 DEF TypeInv

LEMMA NewJobTyped ==
  ASSUME TypeOK, NEW s \in Starts
  PROVE  NewJob(s) \in Jobs /\ NewJob(s).id = s /\ NewJob(s).state = "queued"
<1>1. Cardinality({t \in Starts : jobs[t] # Nil}) \in Nat
  BY FS_Subset, FS_CardinalityType, UpdateAssumption
<1> QED
  BY <1>1 DEF NewJob, Jobs, States, UpdatePhases

LEMMA TypeStart ==
  ASSUME TypeInv, NEW s \in Starts, StartMoves(s)
  PROVE  TypeInv'
<1>1. CASE Begin(s)
  BY <1>1, NilAssumption DEF Begin, Panel, IsActive, TypeInv, TypeOK, InStep, Known, Unwritten,
     Working, Runs, StartSteps, RunsAt, StartAt, Jobs, Locks, States, UpdatePhases
<1>2. CASE LookAtLock(s)
  <2>1. /\ start' \in [Starts -> [pc : StartSteps, held : Starts \cup {Nil}, boot : Nat]]
        /\ \A t \in Starts \ {s} : start'[t] = start[t]
        /\ start'[s].pc \in {"acquire", "reclaim", "refused"}
        /\ start'[s].pc = "reclaim" => start'[s].held \in Starts
    <3> DEFINE next == IF files.lock = Nil THEN "acquire"
                       ELSE IF StaleLock(files.lock) THEN "reclaim" ELSE "refused"
               held == IF files.lock = Nil THEN Nil ELSE files.lock.job
    <3>1. start' = [start EXCEPT ![s] = [@ EXCEPT !.pc = next, !.held = held]]
      BY <1>2 DEF LookAtLock, TypeInv, TypeOK
    <3>2. next \in {"acquire", "reclaim", "refused"} /\ held \in Starts \cup {Nil}
          /\ (next = "reclaim" => held \in Starts)
      BY DEF TypeInv, TypeOK, Locks
    <3> DEFINE new == [start[s] EXCEPT !.pc = next, !.held = held]
    <3> HIDE DEF next, held
    <3>3. start \in [Starts -> [pc : StartSteps, held : Starts \cup {Nil}, boot : Nat]]
      BY DEF TypeInv, TypeOK
    <3>4. new \in [pc : StartSteps, held : Starts \cup {Nil}, boot : Nat]
          /\ new.pc = next /\ new.held = held
      BY <3>2, <3>3 DEF StartSteps
    <3>5. start' = [start EXCEPT ![s] = new]
      BY <3>1
    <3> HIDE DEF new
    <3> QED
      BY <3>2, <3>3, <3>4, <3>5
  <2>2. TypeOK'
    BY <1>2, <2>1 DEF LookAtLock, TypeInv, TypeOK
  <2>3. \A t \in Starts : InStep(t)'
    BY <1>2, <2>1 DEF LookAtLock, TypeInv, InStep, Unwritten, RunsAt, StartAt
  <2> QED
    BY <1>2, <2>2, <2>3 DEF LookAtLock, TypeInv, Known
<1>3. CASE Reclaim(s)
  BY <1>3, NilAssumption DEF Reclaim, MayUnlock, StartTo, TypeInv, TypeOK, InStep, Known,
     Unwritten, Working, Runs, StartSteps, RunsAt, StartAt, Jobs, Locks, States, UpdatePhases
<1>4. CASE ReclaimRemove(s)
  BY <1>4, NilAssumption DEF ReclaimRemove, RemoveLock, StartTo, TypeInv, TypeOK, InStep, Known,
     Unwritten, Working, Runs, StartSteps, RunsAt, StartAt, Jobs, Locks, States, UpdatePhases
<1>5. CASE Acquire(s)
  BY SMTT(40), <1>5, NilAssumption DEF Acquire, TryLock, StartTo, TypeInv, TypeOK, InStep, Known,
     Unwritten, Working, Runs, StartSteps, RunsAt, StartAt, Jobs, Locks, States, UpdatePhases
<1>6. CASE WriteJob(s)
  BY <1>6, NilAssumption, NewJobTyped DEF WriteJob, StartTo, TypeInv, TypeOK, InStep, Known,
     Unwritten, Working, Runs, StartSteps, RunsAt, StartAt, Jobs, Locks, States, UpdatePhases
<1>7. CASE RememberRequest(s)
  BY <1>7, NilAssumption DEF RememberRequest, StartTo, TypeInv, TypeOK, InStep, Known, Unwritten,
     Working, Runs, StartSteps, RunsAt, StartAt, Jobs, Locks, States, UpdatePhases
<1>8. CASE SpawnRunner(s)
  BY <1>8, NilAssumption DEF SpawnRunner, StartTo, TypeInv, TypeOK, InStep, Known, Unwritten,
     Working, Runs, StartSteps, RunsAt, StartAt, Jobs, Locks, States, UpdatePhases
<1>9. CASE SpawnFails(s)
  BY <1>9, NilAssumption DEF SpawnFails, StartTo, TypeInv, TypeOK, InStep, Known, Unwritten,
     Working, Runs, StartSteps, RunsAt, StartAt, Jobs, Locks, States, UpdatePhases
<1>10. CASE GiveUp(s)
  BY <1>10, NilAssumption DEF GiveUp, StartTo, MayUnlock, TypeInv, TypeOK, InStep, Known,
     Unwritten, Working, Runs, StartSteps, RunsAt, StartAt, Jobs, Locks, States, UpdatePhases
<1>11. CASE GiveUpRemove(s)
  BY <1>11, NilAssumption DEF GiveUpRemove, StartTo, RemoveLock, TypeInv, TypeOK, InStep, Known,
     Unwritten, Working, Runs, StartSteps, RunsAt, StartAt, Jobs, Locks, States, UpdatePhases
<1> QED
  BY <1>1, <1>2, <1>3, <1>4, <1>5, <1>6, <1>7, <1>8, <1>9, <1>10, <1>11 DEF StartMoves

\* A status is written of the job of s, and its runner goes to l.
Wrote(s, l, state) ==
  /\ jobs' \in [Starts -> Jobs \cup {Nil}]
  /\ runner' \in [Starts -> [pc : Runs, first : Jobs \cup {Nil}, job : Jobs \cup {Nil}]]
  /\ \A t \in Starts \ {s} : jobs'[t] = jobs[t] /\ runner'[t] = runner[t]
  /\ jobs'[s] # Nil /\ jobs'[s].id = s /\ jobs'[s].state = state
  /\ runner'[s].pc = l
  /\ runner'[s].job # Nil /\ runner'[s].job.id = s
  /\ runner'[s].first # Nil /\ runner'[s].first.id = s
  /\ files' = [files EXCEPT !.latest = s]

LEMMA WrittenTyped ==
  ASSUME NEW job \in Jobs, NEW state \in States, NEW phase \in UpdatePhases
  PROVE  /\ Written(job, state, phase) \in Jobs
         /\ Written(job, state, phase).id = job.id /\ Written(job, state, phase).state = state
<1> DEFINE n == job.seq + 1
<1>1. job \in [id : Starts, at : Nat, state : States, phase : UpdatePhases, seq : Nat]
  BY DEF Jobs
<1>2. n \in Nat
  BY <1>1
<1>3. Written(job, state, phase) = [job EXCEPT !.state = state, !.phase = phase, !.seq = n]
  BY DEF Written
<1> HIDE DEF n
<1> QED
  BY <1>1, <1>2, <1>3 DEF Jobs

LEMMA RunnerToWrote ==
  ASSUME TypeInv, NEW s \in Starts, runner[s].pc \in Working \ {"read"}, NEW l \in Runs,
         NEW state \in States, NEW phase \in UpdatePhases, RunnerTo(s, l, state, phase)
  PROVE  Wrote(s, l, state)
<1> DEFINE job == Written(runner[s].job, state, phase)
<1>1. job \in Jobs /\ job.id = s /\ job.state = state
  BY WrittenTyped DEF TypeInv, TypeOK, InStep
<1>2. jobs' = [jobs EXCEPT ![s] = job] /\ files' = [files EXCEPT !.latest = s]
      /\ runner' = [runner EXCEPT ![s] = [@ EXCEPT !.pc = l, !.job = job]]
  BY DEF RunnerTo
<1>3. jobs \in [Starts -> Jobs \cup {Nil}]
      /\ runner \in [Starts -> [pc : Runs, first : Jobs \cup {Nil}, job : Jobs \cup {Nil}]]
      /\ runner[s].first # Nil /\ runner[s].first.id = s
  BY DEF TypeInv, TypeOK, InStep
<1> HIDE DEF job
<1> QED
  BY <1>1, <1>2, <1>3, NilAssumption DEF Wrote

LEMMA RunnerThrowsWrote ==
  ASSUME TypeInv, NEW s \in Starts, RunnerThrows(s)
  PROVE  Wrote(s, "threw", "recovery_required")
<1> DEFINE job == Written(runner[s].first, "recovery_required", "reconciling")
<1>1. job \in Jobs /\ job.id = s /\ job.state = "recovery_required"
  BY WrittenTyped DEF TypeInv, TypeOK, InStep, RunnerThrows, States, UpdatePhases
<1>2. jobs' = [jobs EXCEPT ![s] = job] /\ files' = [files EXCEPT !.latest = s]
      /\ runner' = [runner EXCEPT ![s] = [@ EXCEPT !.pc = "threw"]]
  BY DEF RunnerThrows
<1>3. jobs \in [Starts -> Jobs \cup {Nil}]
      /\ runner \in [Starts -> [pc : Runs, first : Jobs \cup {Nil}, job : Jobs \cup {Nil}]]
      /\ runner[s].first # Nil /\ runner[s].first.id = s
      /\ runner[s].job # Nil /\ runner[s].job.id = s
  BY DEF TypeInv, TypeOK, InStep, RunnerThrows
<1> HIDE DEF job
<1> QED
  BY <1>1, <1>2, <1>3, NilAssumption DEF Wrote, Runs

LEMMA RunnerStartsWrote ==
  ASSUME TypeInv, NEW s \in Starts, RunnerStarts(s)
  PROVE  \/ setting.mode = "managed" /\ Wrote(s, "apply", "running")
         \/ setting.mode # "managed" /\ Wrote(s, "preflight", "running")
<1> DEFINE phase == IF setting.mode = "managed" THEN "applying_managed" ELSE "preflight"
           l == IF setting.mode = "managed" THEN "apply" ELSE "preflight"
           job == Written(jobs[s], "running", phase)
<1>1. job \in Jobs /\ job.id = s /\ job.state = "running"
  BY WrittenTyped DEF TypeInv, TypeOK, InStep, RunnerStarts, States, UpdatePhases
<1>2. jobs' = [jobs EXCEPT ![s] = job] /\ files' = [files EXCEPT !.latest = s]
      /\ runner' = [runner EXCEPT ![s] = [pc |-> l, first |-> jobs[s], job |-> job]]
  BY DEF RunnerStarts
<1>3. jobs \in [Starts -> Jobs \cup {Nil}]
      /\ runner \in [Starts -> [pc : Runs, first : Jobs \cup {Nil}, job : Jobs \cup {Nil}]]
      /\ jobs[s] \in Jobs /\ jobs[s] # Nil /\ jobs[s].id = s
  BY DEF TypeInv, TypeOK, InStep, RunnerStarts
<1>4. l \in {"apply", "preflight"} /\ (setting.mode = "managed" <=> l = "apply")
  OBVIOUS
<1> HIDE DEF job, l
<1>5. Wrote(s, l, "running")
  BY <1>1, <1>2, <1>3, <1>4, NilAssumption DEF Wrote, Runs, Working
<1> QED
  BY <1>4, <1>5

\* The calls in progress end with the plugin process, or go on.
StartsEnd ==
  /\ plugin' \in [boot : Nat \ {0}, code : Commits, asked : BOOLEAN]
  /\ start' \in [Starts -> [pc : StartSteps, held : Starts \cup {Nil}, boot : Nat]]
  /\ \A t \in Starts : \/ start'[t] = start[t]
                       \/ start[t].pc \in InProgress /\ start'[t].pc = "lost"

LEMMA StartsKept ==
  ASSUME TypeOK, UNCHANGED <<plugin, start>>
  PROVE  StartsEnd
BY DEF TypeOK, StartsEnd

LEMMA RestartEnds ==
  ASSUME TypeOK, NEW commit \in Commits, Restarted(commit)
  PROVE  /\ StartsEnd /\ plugin'.code = commit
         /\ \A t \in Starts : start'[t].pc \notin InProgress
<1>1. plugin' \in [boot : Nat \ {0}, code : Commits, asked : BOOLEAN] /\ plugin'.code = commit
  BY DEF TypeOK, Restarted
<1>2. start \in [Starts -> [pc : StartSteps, held : Starts \cup {Nil}, boot : Nat]]
  BY DEF TypeOK
<1>3. start' = [t \in Starts |-> IF start[t].pc \in InProgress
                                THEN [start[t] EXCEPT !.pc = "lost"] ELSE start[t]]
  BY DEF Restarted
<1> QED
  BY <1>1, <1>2, <1>3 DEF StartsEnd, StartSteps, InProgress

TreeTyped ==
  tree' \in [head : Commits, dirty : BOOLEAN, mods : Commits \cup {"broken"}, edits : Nat]

LEMMA WroteKeepsTypes ==
  ASSUME TypeInv, NEW s \in Starts, runner[s].pc \in Working, NEW l \in Runs \ {"none", "read"},
         NEW state \in States, l \in Working => state = "running", Wrote(s, l, state),
         StartsEnd, TreeTyped, UNCHANGED <<setting, report, panel>>, disturbed' \in BOOLEAN
  PROVE  TypeInv'
<1>1. TypeOK'
  BY DEF TypeInv, TypeOK, Wrote, StartsEnd, TreeTyped
<1>2. start[s].pc \in {"accepted", "lost", "closed"} /\ start'[s] = start[s]
  BY DEF TypeInv, InStep, RunsAt, Working, StartsEnd, InProgress
<1>3. ASSUME NEW t \in Starts PROVE InStep(t)'
  <2>1. CASE t = s
    BY <1>2, <2>1 DEF Wrote, InStep, RunsAt, Unwritten
  <2>2. CASE t # s
    BY <2>2 DEF Wrote, StartsEnd, TypeInv, InStep, RunsAt, Unwritten
  <2> QED
    BY <2>1, <2>2
<1>4. Known'
  BY NilAssumption DEF Wrote, TypeInv, TypeOK, Known, Jobs
<1> QED
  BY <1>1, <1>3, <1>4 DEF TypeInv

\* The runner of s goes on without a status, or comes to its end.
Moved(s, l) ==
  /\ runner' = [runner EXCEPT ![s].pc = l]
  /\ UNCHANGED jobs
  /\ files' = files \/ files' = [files EXCEPT !.lock = Nil]

LEMMA MovedKeepsTypes ==
  ASSUME TypeInv, NEW s \in Starts, runner[s].pc # "none", NEW l \in Runs \ {"none", "read"},
         l \in Working => runner[s].pc \in Working \ {"read"}, Moved(s, l),
         TreeTyped, UNCHANGED <<setting, report, panel, plugin, start>>, disturbed' \in BOOLEAN
  PROVE  TypeInv'
<1>1. runner \in [Starts -> [pc : Runs, first : Jobs \cup {Nil}, job : Jobs \cup {Nil}]]
      /\ runner' = [runner EXCEPT ![s] = [@ EXCEPT !.pc = l]]
  BY DEF TypeInv, TypeOK, Moved
<1>2. runner' \in [Starts -> [pc : Runs, first : Jobs \cup {Nil}, job : Jobs \cup {Nil}]]
      /\ runner'[s].pc = l /\ runner'[s].job = runner[s].job /\ runner'[s].first = runner[s].first
      /\ \A t \in Starts \ {s} : runner'[t] = runner[t]
  BY <1>1
<1>3. /\ files' \in [lock : Locks \cup {Nil}, latest : Starts \cup {Nil}, boot : Boots \cup {Nil}]
      /\ files'.latest = files.latest
  BY DEF TypeInv, TypeOK, Moved
<1>4. TypeOK'
  BY <1>2, <1>3 DEF TypeInv, TypeOK, Moved, TreeTyped
<1>5. ASSUME NEW t \in Starts PROVE InStep(t)'
  BY <1>2 DEF TypeInv, InStep, Moved, RunsAt, Unwritten
<1>6. Known'
  BY <1>3 DEF TypeInv, Known, Moved
<1> QED
  BY <1>4, <1>5, <1>6 DEF TypeInv

LEMMA NpmCiTyped ==
  ASSUME TypeOK, NEW ok \in BOOLEAN, NpmCi(ok)
  PROVE  /\ TreeTyped /\ tree'.head = tree.head /\ tree'.dirty = tree.dirty
         /\ ok => tree'.mods = tree.head
BY DEF TypeOK, NpmCi, TreeTyped

\* What each step of a runner writes.
LEMMA RunnerWrites ==
  ASSUME TypeInv, NEW s \in Starts
  PROVE  /\ Preflight(s) => Wrote(s, "fetch", "running") \/ Wrote(s, "unlock", "blocked")
         /\ Fetch(s) => Wrote(s, "verifyTarget", "running") \/ Wrote(s, "unlock", "failed")
         /\ VerifyTarget(s) => \/ Wrote(s, "merge", "running") \/ Wrote(s, "unlock", "failed")
                              \/ Wrote(s, "unlock", "blocked")
         /\ Merge(s) => Wrote(s, "install", "running") \/ Wrote(s, "unlock", "failed")
         /\ Install(s) => Wrote(s, "reload", "running") \/ Wrote(s, "look", "running")
         /\ ReloadNew(s) => Wrote(s, "verify", "running") \/ Wrote(s, "look", "running")
         /\ ReloadOld(s) =>
              Wrote(s, "verifyBack", "running") \/ Wrote(s, "held", "recovery_required")
         /\ VerifyRuntime(s) => \/ Wrote(s, "unlock", "succeeded") \/ Wrote(s, "look", "running")
                               \/ Wrote(s, "held", "recovery_required")
                               \/ Wrote(s, "unlock", "rolled_back")
         /\ RollbackLook(s) => \/ Moved(s, "reset") /\ UNCHANGED files
                               \/ Wrote(s, "held", "recovery_required")
         /\ Reset(s) => \/ Moved(s, "reinstall") /\ UNCHANGED files
                        \/ Wrote(s, "held", "recovery_required")
         /\ Reinstall(s) => \/ Moved(s, "reloadBack") /\ UNCHANGED files
                            \/ Wrote(s, "held", "recovery_required")
         /\ ApplyManaged(s) => \/ Wrote(s, "verifyManaged", "running")
                              \/ Wrote(s, "unlock", "rolled_back")
                              \/ Wrote(s, "held", "recovery_required")
<1> USE DEF GoOn, Stop, Hold, Rollback, RunsAt, Working, Runs, States, UpdatePhases
<1>1. Preflight(s) => Wrote(s, "fetch", "running") \/ Wrote(s, "unlock", "blocked")
  BY RunnerToWrote DEF Preflight
<1>2. Fetch(s) => Wrote(s, "verifyTarget", "running") \/ Wrote(s, "unlock", "failed")
  BY RunnerToWrote DEF Fetch
<1>3. VerifyTarget(s) =>
       Wrote(s, "merge", "running") \/ Wrote(s, "unlock", "failed") \/ Wrote(s, "unlock", "blocked")
  BY RunnerToWrote DEF VerifyTarget
<1>4. Merge(s) => Wrote(s, "install", "running") \/ Wrote(s, "unlock", "failed")
  BY RunnerToWrote DEF Merge
<1>5. Install(s) => Wrote(s, "reload", "running") \/ Wrote(s, "look", "running")
  BY RunnerToWrote DEF Install
<1>6. ReloadNew(s) => Wrote(s, "verify", "running") \/ Wrote(s, "look", "running")
  BY RunnerToWrote DEF ReloadNew, Reload
<1>7. ReloadOld(s) => Wrote(s, "verifyBack", "running") \/ Wrote(s, "held", "recovery_required")
  BY RunnerToWrote DEF ReloadOld, Reload
<1>8. VerifyRuntime(s) =>
       \/ Wrote(s, "unlock", "succeeded") \/ Wrote(s, "look", "running")
       \/ Wrote(s, "held", "recovery_required") \/ Wrote(s, "unlock", "rolled_back")
  BY RunnerToWrote DEF VerifyRuntime
<1>9. RollbackLook(s) => \/ Moved(s, "reset") /\ UNCHANGED files
                         \/ Wrote(s, "held", "recovery_required")
  BY RunnerToWrote DEF RollbackLook, Moved
<1>10. Reset(s) => \/ Moved(s, "reinstall") /\ UNCHANGED files
                   \/ Wrote(s, "held", "recovery_required")
  BY RunnerToWrote DEF Reset, Moved
<1>11. Reinstall(s) => \/ Moved(s, "reloadBack") /\ UNCHANGED files
                       \/ Wrote(s, "held", "recovery_required")
  BY RunnerToWrote DEF Reinstall, Moved
<1>12. ApplyManaged(s) =>
       \/ Wrote(s, "verifyManaged", "running") \/ Wrote(s, "unlock", "rolled_back")
       \/ Wrote(s, "held", "recovery_required")
  BY RunnerToWrote DEF ApplyManaged
<1> QED
  BY <1>1, <1>2, <1>3, <1>4, <1>5, <1>6, <1>7, <1>8, <1>9, <1>10, <1>11, <1>12

LEMMA TypeRunner ==
  ASSUME TypeInv, NEW s \in Starts, RunnerMoves(s) \/ RunnerThrows(s) \/ RunnerDies(s)
  PROVE  TypeInv'
<1> USE DEF RunsAt, Working, Runs, States
<1>1. CASE RunnerStarts(s)
  BY <1>1, RunnerStartsWrote, WroteKeepsTypes, StartsKept DEF RunnerStarts, TreeTyped, TypeInv,
     TypeOK
<1>2. CASE Preflight(s) \/ Fetch(s) \/ VerifyTarget(s)
  BY <1>2, RunnerWrites, WroteKeepsTypes, StartsKept
     DEF Preflight, Fetch, VerifyTarget, TreeTyped, TypeInv, TypeOK
<1>3. CASE Merge(s)
  <2>1. StartsEnd /\ TreeTyped
    BY <1>3, StartsKept DEF Merge, TreeTyped, TypeInv, TypeOK, Commits
  <2> QED
    BY <1>3, <2>1, RunnerWrites, WroteKeepsTypes DEF Merge, TypeInv, TypeOK
<1>4. CASE Install(s)
  <2>1. StartsEnd /\ TreeTyped
    BY <1>4, StartsKept, NpmCiTyped DEF Install, TypeInv
  <2> QED
    BY <1>4, <2>1, RunnerWrites, WroteKeepsTypes DEF Install, TypeInv, TypeOK
<1>5. CASE ReloadNew(s) \/ ReloadOld(s)
  <2>1. StartsEnd /\ TreeTyped
    BY <1>5, StartsKept, RestartEnds DEF ReloadNew, ReloadOld, Reload, TreeTyped, TypeInv, TypeOK
  <2> QED
    BY <1>5, <2>1, RunnerWrites, WroteKeepsTypes DEF ReloadNew, ReloadOld, Reload, TypeInv, TypeOK
<1>6. CASE VerifyRuntime(s)
  BY <1>6, RunnerWrites, WroteKeepsTypes, StartsKept DEF VerifyRuntime, TreeTyped, TypeInv, TypeOK
<1>7. CASE RollbackLook(s)
  BY ZenonT(60), <1>7, RunnerWrites, WroteKeepsTypes, MovedKeepsTypes, StartsKept
     DEF RollbackLook, TreeTyped, TypeInv, TypeOK
<1>8. CASE Reset(s)
  <2>1. StartsEnd /\ TreeTyped
    BY <1>8, StartsKept DEF Reset, TreeTyped, TypeInv, TypeOK, Commits
  <2> QED
    BY <1>8, <2>1, RunnerWrites, WroteKeepsTypes, MovedKeepsTypes DEF Reset, TypeInv, TypeOK
<1>9. CASE Reinstall(s)
  <2>1. StartsEnd /\ TreeTyped
    BY <1>9, StartsKept, NpmCiTyped DEF Reinstall, TypeInv
  <2> QED
    BY <1>9, <2>1, RunnerWrites, WroteKeepsTypes, MovedKeepsTypes DEF Reinstall, TypeInv, TypeOK
<1>10. CASE ApplyManaged(s)
  <2>1. StartsEnd /\ TreeTyped
    BY <1>10, StartsKept, RestartEnds DEF ApplyManaged, TreeTyped, TypeInv, TypeOK, Commits
  <2> QED
    BY <1>10, <2>1, RunnerWrites, WroteKeepsTypes DEF ApplyManaged, TypeInv, TypeOK
<1>11. CASE RunnerUnlocks(s)
  <2>1. PICK l \in {"unlockRemove", "gone"} : Moved(s, l)
    BY <1>11 DEF RunnerUnlocks, RemoveLock, Moved
  <2>2. disturbed' \in BOOLEAN
    BY <1>11 DEF RunnerUnlocks, RemoveLock, MayUnlock, TypeInv, TypeOK
  <2>3. TreeTyped /\ UNCHANGED <<setting, report, panel, plugin, start>> /\ runner[s].pc # "none"
    BY <1>11 DEF RunnerUnlocks, TreeTyped, TypeInv, TypeOK
  <2> QED
    BY <2>1, <2>2, <2>3, MovedKeepsTypes
<1>12. CASE RunnerThrows(s)
  BY <1>12, RunnerThrowsWrote, WroteKeepsTypes, StartsKept DEF RunnerThrows, TreeTyped, TypeInv,
     TypeOK
<1>13. CASE RunnerDies(s)
  BY ZenonT(60), <1>13, MovedKeepsTypes DEF RunnerDies, Moved, TreeTyped, TypeInv, TypeOK
<1> QED
  BY <1>1, <1>2, <1>3, <1>4, <1>5, <1>6, <1>7, <1>8, <1>9, <1>10, <1>11, <1>12, <1>13 DEF
     RunnerMoves

LEMMA TypePlugin ==
  ASSUME TypeInv, PluginRestarts \/ ConfirmPendingBoot \/ GetReports \/ WriteBoot \/ UserChanges
  PROVE  TypeInv'
<1>1. CASE PluginRestarts
  <2>1. StartsEnd
    BY <1>1, RestartEnds DEF PluginRestarts, TypeInv, TypeOK
  <2>2. TypeOK'
    BY <1>1, <2>1 DEF PluginRestarts, TypeInv, TypeOK, StartsEnd
  <2>3. \A t \in Starts : InStep(t)'
    BY <1>1, <2>1 DEF PluginRestarts, TypeInv, InStep, RunsAt, StartsEnd, Unwritten, InProgress
  <2> QED
    BY <1>1, <2>2, <2>3 DEF PluginRestarts, TypeInv, Known
<1>2. CASE ConfirmPendingBoot \/ GetReports \/ UserChanges
  <2>1. [boot |-> plugin.boot, commit |-> tree.head] \in Boots
    BY DEF TypeInv, TypeOK, Boots
  <2>2. ConfirmPendingBoot => TypeOK'
    BY <2>1 DEF ConfirmPendingBoot, TypeInv, TypeOK
  <2>3. GetReports => TypeOK'
    BY <2>1 DEF GetReports, TypeInv, TypeOK
  <2>4. UserChanges => TypeOK'
    <3>1. UserChanges => tree' \in [head : Commits, dirty : BOOLEAN, mods : Commits \cup {"broken"},
                                   edits : Nat]
      <4> DEFINE dirty == ~tree.dirty
                 edits == tree.edits + 1
      <4>1. UserChanges => \/ tree' = [tree EXCEPT !.head = "own", !.edits = edits]
                           \/ tree' = [tree EXCEPT !.dirty = dirty, !.edits = edits]
        BY DEF UserChanges
      <4>2. tree \in [head : Commits, dirty : BOOLEAN, mods : Commits \cup {"broken"}, edits : Nat]
        BY DEF TypeInv, TypeOK
      <4>3. dirty \in BOOLEAN /\ edits \in Nat
        BY <4>2
      <4> HIDE DEF dirty, edits
      <4> QED
        BY <4>1, <4>2, <4>3 DEF Commits
    <3> QED
      BY <3>1 DEF UserChanges, TypeInv, TypeOK
  <2> QED
    BY <1>2, <2>2, <2>3, <2>4 DEF ConfirmPendingBoot, GetReports, UserChanges, TypeInv, InStep,
       RunsAt, Known
<1>3. CASE WriteBoot
  <2>1. TypeOK' /\ files'.latest = files.latest
    BY <1>3 DEF WriteBoot, TypeInv, TypeOK
  <2> QED
    BY <1>3, <2>1 DEF WriteBoot, TypeInv, InStep, RunsAt, Known
<1> QED
  BY <1>1, <1>2, <1>3

\* The panel keeps what it shows or takes what it is given.
LEMMA AdoptOne ==
  ASSUME NEW cur, NEW next
  PROVE  AdoptJob(cur, next) \in {cur, next}
BY DEF AdoptJob

LEMMA TypePanel ==
  ASSUME TypeInv,
         \/ \E s \in Starts : StartAnswered(s) \/ StartAnswerLost(s) \/ Recover(s)
         \/ Poll \/ Adopts
  PROVE  TypeInv'
<1>1. ASSUME NEW s \in Starts, StartAnswered(s)
      PROVE  TypeInv'
  <2> DEFINE first == [jobs[s] EXCEPT !.state = "queued", !.phase = "preflight", !.seq = 0]
             answer == IF StartAt(s, "accepted") THEN first ELSE jobs[s]
             shown == IF panel.seeks = s /\ jobs[s] # Nil THEN AdoptJob(panel.shown, answer)
                      ELSE panel.shown
             seeks == IF panel.seeks = s THEN Nil ELSE panel.seeks
  <2>1. jobs[s] # Nil => jobs[s] \in Jobs /\ answer \in Jobs /\ answer.id = s
    <3> SUFFICES ASSUME jobs[s] # Nil PROVE jobs[s] \in Jobs /\ answer \in Jobs /\ answer.id = s
      OBVIOUS
    <3>1. jobs[s] \in Jobs /\ jobs[s].id = s
      BY DEF TypeInv, TypeOK, InStep
    <3>2. first \in Jobs /\ first.id = s
      BY <3>1 DEF Jobs, States, UpdatePhases
    <3> QED
      BY <3>1, <3>2
  <2>2. shown = panel.shown \/ (jobs[s] # Nil /\ shown = answer)
    BY AdoptOne
  <2>3. panel' = [panel EXCEPT !.seeks = seeks, !.shown = shown]
    BY <1>1 DEF StartAnswered
  <2>4. start' = [start EXCEPT ![s] = [@ EXCEPT !.pc = "closed"]]
    BY <1>1 DEF StartAnswered, StartTo
  <2> HIDE DEF shown, answer
  <2>5. panel' \in [shown : Jobs \cup {Nil}, asked : SUBSET Jobs, seeks : Starts \cup {Nil}]
        /\ panel'.asked = panel.asked /\ panel'.shown = shown
    BY <2>1, <2>2, <2>3 DEF TypeInv, TypeOK
  <2>6. TypeOK' /\ start'[s].pc = "closed" /\ \A t \in Starts \ {s} : start'[t] = start[t]
    <3>1. start \in [Starts -> [pc : StartSteps, held : Starts \cup {Nil}, boot : Nat]]
      BY DEF TypeInv, TypeOK
    <3>2. /\ start' \in [Starts -> [pc : StartSteps, held : Starts \cup {Nil}, boot : Nat]]
          /\ start'[s].pc = "closed" /\ \A t \in Starts \ {s} : start'[t] = start[t]
      BY <2>4, <3>1 DEF StartSteps
    <3> QED
      BY <1>1, <2>5, <3>2 DEF StartAnswered, TypeInv, TypeOK
  <2>7. \A t \in Starts : InStep(t)'
    BY <1>1, <2>6 DEF StartAnswered, TypeInv, InStep, RunsAt, Unwritten
  <2> QED
    BY <1>1, <2>1, <2>2, <2>5, <2>6, <2>7 DEF StartAnswered, TypeInv, Known
<1>2. ASSUME NEW s \in Starts, StartAnswerLost(s)
      PROVE  TypeInv'
  <2>1. TypeOK'
    BY SMTT(40), <1>2 DEF StartAnswerLost, StartTo, TypeInv, TypeOK, StartSteps
  <2> QED
    BY <1>2, <2>1 DEF StartAnswerLost, StartTo, TypeInv, TypeOK, InStep, RunsAt, Unwritten, Known
<1>3. ASSUME NEW s \in Starts, Recover(s)
      PROVE  TypeInv'
  <2> DEFINE shown == AdoptJob(panel.shown, jobs[s])
  <2>1. \/ panel' = [panel EXCEPT !.seeks = Nil]
        \/ files.latest = s /\ panel' = [panel EXCEPT !.seeks = Nil, !.shown = shown]
    BY <1>3 DEF Recover
  <2>2. shown \in {panel.shown, jobs[s]}
    BY AdoptOne
  <2> HIDE DEF shown
  <2>3. /\ panel' \in [shown : Jobs \cup {Nil}, asked : SUBSET Jobs, seeks : Starts \cup {Nil}]
        /\ panel'.asked = panel.asked
        /\ panel'.shown = panel.shown \/ (files.latest = s /\ panel'.shown = jobs[s])
    BY <2>1, <2>2 DEF TypeInv, TypeOK
  <2>4. TypeOK'
    BY <1>3, <2>3 DEF Recover, TypeInv, TypeOK
  <2>5. files.latest = s => jobs[s] # Nil /\ jobs[s].id = s
    BY NilAssumption DEF TypeInv, Known, InStep
  <2>6. Known'
    BY <1>3, <2>3, <2>5 DEF Recover, TypeInv, Known
  <2> QED
    BY <1>3, <2>4, <2>6 DEF Recover, TypeInv, InStep, RunsAt
<1>4. CASE Poll
  <2> DEFINE id == IF IsActive(panel.shown) THEN panel.shown.id ELSE files.latest
  <2>1. id \in Starts /\ jobs[id] # Nil /\ jobs[id] \in Jobs /\ jobs[id].id = id
    BY <1>4 DEF Poll, IsActive, TypeInv, TypeOK, InStep, Known, Jobs
  <2>2. panel' = [panel EXCEPT !.asked = @ \cup {jobs[id]}]
    BY <1>4 DEF Poll
  <2> HIDE DEF id
  <2>3. TypeOK'
    BY <1>4, <2>1, <2>2 DEF Poll, TypeInv, TypeOK
  <2>4. Known'
    BY <1>4, <2>1, <2>2 DEF Poll, TypeInv, TypeOK, Known
  <2> QED
    BY <1>4, <2>3, <2>4 DEF Poll, TypeInv, InStep, RunsAt
<1>5. ASSUME NEW j \in panel.asked, Adopt(j)
      PROVE  TypeInv'
  <2>1. AdoptJob(panel.shown, j) \in {panel.shown, j}
    BY AdoptOne
  <2>2. TypeOK'
    BY ZenonT(60), <1>5, <2>1 DEF Adopt, TypeInv, TypeOK
  <2>3. Known'
    BY <1>5, <2>1 DEF Adopt, TypeInv, TypeOK, Known
  <2> QED
    BY <1>5, <2>2, <2>3 DEF Adopt, TypeInv, InStep, RunsAt
<1> QED
  BY <1>1, <1>2, <1>3, <1>4, <1>5 DEF Adopts

LEMMA TypeNext == TypeInv /\ [Next]_vars => TypeInv'
<1>1. TypeInv /\ UNCHANGED vars => TypeInv'
  BY DEF vars, TypeInv, TypeOK, InStep, RunsAt, Known
<1> QED
  BY <1>1, TypeStart, TypeRunner, TypePlugin, TypePanel DEF Next

\* Every variable has its type: no step writes a job that is not there, of a
\* runner that has none, or shows one that was never written.
THEOREM TypeCorrect == Spec => []TypeOK
<1>1. TypeInv => TypeOK
  BY DEF TypeInv
<1> QED
  BY <1>1, TypeInit, TypeNext, PTL DEF Spec

-----------------------------------------------------------------------------
(* OneRunner.  The lock is a runner's, or a start's that is about to spawn  *)
(* one; and whoever is about to remove the lock of a job that looked stale  *)
(* removes it of a job whose runner is gone and will not come.              *)

Owning == {"write", "remember", "spawn"}
Passed == {"giveUp", "giveUpRemove", "accepted", "refused", "lost", "closed"}

LockOf(s) == files.lock # Nil /\ files.lock.job = s
Over(s) == start[s].pc \in Passed /\ runner[s].pc \notin Working

LockIsTaken == files.lock # Nil => start[files.lock.job].pc \in Owning \cup Passed
LockIsHeld ==
  \A s \in Starts :
    /\ runner[s].pc \in Working => LockOf(s)
    /\ start[s].pc \in Owning => LockOf(s) /\ files.lock.pid = plugin.boot
    /\ start[s].pc \in {"reclaim", "reclaimRemove"} => Over(start[s].held)

LockInv == LockIsTaken /\ LockIsHeld
RunnerInv == TypeInv /\ (disturbed \/ LockInv)

LEMMA LockTyped ==
  ASSUME TypeInv
  PROVE  files.lock # Nil => files.lock \in Locks /\ files.lock.job \in Starts
BY DEF TypeInv, TypeOK, Locks

LEMMA LockInit == Init => LockInv
BY DEF Init, LockInv, LockIsTaken, LockIsHeld, Working, Owning

\* What a start does to itself.
LEMMA StartToEffect ==
  ASSUME TypeInv, NEW s \in Starts, NEW l \in StartSteps, StartTo(s, l)
  PROVE  /\ start'[s].pc = l /\ start'[s].held = start[s].held
         /\ \A t \in Starts \ {s} : start'[t] = start[t]
<1>1. start \in [Starts -> [pc : StartSteps, held : Starts \cup {Nil}, boot : Nat]]
      /\ start' = [start EXCEPT ![s] = [@ EXCEPT !.pc = l]]
  BY DEF TypeInv, TypeOK, StartTo
<1> QED
  BY <1>1

\* A lock that looks stale is that of a job whose runner is gone and will not
\* come, or has been spawned by a process that died.
LEMMA StaleIsOver ==
  ASSUME TypeInv, LockInv, files.lock # Nil, StaleLock(files.lock),
         ~RunsAt(files.lock.job, "read")
  PROVE  Over(files.lock.job)
<1> DEFINE h == files.lock.job
<1>1. h \in Starts /\ InStep(h) /\ jobs[h] \in Jobs \cup {Nil}
  BY LockTyped DEF TypeInv, TypeOK
<1>2. runner[h].pc \notin Working
  <2>1. runner[h].pc \in Working => jobs[h] # Nil /\ jobs[h].state = "running"
    BY <1>1 DEF InStep, RunsAt
  <2> QED
    BY <2>1 DEF StaleLock, Ended
<1>3. start[h].pc \notin Owning
  <2>1. SUFFICES ASSUME start[h].pc \in Owning PROVE FALSE
    OBVIOUS
  <2>2. files.lock.pid = plugin.boot /\ (jobs[h] = Nil \/ jobs[h].state = "queued")
    BY SMTT(40), <1>1, <2>1 DEF LockInv, LockIsHeld, InStep, Owning, Unwritten
  <2> QED
    BY <2>2 DEF StaleLock, PidAlive, Ended
<1>4. start[h].pc \in Owning \cup Passed
  BY SMTT(40) DEF LockInv, LockIsTaken
<1> QED
  BY <1>2, <1>3, <1>4 DEF Over

LEMMA LockStart ==
  ASSUME TypeInv, LockInv, ~disturbed, NEW s \in Starts, StartMoves(s), ~disturbed'
  PROVE  LockInv'
<1> USE DEF LockInv, LockIsTaken, LockIsHeld, LockOf, Over, Owning, Passed, StartAt, Working
<1>1. CASE Begin(s)
  <2>1. /\ start'[s].pc \in {"look", "refused"}
        /\ \A t \in Starts \ {s} : start'[t] = start[t]
    BY <1>1 DEF Begin, TypeInv, TypeOK
  <2> QED
    BY <1>1, <2>1, LockTyped DEF Begin
<1>2. CASE LookAtLock(s)
  <2> DEFINE next == IF files.lock = Nil THEN "acquire"
                     ELSE IF StaleLock(files.lock) THEN "reclaim" ELSE "refused"
             held == IF files.lock = Nil THEN Nil ELSE files.lock.job
  <2>0. start \in [Starts -> [pc : StartSteps, held : Starts \cup {Nil}, boot : Nat]]
    BY DEF TypeInv, TypeOK
  <2>1. start' = [start EXCEPT ![s] = [@ EXCEPT !.pc = next, !.held = held]]
    BY <1>2, <2>0 DEF LookAtLock
  <2>2. next = "reclaim" => files.lock # Nil /\ StaleLock(files.lock) /\ held = files.lock.job
    OBVIOUS
  <2>3. next \in {"acquire", "reclaim", "refused"}
    OBVIOUS
  <2> HIDE DEF next, held
  <2>4. /\ start'[s].pc = next /\ start'[s].held = held
        /\ \A t \in Starts \ {s} : start'[t] = start[t]
    BY <2>0, <2>1
  <2>5. next = "reclaim" => ~RunsAt(files.lock.job, "read")
    BY <1>2, <2>4 DEF LookAtLock
  <2>6. next = "reclaim" => Over(held) /\ held \in Starts /\ held # s
    BY <1>2, <2>2, <2>5, StaleIsOver, LockTyped DEF LookAtLock
  <2>7. start[s].pc = "look" /\ UNCHANGED <<files, runner, plugin>>
    BY <1>2 DEF LookAtLock
  <2> QED
    BY <2>3, <2>4, <2>6, <2>7, LockTyped DEF TypeInv, InStep
<1>3. CASE Reclaim(s)
  <2>1. /\ start'[s].pc \in {"reclaimRemove", "acquire"} /\ start'[s].held = start[s].held
        /\ \A t \in Starts \ {s} : start'[t] = start[t]
    BY <1>3, StartToEffect DEF Reclaim, StartSteps
  <2> QED
    BY <1>3, <2>1, LockTyped DEF Reclaim, TypeInv, InStep
<1>4. CASE ReclaimRemove(s) \/ GiveUpRemove(s)
  <2> DEFINE j == IF start[s].pc = "reclaimRemove" THEN start[s].held ELSE s
  <2>1. /\ start'[s].pc \in {"acquire", "refused"}
        /\ start[s].pc = "giveUpRemove" => start'[s].pc = "refused"
        /\ \A t \in Starts \ {s} : start'[t] = start[t]
    BY <1>4, StartToEffect DEF ReclaimRemove, GiveUpRemove, StartSteps
  <2>2. MayUnlock(j) /\ files' = [files EXCEPT !.lock = Nil]
    BY <1>4 DEF ReclaimRemove, GiveUpRemove, RemoveLock
  <2>3. files'.lock = Nil
    BY <2>2 DEF TypeInv, TypeOK
  <2>4. start[j].pc \in Passed /\ runner[j].pc \notin Working
    BY <1>4 DEF ReclaimRemove, GiveUpRemove, TypeInv, InStep, RunsAt
  <2>5. \A t \in Starts : runner[t].pc \notin Working /\ start[t].pc \notin Owning
    BY <2>2, <2>4 DEF MayUnlock
  <2>6. start[s].pc \in {"reclaimRemove", "giveUpRemove"} /\ UNCHANGED <<runner, plugin>>
    BY <1>4 DEF ReclaimRemove, GiveUpRemove
  <2> QED
    BY <2>1, <2>3, <2>5, <2>6 DEF TypeInv, InStep
<1>5. CASE Acquire(s)
  <2>1. CASE TryLock(s) /\ StartTo(s, "write")
    <3>1. files' = [files EXCEPT !.lock = [job |-> s, pid |-> plugin.boot]]
          /\ [job |-> s, pid |-> plugin.boot] \in Locks
      BY <2>1 DEF TryLock, Locks, TypeInv, TypeOK
    <3>2. files'.lock # Nil /\ files'.lock.job = s /\ files'.lock.pid = plugin.boot
      BY <3>1, NilAssumption DEF TypeInv, TypeOK
    <3>3. start'[s].pc = "write" /\ \A t \in Starts \ {s} : start'[t] = start[t]
      BY <2>1, StartToEffect DEF StartSteps
    <3>4. \A t \in Starts : runner[t].pc \notin Working /\ start[t].pc \notin Owning
      BY <2>1 DEF TryLock
    <3> QED
      BY <1>5, <3>2, <3>3, <3>4 DEF Acquire, TypeInv, InStep
  <2>2. CASE UNCHANGED files /\ StartTo(s, "refused")
    <3>1. start'[s].pc = "refused" /\ \A t \in Starts \ {s} : start'[t] = start[t]
      BY <2>2, StartToEffect DEF StartSteps
    <3> QED
      BY <1>5, <2>2, <3>1, LockTyped DEF Acquire, TypeInv, InStep
  <2> QED
    BY <1>5, <2>1, <2>2 DEF Acquire
<1>6. CASE WriteJob(s) \/ RememberRequest(s)
  <2>1. /\ start'[s].pc \in {"remember", "spawn"} /\ \A t \in Starts \ {s} : start'[t] = start[t]
    BY <1>6, StartToEffect DEF WriteJob, RememberRequest, StartSteps
  <2>2. files'.lock = files.lock
    BY <1>6 DEF WriteJob, RememberRequest, TypeInv, TypeOK
  <2> QED
    BY <1>6, <2>1, <2>2, LockTyped DEF WriteJob, RememberRequest, TypeInv, InStep
<1>7. CASE SpawnRunner(s)
  <2>1. /\ start'[s].pc = "accepted" /\ \A t \in Starts \ {s} : start'[t] = start[t]
    BY <1>7, StartToEffect DEF SpawnRunner, StartSteps
  <2>2. \A t \in Starts \ {s} : runner'[t] = runner[t]
    BY <1>7 DEF SpawnRunner, TypeInv, TypeOK
  <2> QED
    BY <1>7, <2>1, <2>2, LockTyped DEF SpawnRunner, TypeInv, InStep
<1>8. CASE SpawnFails(s) \/ GiveUp(s)
  <2>1. /\ start'[s].pc \in {"giveUp", "giveUpRemove", "refused"}
        /\ \A t \in Starts \ {s} : start'[t] = start[t]
    BY <1>8, StartToEffect DEF SpawnFails, GiveUp, StartSteps
  <2> QED
    BY <1>8, <2>1, LockTyped DEF SpawnFails, GiveUp, TypeInv, InStep
<1> QED
  BY <1>1, <1>2, <1>3, <1>4, <1>5, <1>6, <1>7, <1>8 DEF StartMoves

\* A runner that writes or goes on keeps its lock, whether or not the plugin
\* process is replaced meanwhile.
LEMMA LockKept ==
  ASSUME TypeInv, LockInv, files'.lock = files.lock,
         \A t \in Starts : runner'[t].pc \in Working => runner[t].pc \in Working,
         UNCHANGED <<plugin, start>> \/ \E commit \in Commits : Restarted(commit)
  PROVE  LockInv'
<1> USE DEF LockInv, LockIsTaken, LockIsHeld, LockOf, Over, Owning, Passed
<1>1. CASE UNCHANGED <<plugin, start>>
  BY <1>1, LockTyped DEF TypeInv, InStep
<1>2. CASE \E commit \in Commits : Restarted(commit)
  <2>1. StartsEnd /\ \A t \in Starts : start'[t].pc \notin InProgress
    BY <1>2, RestartEnds DEF TypeInv
  <2> QED
    BY <2>1, LockTyped DEF StartsEnd, InProgress, StartSteps
<1> QED
  BY <1>1, <1>2

\* But for its unlock, a runner leaves the lock alone, and the other runners.
LEMMA RunnerGoesOn ==
  ASSUME TypeInv, NEW s \in Starts, RunnerMoves(s) \/ RunnerThrows(s) \/ RunnerDies(s),
         ~RunnerUnlocks(s)
  PROVE  /\ files'.lock = files.lock
         /\ \A t \in Starts \ {s} : runner'[t] = runner[t] /\ jobs'[t] = jobs[t]
         /\ runner[s].pc \in Working \cup {"unlock", "unlockRemove"}
         /\ runner'[s].pc \in Working => runner[s].pc \in Working
         /\ UNCHANGED <<plugin, start>> \/ \E commit \in Commits : Restarted(commit)
<1>1. ASSUME NEW l, NEW state, Wrote(s, l, state)
      PROVE  /\ files'.lock = files.lock
             /\ \A t \in Starts \ {s} : runner'[t] = runner[t] /\ jobs'[t] = jobs[t]
  BY <1>1 DEF Wrote, TypeInv, TypeOK
<1>2. ASSUME NEW l, Moved(s, l), files' = files
      PROVE  /\ files'.lock = files.lock
             /\ \A t \in Starts \ {s} : runner'[t] = runner[t] /\ jobs'[t] = jobs[t]
  BY <1>2 DEF Moved, TypeInv, TypeOK
<1> USE DEF RunsAt, Working
<1>3. CASE RunnerStarts(s)
  BY <1>1, <1>3, RunnerStartsWrote DEF RunnerStarts
<1>4. CASE Preflight(s) \/ Fetch(s) \/ VerifyTarget(s)
  BY <1>1, <1>4, RunnerWrites DEF Preflight, Fetch, VerifyTarget
<1>5. CASE Merge(s) \/ Install(s)
  BY <1>1, <1>5, RunnerWrites DEF Merge, Install
<1>6. CASE ReloadNew(s) \/ ReloadOld(s)
  BY <1>1, <1>6, RunnerWrites DEF ReloadNew, ReloadOld, Reload, TypeInv, TypeOK
<1>7. CASE VerifyRuntime(s)
  BY <1>1, <1>7, RunnerWrites DEF VerifyRuntime
<1>8. CASE RollbackLook(s)
  BY <1>1, <1>2, <1>8, RunnerWrites DEF RollbackLook
<1>9. CASE Reset(s) \/ Reinstall(s)
  BY <1>1, <1>2, <1>9, RunnerWrites DEF Reset, Reinstall
<1>10. CASE ApplyManaged(s)
  BY <1>1, <1>10, RunnerWrites DEF ApplyManaged, Commits
<1>11. CASE RunnerThrows(s)
  BY <1>1, <1>11, RunnerThrowsWrote DEF RunnerThrows
<1>12. CASE RunnerDies(s)
  <2>1. Moved(s, "dead") /\ files' = files /\ runner'[s].pc = "dead"
    BY <1>12 DEF RunnerDies, Moved, TypeInv, TypeOK
  <2> QED
    BY <1>2, <1>12, <2>1 DEF RunnerDies
<1> QED
  BY <1>3, <1>4, <1>5, <1>6, <1>7, <1>8, <1>9, <1>10, <1>11, <1>12 DEF RunnerMoves

LEMMA LockRunner ==
  ASSUME TypeInv, LockInv, ~disturbed, NEW s \in Starts,
         RunnerMoves(s) \/ RunnerThrows(s) \/ RunnerDies(s), ~disturbed'
  PROVE  LockInv'
<1>1. CASE ~RunnerUnlocks(s)
  <2>1. \A t \in Starts : runner'[t].pc \in Working => runner[t].pc \in Working
    BY <1>1, RunnerGoesOn
  <2> QED
    BY <1>1, <2>1, RunnerGoesOn, LockKept
<1>2. CASE RunnerUnlocks(s)
  <2>1. /\ runner[s].pc \in {"unlock", "unlockRemove"}
        /\ runner'[s].pc \in {"unlockRemove", "gone"}
        /\ \A t \in Starts \ {s} : runner'[t] = runner[t]
    BY <1>2 DEF RunnerUnlocks, RunsAt, TypeInv, TypeOK
  <2>2. UNCHANGED <<plugin, start, jobs>>
    BY <1>2 DEF RunnerUnlocks
  <2>3. CASE UNCHANGED files
    BY <2>1, <2>2, <2>3, LockKept DEF Working
  <2>4. CASE RemoveLock(s)
    <3>1. files'.lock = Nil /\ MayUnlock(s)
      BY ZenonT(60), <2>4 DEF RemoveLock, TypeInv, TypeOK
    <3>2. start[s].pc \notin Owning
      BY SMTT(40), <2>1 DEF TypeInv, InStep, RunsAt, Owning
    <3>3. \A t \in Starts : runner[t].pc \notin Working /\ start[t].pc \notin Owning
      BY SMTT(40), <2>1, <3>1, <3>2 DEF MayUnlock, LockInv, LockIsHeld, LockOf, Working
    <3> QED
      BY <2>1, <2>2, <3>1, <3>3
         DEF LockInv, LockIsTaken, LockIsHeld, LockOf, Over, Working, TypeInv, InStep
  <2> QED
    BY <1>2, <2>3, <2>4 DEF RunnerUnlocks
<1> QED
  BY <1>1, <1>2

LEMMA DisturbedStays ==
  ASSUME [Next]_vars, disturbed
  PROVE  disturbed'
BY ZenonT(60) DEF Next, vars, StartMoves, RunnerMoves, Begin, LookAtLock, Reclaim, ReclaimRemove, Acquire,
   WriteJob, RememberRequest, SpawnRunner, SpawnFails, GiveUp, GiveUpRemove, RemoveLock,
   RunnerStarts, Preflight, Fetch, VerifyTarget, Merge, Install, ReloadNew, ReloadOld, Reload,
   VerifyRuntime, RollbackLook, Reset, Reinstall, ApplyManaged, RunnerUnlocks, RunnerThrows,
   RunnerDies, StartAnswered, StartAnswerLost, Recover, PluginRestarts, ConfirmPendingBoot,
   GetReports, WriteBoot, UserChanges, Poll, Adopts, Adopt

\* The program counter of a runner is moved by the runner, or by the start that
\* spawns it.
LEMMA RunnerOwnStep ==
  ASSUME TypeInv, Next, NEW s \in Starts, runner'[s].pc # runner[s].pc, runner[s].pc # "none"
  PROVE  RunnerMoves(s) \/ RunnerThrows(s) \/ RunnerDies(s)
<1>1. ASSUME NEW t \in Starts, RunnerMoves(t) \/ RunnerThrows(t) \/ RunnerDies(t), t # s
      PROVE  FALSE
  <2>1. CASE ~RunnerUnlocks(t)
    BY <1>1, <2>1, RunnerGoesOn
  <2>2. CASE RunnerUnlocks(t)
    BY <1>1, <2>2 DEF RunnerUnlocks, TypeInv, TypeOK
  <2> QED
    BY <2>1, <2>2
<1>2. ASSUME NEW t \in Starts, StartMoves(t)
      PROVE  FALSE
  <2>1. SpawnRunner(t)
    BY <1>2 DEF StartMoves, Begin, LookAtLock, Reclaim, ReclaimRemove, Acquire, WriteJob,
       RememberRequest, SpawnFails, GiveUp, GiveUpRemove
  <2>2. runner[t].pc = "none"
    BY <2>1 DEF SpawnRunner, StartAt, TypeInv, InStep, RunsAt
  <2> QED
    BY <2>1, <2>2 DEF SpawnRunner, TypeInv, TypeOK
<1> QED
  BY <1>1, <1>2 DEF Next, StartAnswered, StartAnswerLost, Recover, PluginRestarts,
     ConfirmPendingBoot,
     GetReports, WriteBoot, UserChanges, Poll, Adopts, Adopt

LEMMA LockNext == RunnerInv /\ [Next]_vars => RunnerInv'
<1> SUFFICES ASSUME TypeInv, [Next]_vars, disturbed \/ LockInv
             PROVE  disturbed' \/ LockInv'
  BY TypeNext DEF RunnerInv
<1>1. CASE disturbed
  BY <1>1, DisturbedStays
<1>2. CASE ~disturbed /\ ~disturbed'
  <2>1. ASSUME UNCHANGED vars \/ ConfirmPendingBoot \/ GetReports \/ WriteBoot \/ UserChanges
               \/ Poll \/ Adopts \/ \E s \in Starts : Recover(s)
        PROVE  LockInv'
    <3>1. files'.lock = files.lock /\ plugin'.boot = plugin.boot /\ UNCHANGED <<start, runner>>
      BY <2>1 DEF vars, ConfirmPendingBoot, GetReports, WriteBoot, UserChanges, Poll, Adopts,
         Adopt,
         Recover, TypeInv, TypeOK
    <3> QED
      BY <1>2, <3>1 DEF LockInv, LockIsTaken, LockIsHeld, LockOf, Over
  <2>2. ASSUME PluginRestarts
        PROVE  LockInv'
    <3>1. tree.head \in Commits
      BY SMTT(40) DEF TypeInv, TypeOK
    <3> QED
      BY SMTT(40), <1>2, <2>2, <3>1, LockKept DEF PluginRestarts
  <2>3. ASSUME NEW s \in Starts, StartAnswered(s) \/ StartAnswerLost(s)
        PROVE  LockInv'
    <3>1. start'[s].pc \in {"closed", "lost"} /\ \A t \in Starts \ {s} : start'[t] = start[t]
      BY <2>3, StartToEffect DEF StartAnswered, StartAnswerLost, StartSteps
    <3>2. start[s].pc \in Passed /\ UNCHANGED <<files, runner, plugin>>
      BY <2>3 DEF StartAnswered, StartAnswerLost, Passed
    <3> QED
      BY <1>2, <3>1, <3>2, LockTyped
         DEF LockInv, LockIsTaken, LockIsHeld, LockOf, Over, Owning, Passed, TypeInv, InStep
  <2>4. ASSUME NEW s \in Starts, StartMoves(s)
        PROVE  LockInv'
    BY <1>2, <2>4, LockStart
  <2>5. ASSUME NEW s \in Starts, RunnerMoves(s) \/ RunnerThrows(s) \/ RunnerDies(s)
        PROVE  LockInv'
    BY <1>2, <2>5, LockRunner
  <2> QED
    BY <2>1, <2>2, <2>3, <2>4, <2>5 DEF Next
<1> QED
  BY <1>1, <1>2

\* Two runners never work on one checkout, for any number of starts that overlap,
\* unless a lock was removed that was not the one looked at, or that belonged to a
\* runner whose parent died before it wrote (service.ts beginUpdate and staleLock,
\* runner.mjs).
THEOREM OneRunnerHolds == Spec => []OneRunner
<1>1. Init => RunnerInv
  BY TypeInit, LockInit DEF RunnerInv
<1>2. RunnerInv => OneRunner
  BY DEF RunnerInv, LockInv, LockIsHeld, LockOf, OneRunner
<1> QED
  BY <1>1, <1>2, LockNext, PTL DEF Spec

-----------------------------------------------------------------------------
(* EndTellsTheTruth.  Nobody but the runner that holds the lock has left    *)
(* the checkout between the two commits, and after a success no start is on *)
(* its way that was checked against the old one.                            *)

IsAll(commit) == tree.head = commit /\ tree.mods = commit /\ plugin.code = commit
Waiting == {"look", "reclaim", "reclaimRemove", "acquire"} \cup Owning
NobodyWaits == \A s \in Starts : start[s].pc \notin Waiting
Updated == IsAll("target") /\ NobodyWaits

Changing == (Working \ {"read", "preflight", "fetch", "verifyTarget", "merge", "apply"})
            \cup {"held", "threw", "dead"}
Unfinished(s) ==
  jobs[s] # Nil /\ jobs[s].state \in {"running", "recovery_required"}
Midway(s) == LockOf(s) /\ runner[s].pc \in Changing /\ Unfinished(s)

TreeIsKnown == IsAll("from") \/ Updated \/ \E s \in Starts : Midway(s)

\* What a runner has made of the checkout by the time of each step.
StepIsDue(s) ==
  /\ runner[s].pc \in (Working \ Changing) \cup {"verifyBack"} => IsAll("from")
  /\ runner[s].pc \in {"install", "reload", "look", "reset"} => tree.head = "target"
  /\ RunsAt(s, "reload") => tree.mods = "target"
  /\ runner[s].pc \in {"verify", "verifyManaged"} => Updated
  /\ runner[s].pc \in {"reinstall", "reloadBack"} => tree.head = "from"
  /\ RunsAt(s, "reloadBack") => tree.mods = "from"

\* A lock about to be removed is not that of a job that was left midway.
ReclaimIsDue(s) ==
  start[s].pc \in {"reclaim", "reclaimRemove"} => ~Unfinished(start[s].held)

TreeOK == ~tree.dirty /\ TreeIsKnown /\ \A s \in Starts : StepIsDue(s) /\ ReclaimIsDue(s)

TreeInv == RunnerInv /\ (disturbed \/ TreeOK)
\* What a step of a runner at work leaves: the checkout is as the runner's next
\* step expects it, and as its last status tells.
Leaves(s) ==
  /\ ~tree'.dirty /\ StepIsDue(s)'
  /\ runner'[s].pc \in Changing => Unfinished(s)' \/ IsAll("from")'
  /\ runner'[s].pc \notin Changing =>
       IF jobs'[s].state = "succeeded" THEN Updated' ELSE IsAll("from")'

LEMMA WroteLeaves ==
  ASSUME NEW s \in Starts, NEW l \in Runs, NEW state \in States, Wrote(s, l, state)
  PROVE  /\ runner'[s].pc = l /\ jobs'[s].state = state
         /\ state \in {"running", "recovery_required"} => Unfinished(s)'
BY DEF Wrote, Unfinished

LEMMA MovedLeaves ==
  ASSUME TypeInv, NEW s \in Starts, NEW l \in Runs, Moved(s, l), runner[s].pc \in Working \ {"read"}
  PROVE  runner'[s].pc = l /\ Unfinished(s)'
<1>1. Unfinished(s)'
  BY DEF TypeInv, InStep, Moved, Unfinished
<1> QED
  BY <1>1 DEF TypeInv, TypeOK, Moved

LEMMA RestartLeaves ==
  ASSUME TypeInv, Restarted(tree.head)
  PROVE  NobodyWaits' /\ plugin'.code = tree.head
<1>1. tree.head \in Commits
  BY DEF TypeInv, TypeOK
<1> QED
  BY <1>1, RestartEnds DEF TypeInv, NobodyWaits, Waiting, Owning, InProgress, StartSteps

LEMMA RunnerLeaves ==
  ASSUME TypeInv, TreeOK, ~disturbed', NEW s \in Starts, runner[s].pc \in Working,
         RunnerMoves(s) \/ RunnerThrows(s) \/ RunnerDies(s)
  PROVE  Leaves(s)
<1> USE DEF Leaves, TreeOK, StepIsDue, Changing, Working, Runs, States, RunsAt
<1>1. CASE RunnerStarts(s)
  <2>1. runner'[s].pc \in {"apply", "preflight"} /\ jobs'[s].state = "running"
    BY <1>1, RunnerStartsWrote, WroteLeaves
  <2> QED
    BY <1>1, <2>1 DEF RunnerStarts, IsAll
<1>2. CASE Preflight(s) \/ Fetch(s) \/ VerifyTarget(s)
  <2>1. /\ runner'[s].pc \in {"fetch", "verifyTarget", "merge", "unlock"}
        /\ jobs'[s].state \in {"running", "failed", "blocked"}
    BY <1>2, RunnerWrites, WroteLeaves DEF Preflight, Fetch, VerifyTarget
  <2> QED
    BY <1>2, <2>1 DEF Preflight, Fetch, VerifyTarget, IsAll
<1>3. CASE Merge(s)
  <2>1. CASE tree' = [tree EXCEPT !.head = "target"] /\ GoOn(s, "install", "installing")
    <3>1. runner'[s].pc = "install" /\ Unfinished(s)'
      BY <1>3, <2>1, RunnerToWrote, WroteLeaves DEF Merge, GoOn, UpdatePhases
    <3> QED
      BY <1>3, <2>1, <3>1 DEF Merge, TypeInv, TypeOK
  <2>2. CASE Stop(s, "failed", "fast_forwarding") /\ UNCHANGED tree
    <3>1. runner'[s].pc = "unlock" /\ jobs'[s].state = "failed"
      BY SMTT(40), <1>3, <2>2, RunnerToWrote, WroteLeaves DEF Merge, Stop, UpdatePhases
    <3> QED
      BY <1>3, <2>2, <3>1 DEF Merge, IsAll
  <2> QED
    BY <1>3, <2>1, <2>2 DEF Merge
<1>4. CASE Install(s)
  <2>1. ASSUME NEW ok \in BOOLEAN, NpmCi(ok),
               IF ok THEN GoOn(s, "reload", "reloading") ELSE Rollback(s)
        PROVE  Leaves(s)
    <3>1. runner'[s].pc = (IF ok THEN "reload" ELSE "look") /\ Unfinished(s)'
      BY SMTT(40), <1>4, <2>1, RunnerToWrote, WroteLeaves DEF Install, GoOn, Rollback, UpdatePhases
    <3>2. tree'.head = tree.head /\ tree'.dirty = tree.dirty /\ (ok => tree'.mods = tree.head)
      BY <2>1, NpmCiTyped DEF TypeInv
    <3> QED
      BY <1>4, <3>1, <3>2 DEF Install
  <2> QED
    BY <1>4, <2>1 DEF Install
<1>5. CASE ReloadNew(s)
  <2>1. CASE Restarted(tree.head) /\ GoOn(s, "verify", "verifying_runtime")
    <3>1. runner'[s].pc = "verify" /\ Unfinished(s)'
      BY SMTT(40), <1>5, <2>1, RunnerToWrote, WroteLeaves DEF ReloadNew, Reload, GoOn, UpdatePhases
    <3> QED
      BY <1>5, <2>1, <3>1, RestartLeaves DEF ReloadNew, Reload, Updated, IsAll
  <2>2. CASE Rollback(s)
    <3>1. runner'[s].pc = "look" /\ Unfinished(s)'
      BY SMTT(40), <1>5, <2>2, RunnerToWrote, WroteLeaves DEF ReloadNew, Reload, Rollback, GoOn,
         UpdatePhases
    <3> QED
      BY <1>5, <3>1 DEF ReloadNew, Reload
  <2> QED
    BY <1>5, <2>1, <2>2 DEF ReloadNew, Reload
<1>6. CASE ReloadOld(s)
  <2>1. CASE Restarted(tree.head) /\ GoOn(s, "verifyBack", "rolling_back")
    <3>1. runner'[s].pc = "verifyBack" /\ Unfinished(s)'
      BY SMTT(40), <1>6, <2>1, RunnerToWrote, WroteLeaves DEF ReloadOld, Reload, GoOn, UpdatePhases
    <3> QED
      BY <1>6, <2>1, <3>1, RestartLeaves DEF ReloadOld, Reload, IsAll
  <2>2. CASE Hold(s)
    <3>1. runner'[s].pc = "held" /\ Unfinished(s)'
      BY SMTT(40), <1>6, <2>2, RunnerToWrote, WroteLeaves DEF ReloadOld, Reload, Hold, UpdatePhases
    <3> QED
      BY <1>6, <3>1 DEF ReloadOld, Reload
  <2> QED
    BY <1>6, <2>1, <2>2 DEF ReloadOld, Reload
<1>7. CASE VerifyRuntime(s)
  <2>1. UNCHANGED <<tree, plugin, start>>
    BY <1>7 DEF VerifyRuntime
  <2>2. CASE runner[s].pc \in {"verify", "verifyManaged"} /\ Stop(s, "succeeded", "done")
    <3>1. runner'[s].pc = "unlock" /\ jobs'[s].state = "succeeded"
      BY <2>2, RunnerToWrote, WroteLeaves DEF Stop, UpdatePhases
    <3> QED
      BY <2>1, <2>2, <3>1 DEF Updated, IsAll, NobodyWaits
  <2>3. CASE RunsAt(s, "verify") /\ Rollback(s)
    <3>1. runner'[s].pc = "look" /\ Unfinished(s)'
      BY SMTT(40), <2>3, RunnerToWrote, WroteLeaves DEF Rollback, GoOn, UpdatePhases
    <3> QED
      BY <2>1, <2>3, <3>1 DEF Updated, IsAll
  <2>4. CASE runner[s].pc \in {"verifyManaged", "verifyBack"} /\ Hold(s)
    <3>1. runner'[s].pc = "held" /\ Unfinished(s)'
      BY SMTT(40), <2>4, RunnerToWrote, WroteLeaves DEF Hold, UpdatePhases
    <3> QED
      BY <2>1, <3>1
  <2>5. CASE RunsAt(s, "verifyBack") /\ Stop(s, "rolled_back", "done")
    <3>1. runner'[s].pc = "unlock" /\ jobs'[s].state = "rolled_back"
      BY SMTT(40), <2>5, RunnerToWrote, WroteLeaves DEF Stop, UpdatePhases
    <3> QED
      BY <2>1, <2>5, <3>1 DEF IsAll
  <2> QED
    BY <1>7, <2>2, <2>3, <2>4, <2>5 DEF VerifyRuntime
<1>8. CASE RollbackLook(s) \/ Reset(s) \/ Reinstall(s)
  <2>1. CASE RollbackLook(s)
    <3>1. runner'[s].pc \in {"reset", "held"} /\ Unfinished(s)'
      BY <2>1, RunnerWrites, WroteLeaves, MovedLeaves DEF RollbackLook
    <3> QED
      BY <2>1, <3>1 DEF RollbackLook
  <2>2. CASE Reset(s)
    <3>1. CASE /\ tree' = [tree EXCEPT !.head = "from"]
               /\ runner' = [runner EXCEPT ![s].pc = "reinstall"]
               /\ UNCHANGED <<jobs, files>>
      <4>1. runner'[s].pc = "reinstall" /\ Unfinished(s)'
        BY <2>2, <3>1, MovedLeaves DEF Reset, Moved
      <4> QED
        BY SMTT(40), <3>1, <4>1 DEF TypeInv, TypeOK
    <3>2. CASE Hold(s) /\ UNCHANGED tree
      <4>1. runner'[s].pc = "held" /\ Unfinished(s)'
        BY SMTT(40), <2>2, <3>2, RunnerToWrote, WroteLeaves DEF Reset, Hold, UpdatePhases
      <4> QED
        BY <3>2, <4>1
    <3> QED
      BY SMTT(40), <2>2, <3>1, <3>2 DEF Reset
  <2>3. CASE Reinstall(s)
    <3>1. CASE NpmCi(TRUE) /\ runner' = [runner EXCEPT ![s].pc = "reloadBack"]
               /\ UNCHANGED <<jobs, files>>
      <4>1. runner'[s].pc = "reloadBack" /\ Unfinished(s)'
        BY <2>3, <3>1, MovedLeaves DEF Reinstall, Moved
      <4> QED
        BY <2>3, <3>1, <4>1, NpmCiTyped DEF Reinstall, TypeInv
    <3>2. CASE NpmCi(FALSE) /\ Hold(s)
      <4>1. runner'[s].pc = "held" /\ Unfinished(s)'
        BY SMTT(40), <2>3, <3>2, RunnerToWrote, WroteLeaves DEF Reinstall, Hold, UpdatePhases
      <4> QED
        BY <2>3, <3>2, <4>1, NpmCiTyped DEF TypeInv
    <3> QED
      BY <2>3, <3>1, <3>2 DEF Reinstall
  <2> QED
    BY <1>8, <2>1, <2>2, <2>3
<1>9. CASE ApplyManaged(s)
  <2>1. CASE tree' = [tree EXCEPT !.head = "target", !.mods = "target"] /\ Restarted("target")
             /\ (GoOn(s, "verifyManaged", "verifying_runtime") \/ Hold(s))
    <3>1. runner'[s].pc \in {"verifyManaged", "held"} /\ Unfinished(s)'
      BY SMTT(40), <1>9, <2>1, RunnerToWrote, WroteLeaves DEF ApplyManaged, GoOn, Hold, UpdatePhases
    <3>2. tree'.head = "target" /\ tree'.mods = "target" /\ tree'.dirty = tree.dirty
      BY <2>1 DEF TypeInv, TypeOK
    <3>3. NobodyWaits' /\ plugin'.code = "target"
      BY <2>1, RestartEnds
         DEF TypeInv, NobodyWaits, Waiting, Owning, InProgress, StartSteps, Commits
    <3> QED
      BY <3>1, <3>2, <3>3 DEF Updated, IsAll
  <2>2. CASE UNCHANGED <<tree, plugin, start>> /\ Stop(s, "rolled_back", "done")
    <3>1. runner'[s].pc = "unlock" /\ jobs'[s].state = "rolled_back"
      BY SMTT(40), <1>9, <2>2, RunnerToWrote, WroteLeaves DEF ApplyManaged, Stop, UpdatePhases
    <3> QED
      BY <1>9, <2>2, <3>1 DEF ApplyManaged, IsAll
  <2>3. CASE UNCHANGED <<tree, plugin, start>> /\ Hold(s)
    <3>1. runner'[s].pc = "held" /\ Unfinished(s)'
      BY <1>9, <2>3, RunnerToWrote, WroteLeaves DEF ApplyManaged, Hold, UpdatePhases
    <3> QED
      BY SMTT(40), <2>3, <3>1
  <2> QED
    BY <1>9, <2>1, <2>2, <2>3 DEF ApplyManaged
<1>10. CASE RunnerThrows(s)
  <2>1. runner'[s].pc = "threw" /\ Unfinished(s)'
    BY <1>10, RunnerThrowsWrote, WroteLeaves
  <2> QED
    BY <1>10, <2>1 DEF RunnerThrows
<1>11. CASE RunnerDies(s)
  <2>1. runner'[s].pc = "dead"
    BY <1>11 DEF RunnerDies, TypeInv, TypeOK
  <2>2. UNCHANGED <<tree, plugin, jobs>>
    BY <1>11 DEF RunnerDies
  <2>3. CASE runner[s].pc = "read"
    BY <2>1, <2>2, <2>3 DEF IsAll
  <2>4. CASE runner[s].pc # "read"
    BY <2>1, <2>2, <2>4 DEF TypeInv, InStep, Unfinished
  <2> QED
    BY <2>3, <2>4
<1> QED
  BY <1>1, <1>2, <1>3, <1>4, <1>5, <1>6, <1>7, <1>8, <1>9, <1>10, <1>11 DEF RunnerMoves,
     RunnerUnlocks

\* While a start owns the lock, or a runner works, no other runner is midway.
LEMMA MidwayOwns ==
  ASSUME NEW s \in Starts, NEW t \in Starts, LockOf(s), Midway(t)
  PROVE  s = t
BY DEF LockOf, Midway

LEMMA TreeRunner ==
  ASSUME TypeInv, LockInv, TreeOK, ~disturbed', NEW s \in Starts,
         RunnerMoves(s) \/ RunnerThrows(s) \/ RunnerDies(s)
  PROVE  TreeOK'
<1>1. CASE runner[s].pc \in Working
  <2>1. ~RunnerUnlocks(s)
    BY <1>1 DEF RunnerUnlocks, RunsAt, Working
  <2>2. Leaves(s)
    BY <1>1, RunnerLeaves
  <2>3. /\ files'.lock = files.lock
        /\ \A t \in Starts \ {s} : runner'[t] = runner[t] /\ jobs'[t] = jobs[t]
    BY <2>1, RunnerGoesOn
  <2>4. LockOf(s) /\ LockOf(s)'
    BY <1>1, <2>3 DEF LockInv, LockIsHeld, LockOf
  <2>5. \A t \in Starts \ {s} : runner[t].pc \notin Working
    BY <2>4 DEF LockInv, LockIsHeld, LockOf
  <2>6. TreeIsKnown'
    BY <2>2, <2>4 DEF Leaves, TreeIsKnown, Midway
  <2>7. \A t \in Starts : StepIsDue(t)'
    BY <2>2, <2>3, <2>5 DEF Leaves, StepIsDue, Changing, Working, RunsAt
  <2>8. StartsEnd
    <3>1. CASE UNCHANGED <<plugin, start>>
      BY <3>1, StartsKept DEF TypeInv
    <3>2. CASE \E commit \in Commits : Restarted(commit)
      BY <3>2, RestartEnds DEF TypeInv
    <3> QED
      BY <2>1, <3>1, <3>2, RunnerGoesOn
  <2>9. ASSUME NEW t \in Starts, start'[t].pc \in {"reclaim", "reclaimRemove"}
        PROVE  ReclaimIsDue(t)'
    <3>1. start'[t] = start[t]
      BY <2>8, <2>9 DEF StartsEnd
    <3>2. start[t].held \in Starts /\ start[t].held # s /\ ~Unfinished(start[t].held)
      BY <1>1, <2>9, <3>1 DEF TypeInv, InStep, LockInv, LockIsHeld, Over, TreeOK, ReclaimIsDue
    <3> QED
      BY <2>3, <3>1, <3>2 DEF Unfinished, ReclaimIsDue
  <2> QED
    BY <2>2, <2>6, <2>7, <2>9 DEF TreeOK, Leaves, ReclaimIsDue
<1>2. CASE RunnerUnlocks(s) \/ (RunnerDies(s) /\ runner[s].pc \in {"unlock", "unlockRemove"})
  <2>1. /\ UNCHANGED <<tree, plugin, jobs, start>>
        /\ runner[s].pc \in {"unlock", "unlockRemove"}
        /\ runner'[s].pc \in {"unlockRemove", "gone", "dead"}
        /\ \A t \in Starts \ {s} : runner'[t] = runner[t]
    BY <1>2 DEF RunnerUnlocks, RunnerDies, RunsAt, TypeInv, TypeOK
  <2>2. \/ files'.lock = files.lock
        \/ MayUnlock(s)
    BY <1>2 DEF RunnerUnlocks, RunnerDies, RemoveLock
  <2>3. ASSUME NEW t \in Starts, Midway(t)
        PROVE  Midway(t)'
    <3>1. t # s
      BY <2>1, <2>3 DEF Midway, Changing, Working
    <3>2. files'.lock = files.lock
      BY <2>2, <2>3, <3>1 DEF MayUnlock, Midway, LockOf
    <3> QED
      BY <2>1, <2>3, <3>1, <3>2 DEF Midway, LockOf, Unfinished
  <2>4. TreeIsKnown'
    BY <2>1, <2>3 DEF TreeOK, TreeIsKnown, IsAll, Updated, NobodyWaits
  <2>5. \A t \in Starts : StepIsDue(t)'
    BY <2>1 DEF TreeOK, StepIsDue, IsAll, Updated, NobodyWaits, Changing, Working, RunsAt
  <2> QED
    BY <2>1, <2>4, <2>5 DEF TreeOK, ReclaimIsDue, Unfinished
<1> QED
  BY <1>1, <1>2 DEF RunnerMoves, RunnerDies, RunnerThrows, RunnerStarts, Preflight, Fetch,
     VerifyTarget,
     Merge, Install, ReloadNew, ReloadOld, Reload, VerifyRuntime, RollbackLook, Reset, Reinstall,
     ApplyManaged, RunsAt, Working


\* A start neither touches the checkout nor takes the lock from a runner midway.
LEMMA TreeStart ==
  ASSUME TypeInv, TypeInv', LockInv, LockInv', TreeOK, ~disturbed', NEW s \in Starts,
         StartMoves(s) \/ StartAnswered(s) \/ StartAnswerLost(s)
  PROVE  TreeOK'
<1> USE DEF StartAt
<1>1. UNCHANGED <<tree, plugin>>
  BY DEF StartMoves, Begin, LookAtLock, Reclaim, ReclaimRemove, Acquire, WriteJob,
     RememberRequest,
     SpawnRunner, SpawnFails, GiveUp, GiveUpRemove, StartAnswered, StartAnswerLost
<1>2. \A t \in Starts \ {s} : start'[t] = start[t] /\ runner'[t] = runner[t] /\ jobs'[t] = jobs[t]
  BY DEF StartMoves, Begin, LookAtLock, Reclaim, ReclaimRemove, Acquire, WriteJob,
     RememberRequest,
     SpawnRunner, SpawnFails, GiveUp, GiveUpRemove, StartAnswered, StartAnswerLost, StartTo,
     TypeInv, TypeOK
<1>3. \/ UNCHANGED runner
      \/ start[s].pc = "spawn" /\ runner'[s].pc = "read"
  BY DEF StartMoves, Begin, LookAtLock, Reclaim, ReclaimRemove, Acquire, WriteJob,
     RememberRequest,
     SpawnRunner, SpawnFails, GiveUp, GiveUpRemove, StartAnswered, StartAnswerLost, TypeInv, TypeOK
<1>4. UNCHANGED jobs \/ start[s].pc \in {"write", "spawn"}
  BY DEF StartMoves, Begin, LookAtLock, Reclaim, ReclaimRemove, Acquire, WriteJob,
     RememberRequest,
     SpawnRunner, SpawnFails, GiveUp, GiveUpRemove, StartAnswered, StartAnswerLost
<1>5. \/ files'.lock = files.lock
      \/ files.lock = Nil
      \/ start[s].pc = "reclaimRemove" /\ MayUnlock(start[s].held)
      \/ start[s].pc = "giveUpRemove" /\ MayUnlock(s)
  BY DEF StartMoves, Begin, LookAtLock, Reclaim, ReclaimRemove, Acquire, WriteJob,
     RememberRequest,
     SpawnRunner, SpawnFails, GiveUp, GiveUpRemove, StartAnswered, StartAnswerLost, RemoveLock,
     TryLock, TypeInv, TypeOK
<1>6. ASSUME NEW t \in Starts, Midway(t)
      PROVE  Midway(t)'
  <2>1. start[t].pc \in {"accepted", "lost", "closed"}
    BY <1>6 DEF Midway, Changing, Working, TypeInv, InStep, RunsAt
  <2>2. files'.lock = files.lock
    BY <1>5, <1>6, <2>1 DEF Midway, LockOf, MayUnlock, TreeOK, ReclaimIsDue
  <2>3. runner'[t] = runner[t] /\ jobs'[t] = jobs[t]
    BY <1>2, <1>3, <1>4, <2>1
  <2> QED
    BY <1>6, <2>2, <2>3 DEF Midway, LockOf, Unfinished
<1>7. Updated => Updated'
  <2>1. SUFFICES ASSUME Updated PROVE start'[s].pc \notin Waiting
    BY <1>1, <1>2 DEF Updated, NobodyWaits, IsAll
  <2>2. start[s].pc \notin Waiting /\ tree.head = "target"
    BY <2>1 DEF Updated, NobodyWaits, IsAll
  <2>3. CASE Begin(s)
    BY <2>2, <2>3 DEF Begin, TypeInv, TypeOK, Waiting, Owning
  <2>4. CASE GiveUp(s) \/ GiveUpRemove(s) \/ StartAnswered(s) \/ StartAnswerLost(s)
    <3>1. start'[s].pc \in {"giveUpRemove", "refused", "closed", "lost"}
      BY <2>4, StartToEffect DEF GiveUp, GiveUpRemove, StartAnswered, StartAnswerLost, StartSteps
    <3> QED
      BY <3>1 DEF Waiting, Owning
  <2> QED
    BY <2>2, <2>3, <2>4 DEF Waiting, Owning, StartMoves, LookAtLock, Reclaim, ReclaimRemove,
       Acquire,
       WriteJob, RememberRequest, SpawnRunner, SpawnFails
<1>8. TreeIsKnown'
  BY <1>1, <1>6, <1>7 DEF TreeOK, TreeIsKnown, IsAll
<1>9. ASSUME NEW t \in Starts
      PROVE  StepIsDue(t)'
  <2>1. CASE runner'[t] = runner[t]
    BY <1>1, <1>7, <2>1 DEF TreeOK, StepIsDue, IsAll, RunsAt
  <2>2. CASE start[s].pc = "spawn" /\ runner'[s].pc = "read" /\ t = s
    <3>1. LockOf(s) /\ RunsAt(s, "none") /\ ~Updated
      BY <2>2 DEF LockInv, LockIsHeld, Owning, TypeInv, InStep, Updated, NobodyWaits, Waiting
    <3>2. IsAll("from")
      BY <3>1, MidwayOwns DEF TreeOK, TreeIsKnown, Midway, Changing, Working, RunsAt
    <3> QED
      BY <1>1, <2>2, <3>2 DEF StepIsDue, IsAll, Changing, Working, RunsAt
  <2> QED
    BY <1>2, <1>3, <2>1, <2>2
<1>10. ASSUME NEW t \in Starts, start'[t].pc \in {"reclaim", "reclaimRemove"}
       PROVE  ReclaimIsDue(t)'
  <2>1. CASE t # s
    <3>1. /\ start[t].held \in Starts /\ start[start[t].held].pc \in Passed
          /\ ~Unfinished(start[t].held)
      BY <1>2, <1>10, <2>1 DEF TypeInv, InStep, LockInv, LockIsHeld, Over, TreeOK, ReclaimIsDue
    <3>2. jobs'[start[t].held] = jobs[start[t].held]
      BY <1>2, <1>4, <3>1 DEF Passed
    <3> QED
      BY <1>2, <2>1, <3>1, <3>2 DEF ReclaimIsDue, Unfinished
  <2>2. CASE Reclaim(s) /\ t = s
    <3>1. start'[s].held = start[s].held /\ UNCHANGED jobs
      BY <2>2, StartToEffect DEF Reclaim, StartSteps
    <3> QED
      BY <2>2, <3>1 DEF Reclaim, TreeOK, ReclaimIsDue, Unfinished
  <2>3. CASE LookAtLock(s) /\ t = s
    <3> DEFINE next == IF files.lock = Nil THEN "acquire"
                       ELSE IF StaleLock(files.lock) THEN "reclaim" ELSE "refused"
               held == IF files.lock = Nil THEN Nil ELSE files.lock.job
    <3>1. start \in [Starts -> [pc : StartSteps, held : Starts \cup {Nil}, boot : Nat]]
      BY DEF TypeInv, TypeOK
    <3>2. start' = [start EXCEPT ![s] = [@ EXCEPT !.pc = next, !.held = held]]
      BY <2>3, <3>1 DEF LookAtLock
    <3>3. next = "reclaim" => StaleLock(files.lock) /\ held = files.lock.job
      OBVIOUS
    <3>4. next # "reclaimRemove"
      OBVIOUS
    <3> HIDE DEF next, held
    <3>5. start'[s].pc = next /\ start'[s].held = held
      BY <3>1, <3>2
    <3>6. StaleLock(files.lock) /\ held = files.lock.job
      BY <1>10, <2>3, <3>3, <3>4, <3>5
    <3>7. ~Unfinished(held)
      BY <3>6 DEF StaleLock, Unfinished, Ended
    <3> QED
      BY <2>3, <3>5, <3>7 DEF LookAtLock, ReclaimIsDue, Unfinished
  <2>4. CASE ~Reclaim(s) /\ ~LookAtLock(s) /\ t = s
    <3>1. start'[s].pc \notin {"reclaim", "reclaimRemove"}
      <4>1. CASE Begin(s)
        BY <4>1 DEF Begin, TypeInv, TypeOK
      <4>2. CASE ~Begin(s)
        BY <2>4, <4>2, StartToEffect DEF StartMoves, ReclaimRemove, Acquire, WriteJob,
           RememberRequest,
           SpawnRunner, SpawnFails, GiveUp, GiveUpRemove, StartAnswered, StartAnswerLost, StartSteps
      <4> QED
        BY <4>1, <4>2
    <3> QED
      BY <1>10, <2>4, <3>1
  <2> QED
    BY <2>1, <2>2, <2>3, <2>4
<1> QED
  BY <1>1, <1>8, <1>9, <1>10 DEF TreeOK, ReclaimIsDue

LEMMA TreePlugin ==
  ASSUME TypeInv, TreeOK, ~disturbed',
         \/ PluginRestarts \/ ConfirmPendingBoot \/ GetReports \/ WriteBoot \/ UserChanges
         \/ Poll \/ Adopts \/ UNCHANGED vars
         \/ \E s \in Starts : Recover(s)
  PROVE  TreeOK'
<1>1. CASE PluginRestarts
  <2>1. NobodyWaits' /\ plugin'.code = tree.head
    BY <1>1, RestartLeaves DEF PluginRestarts
  <2>2. UNCHANGED <<files, jobs, tree, runner>>
    BY <1>1 DEF PluginRestarts
  <2>3. TreeIsKnown'
    BY <2>1, <2>2 DEF TreeOK, TreeIsKnown, IsAll, Updated, Midway, LockOf, Unfinished
  <2>4. \A t \in Starts : StepIsDue(t)'
    BY <2>1, <2>2 DEF TreeOK, StepIsDue, IsAll, Updated, RunsAt
  <2>5. \A t \in Starts : ReclaimIsDue(t)'
    BY <2>1 DEF NobodyWaits, Waiting, ReclaimIsDue
  <2> QED
    BY <2>2, <2>3, <2>4, <2>5 DEF TreeOK
<1>2. CASE ~PluginRestarts
  <2>1. /\ files'.lock = files.lock /\ plugin'.code = plugin.code
        /\ UNCHANGED <<jobs, tree, start, runner>>
    BY <1>2 DEF ConfirmPendingBoot, GetReports, WriteBoot, UserChanges, Poll, Adopts, Adopt,
       Recover,
       vars, TypeInv, TypeOK
  <2> QED
    BY <2>1 DEF TreeOK, TreeIsKnown, IsAll, Updated, NobodyWaits, Midway, LockOf, Unfinished,
       StepIsDue,
       ReclaimIsDue, RunsAt
<1> QED
  BY <1>1, <1>2

LEMMA TreeInit == Init => TreeOK
BY DEF Init, TreeOK, TreeIsKnown, IsAll, StepIsDue, ReclaimIsDue, Changing, Working, RunsAt

LEMMA TreeNext == TreeInv /\ [Next]_vars => TreeInv'
<1> SUFFICES ASSUME TreeInv, [Next]_vars, ~disturbed'
             PROVE  TreeOK'
  BY LockNext DEF TreeInv
<1>1. ~disturbed /\ TypeInv /\ LockInv /\ TreeOK
  BY DisturbedStays DEF TreeInv, RunnerInv
<1>2. TypeInv' /\ LockInv'
  BY LockNext DEF TreeInv, RunnerInv
<1> QED
  BY <1>1, <1>2, TreeRunner, TreeStart, TreePlugin DEF Next

\* The last status of an update tells what is in the checkout and what runs, for
\* any number of starts, restarts of the plugin and deaths of runners (runner.mjs,
\* the order of the steps and which failure leads to a stop, a rollback or a hold).
THEOREM EndTellsTheTruthHolds == Spec => EndTellsTheTruth
<1> DEFINE Told ==
      \A s \in Starts :
        runner[s].pc \in Working /\ runner'[s].pc = "unlock" /\ ~disturbed' =>
          Whole(IF jobs'[s].state = "succeeded" THEN "target" ELSE "from")
<1>1. Init => TreeInv
  BY TypeInit, LockInit, TreeInit DEF TreeInv, RunnerInv
<1>2. TreeInv /\ [Next]_vars => [Told]_vars
  <2> SUFFICES ASSUME TreeInv, Next, ~disturbed', NEW s \in Starts, runner[s].pc \in Working,
                      runner'[s].pc = "unlock"
               PROVE  Whole(IF jobs'[s].state = "succeeded" THEN "target" ELSE "from")
    OBVIOUS
  <2>1. ~disturbed /\ TypeInv /\ LockInv /\ TreeOK
    BY DisturbedStays DEF TreeInv, RunnerInv
  <2>2. RunnerMoves(s) \/ RunnerThrows(s) \/ RunnerDies(s)
    BY <2>1, RunnerOwnStep DEF Working
  <2>3. Leaves(s)
    BY <2>1, <2>2, RunnerLeaves
  <2> QED
    BY <2>3 DEF Leaves, Changing, Working, Whole, Updated, IsAll
<1> QED
  BY <1>1, <1>2, TreeNext, PTL DEF Spec, EndTellsTheTruth

-----------------------------------------------------------------------------
(* Both parts together.                                                    *)

\* A step of either part is one of its own specification, and the other stands still.
LEMMA UpdatesParts ==
  /\ UpdatesInit => Init /\ LaunchInit
  /\ [UpdatesNext]_<<part, updateVars, launchVars>> => [Next]_vars /\ [LaunchNext]_launchVars
BY DEF UpdatesInit, UpdatesNext, updateVars

\* Typed: in every state of either part the variables have their types.
THEOREM TypedHolds == Updates => []Typed
<1>1. TypeInv => TypeOK
  BY DEF TypeInv
<1>2. LaunchInv => LaunchTypeOK
  BY InvIsTyped
<1>3. Init => TypeInv
  BY TypeInit
<1>4. TypeInv /\ [Next]_vars => TypeInv'
  BY TypeNext
<1>5. LaunchInit => LaunchInv
  BY InvInit
<1>6. LaunchInv /\ [LaunchNext]_launchVars => LaunchInv'
  BY LaunchStep, LaunchAssumption
<1>7. TypeOK /\ LaunchTypeOK => Typed
  BY DEF Typed
<1> QED
  BY <1>1, <1>2, <1>3, <1>4, <1>5, <1>6, <1>7, UpdatesParts, PTL DEF Updates
=============================================================================
