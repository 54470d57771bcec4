-------------------------- MODULE DesignValidationProofs --------------------------
(***************************************************************************)
(* DesignValidation over the behaviours of MCPages, for every Role catalog,*)
(* host, proposal, edit of a Role and number of changes: what the checks   *)
(* of a design let through is what was designed, and it goes through as    *)
(* often as it is tried.                                                   *)
(***************************************************************************)
EXTENDS MCPages, SequenceTheorems, WellFoundedInduction, FiniteSetTheorems, TLAPS

-----------------------------------------------------------------------------
(* A design is well formed: its Team and its Roles are those of a proposal.  *)
Well(r) ==
  /\ \E p \in Proposals : /\ r.team = Design!BuildTeam(p)
                          /\ \E retired \in BOOLEAN : r.newRoles = Design!BuildRoles(p, retired)
  /\ DOMAIN r.reuse = Design!UsedRoles(r.team) \ DOMAIN r.newRoles

\* What is in a row that a Role of the design is built as.
LEMMA BuiltRoles ==
  ASSUME NEW r, Well(r), NEW id \in DOMAIN r.newRoles
  PROVE  LET role == r.newRoles[id]
         IN /\ role = [name |-> role.name, text |-> role.text, preferred |-> role.preferred,
                       fallback |-> role.fallback, enabled |-> TRUE, origin |-> Design!Job,
                       retired |-> role.retired]
            /\ role.retired \in BOOLEAN /\ role.enabled /\ role.origin = Design!Job
<1>1. PICK p \in Proposals, retired \in BOOLEAN : r.newRoles = Design!BuildRoles(p, retired)
  BY DEF Well
<1>2. r.newRoles[id] = [name |-> p.roles[id].name, text |-> p.roles[id].text,
                        preferred |-> p.roles[id].preferred, fallback |-> p.roles[id].fallback,
                        enabled |-> TRUE, origin |-> Design!Job, retired |-> retired]
  BY <1>1 DEF Design!BuildRoles
<1> QED
  BY <1>2

\* A row with the content of the design differs in the retired keys at most.
LEMMA SameContentIs ==
  ASSUME NEW r, Well(r), NEW id \in DOMAIN r.newRoles, NEW saved,
         Design!SameContent(saved, r.newRoles[id])
  PROVE  LET role == r.newRoles[id]
         IN /\ saved.name = role.name /\ saved.text = role.text /\ saved.preferred
                 = role.preferred
            /\ saved.fallback = role.fallback /\ saved.enabled
<1> DEFINE role == r.newRoles[id]
<1>1. /\ role = [name |-> role.name, text |-> role.text, preferred |-> role.preferred,
                 fallback |-> role.fallback, enabled |-> TRUE, origin |-> Design!Job,
                 retired |-> role.retired]
      /\ role.enabled
  BY BuiltRoles
<1> HIDE DEF role
<1>2. saved = role \/ saved = [role EXCEPT !.retired = FALSE]
  BY DEF Design!SameContent, role
<1>3. CASE saved = role
  BY <1>1, <1>3 DEF role
<1>4. CASE saved = [role EXCEPT !.retired = FALSE]
  BY <1>1, <1>4 DEF role
<1> QED
  BY <1>2, <1>3, <1>4

\* The rows with and without the retired keys.
LEMMA RowHasContent ==
  ASSUME NEW r, Well(r), NEW id \in DOMAIN r.newRoles, NEW asIs \in BOOLEAN
  PROVE  LET row == IF asIs THEN r.newRoles[id] ELSE [r.newRoles[id] EXCEPT !.retired = FALSE]
         IN Design!SameContent(row, r.newRoles[id]) /\ row.origin = Design!Job
<1> DEFINE role == r.newRoles[id]
<1>1. /\ role = [name |-> role.name, text |-> role.text, preferred |-> role.preferred,
                 fallback |-> role.fallback, enabled |-> TRUE, origin |-> Design!Job,
                 retired |-> role.retired]
      /\ role.retired \in BOOLEAN /\ role.origin = Design!Job
  BY BuiltRoles
<1> HIDE DEF role
<1>2. ~role.retired => [role EXCEPT !.retired = FALSE] = role
  BY <1>1
<1>3. [role EXCEPT !.retired = FALSE].origin = Design!Job
  BY <1>1
<1> QED
  BY <1>1, <1>2, <1>3 DEF Design!SameContent, role

\* The rows of both catalogs.
LEMMA CatalogsAre ==
  ASSUME NEW newRoles
  PROVE  /\ DOMAIN Design!PlannedRoles(newRoles) = DOMAIN catalog \cup DOMAIN newRoles
         /\ DOMAIN Design!SavedRoles(newRoles) = DOMAIN catalog \cup DOMAIN newRoles
         /\ \A id \in DOMAIN newRoles : Design!PlannedRoles(newRoles)[id] = newRoles[id]
         /\ \A id \in DOMAIN catalog \ DOMAIN newRoles : Design!PlannedRoles(newRoles)[id]
              = catalog[id]
         /\ \A id \in DOMAIN catalog : Design!SavedRoles(newRoles)[id] = catalog[id]
         /\ \A id \in DOMAIN newRoles \ DOMAIN catalog : Design!SavedRoles(newRoles)[id]
              = newRoles[id]
BY DEF Design!PlannedRoles, Design!SavedRoles, Design!Over

-----------------------------------------------------------------------------
(* The check, the merge and the names. *)
\* What the check says of the Roles.
LEMMA FitsRoles ==
  ASSUME NEW r, Well(r), Design!StillFits(r)
  PROVE  /\ \A id \in DOMAIN r.newRoles \cap DOMAIN catalog :
              catalog[id].origin = Design!Job /\ Design!SameContent(catalog[id], r.newRoles[id])
         /\ \A id \in DOMAIN r.newRoles : \A other \in DOMAIN catalog \ {id} :
              catalog[other].name # r.newRoles[id].name
         /\ \A id \in DOMAIN r.newRoles : \A other \in DOMAIN r.newRoles \ {id} :
              r.newRoles[other].name # r.newRoles[id].name
         /\ \A id \in DOMAIN r.newRoles : id \in Design!UsedRoles(r.team)
         /\ \A id \in Design!UsedRoles(r.team) : id \in DOMAIN catalog \cup DOMAIN r.newRoles
         /\ \A id \in Design!UsedRoles(r.team) \cap DOMAIN catalog : catalog[id].enabled
         /\ \A id \in DOMAIN r.reuse : id \in DOMAIN catalog /\ r.reuse[id]
              = Design!Behavior(catalog[id])
<1> DEFINE new == r.newRoles
           own == Design!OwnRows(new)
<1>1. /\ \A id \in DOMAIN new : Design!NewRoleFits(id, new, r.team, own)
      /\ Design!ReuseFits(r.reuse, new, r.team, TRUE) /\ Design!TeamFits(r.team, new)
  BY DEF Design!StillFits, Design!ContentFits
<1>2. own \subseteq DOMAIN new \cap DOMAIN catalog
  BY DEF Design!OwnRows
<1>3. \A id \in own : catalog[id].origin = Design!Job /\ Design!SameContent(catalog[id], new[id])
  BY DEF Design!OwnRows
<1>4. \A id \in own : catalog[id].name = new[id].name
  BY <1>2, <1>3, SameContentIs
<1> HIDE DEF own, new
<1>5. \A id \in DOMAIN new \cap DOMAIN catalog : id \in own
  BY <1>1 DEF Design!NewRoleFits
<1>6. ASSUME NEW id \in DOMAIN new, NEW other \in DOMAIN catalog \ {id}
      PROVE  catalog[other].name # new[id].name
  <2>1. CASE other \in own
    BY <1>1, <1>2, <1>4, <2>1 DEF Design!NewRoleFits
  <2>2. CASE other \notin own
    BY <1>1, <2>2 DEF Design!NewRoleFits
  <2> QED
    BY <2>1, <2>2
<1>7. \A id \in DOMAIN new : \A other \in DOMAIN new \ {id} : new[other].name # new[id].name
  BY <1>1 DEF Design!NewRoleFits
<1>8. \A id \in DOMAIN new : id \in Design!UsedRoles(r.team)
  BY <1>1 DEF Design!NewRoleFits
<1>9. /\ \A id \in Design!UsedRoles(r.team) : id \in DOMAIN catalog \cup DOMAIN new
      /\ \A id \in Design!UsedRoles(r.team) \cap DOMAIN catalog : catalog[id].enabled
  BY <1>1 DEF Design!TeamFits
<1>10. \A id \in DOMAIN r.reuse : id \in DOMAIN catalog /\ r.reuse[id]
         = Design!Behavior(catalog[id])
  BY <1>1 DEF Design!ReuseFits
<1> QED
  BY <1>3, <1>5, <1>6, <1>7, <1>8, <1>9, <1>10 DEF new

\* The page's merge does not refuse what the check lets through.
LEMMA FitsMerge ==
  ASSUME NEW r, Well(r), Design!StillFits(r)
  PROVE  Design!MergeFits(r)
<1> DEFINE new == r.newRoles
           book == Design!SavedRoles(new)
<1>1. /\ DOMAIN book = DOMAIN catalog \cup DOMAIN new
      /\ \A id \in DOMAIN catalog : book[id] = catalog[id]
      /\ \A id \in DOMAIN new \ DOMAIN catalog : book[id] = new[id]
  BY CatalogsAre
<1>2. \A id \in DOMAIN new : new[id].enabled
  BY BuiltRoles
<1>3. DOMAIN r.reuse = Design!UsedRoles(r.team) \ DOMAIN new
  BY DEF Well
<1>4. ASSUME NEW id \in DOMAIN new, id \notin DOMAIN catalog, NEW other \in DOMAIN book \ {id}
      PROVE  book[other].name # new[id].name
  BY <1>1, <1>4, FitsRoles
<1>5. \A id \in Design!UsedRoles(r.team) : id \in DOMAIN book /\ book[id].enabled
  BY <1>1, <1>2, FitsRoles
<1>6. \A id \in DOMAIN new \cap DOMAIN catalog : catalog[id].origin = Design!Job
        /\ Design!SameContent(catalog[id], new[id])
  BY FitsRoles
<1>7. DOMAIN r.reuse \cap DOMAIN new = {} /\ \A id \in DOMAIN r.reuse :
        id \in Design!UsedRoles(r.team)
  BY <1>3
<1> HIDE DEF book, new
<1> QED
  BY <1>4, <1>5, <1>6, <1>7 DEF Design!MergeFits, book, new

LEMMA FitsNames ==
  ASSUME NEW r, Well(r), Design!StillFits(r)
  PROVE  \A id \in DOMAIN r.newRoles, other \in DOMAIN Design!SavedRoles(r.newRoles) :
           Design!SavedRoles(r.newRoles)[other].name = r.newRoles[id].name => other = id
<1> DEFINE new == r.newRoles
           book == Design!SavedRoles(new)
<1>1. /\ DOMAIN book = DOMAIN catalog \cup DOMAIN new
      /\ \A id \in DOMAIN catalog : book[id] = catalog[id]
      /\ \A id \in DOMAIN new \ DOMAIN catalog : book[id] = new[id]
  BY CatalogsAre
<1> HIDE DEF book
<1> QED
  BY <1>1, FitsRoles DEF book

\* A Role that is accepted as a gap stops every launch.
LEMMA GapsAreReal == Design!GapIsReal
<1> SUFFICES ASSUME NEW id \in DOMAIN catalog, Design!GapAccepted(id),
                    NEW other \in DOMAIN catalog \ {id}
             PROVE  /\ ~Design!Launches(Design!BuildTeam([coordinator |-> id,
                         members |-> <<[role |-> other, label |-> None]>>]), catalog)
                    /\ ~Design!Launches(Design!BuildTeam([coordinator |-> other,
                         members |-> <<[role |-> id, label |-> None]>>]), catalog)
  BY DEF Design!GapIsReal
<1>1. host.ready /\ Design!ResolveProfile(catalog[id], host) = None
  BY DEF Design!GapAccepted, Design!Launchable
<1>2. ~Design!Launches(Design!BuildTeam([coordinator |-> id,
        members |-> <<[role |-> other, label |-> None]>>]), catalog)
  <2> DEFINE team ==
    Design!BuildTeam([coordinator |-> id, members |-> <<[role |-> other, label |-> None]>>])
  <2>1. team.coordinator = id
    BY DEF Design!BuildTeam
  <2> HIDE DEF team
  <2>2. Design!Coordinator(team, catalog, host) = None
    BY <1>1, <2>1 DEF Design!Coordinator
  <2>3. "no coordinator" \in Design!LaunchBlockers(team, catalog, host, maxMembers)
    BY <2>2 DEF Design!LaunchBlockers, Design!LaunchPlan, Design!When
  <2> QED
    BY <2>3 DEF Design!Launches, team
<1>3. ~Design!Launches(Design!BuildTeam([coordinator |-> other,
        members |-> <<[role |-> id, label |-> None]>>]), catalog)
  <2> DEFINE team ==
    Design!BuildTeam([coordinator |-> other, members |-> <<[role |-> id, label |-> None]>>])
  <2>1. 1 \in DOMAIN team.members /\ team.members[1].enabled /\ team.members[1].role = id
    BY DEF Design!BuildTeam
  <2> HIDE DEF team
  <2>2. 1 \in Design!Enabled(team)
    BY <2>1 DEF Design!Enabled
  <2>3. \E i \in Design!Enabled(team) : team.members[i].role \in DOMAIN catalog
                                        /\ Design!ResolveProfile(catalog[team.members[i].role],
                                             host) = None
    BY <1>1, <2>1, <2>2
  <2>4. ASSUME NEW seats
        PROVE "no profile" \in Design!SeatBlockers(team, catalog, host, seats, maxMembers)
    BY <2>3 DEF Design!SeatBlockers, Design!When
  <2>5. "no profile" \in Design!SeatPlan(team, catalog, host, maxMembers).blockers
    BY <1>1, <2>4 DEF Design!SeatPlan
  <2>6. "no profile" \in Design!LaunchBlockers(team, catalog, host, maxMembers)
    BY <2>5 DEF Design!LaunchBlockers, Design!LaunchPlan
  <2> QED
    BY <2>6 DEF Design!Launches, team
<1> QED
  BY <1>2, <1>3

-----------------------------------------------------------------------------
(* A result stays good while only its own rows are written. *)
LEMMA ProposedIsWell ==
  ASSUME NEW p \in Proposals, NEW choices, NEW retired \in BOOLEAN,
         Design!Propose(p, choices, retired)
  PROVE  Well(result')
<1>1. /\ result'.team = Design!BuildTeam(p) /\ result'.newRoles = Design!BuildRoles(p, retired)
      /\ result'.reuse = Design!ReuseOf(Design!BuildTeam(p), Design!BuildRoles(p, retired))
      /\ Design!ContentFits(Design!BuildTeam(p), Design!BuildRoles(p, retired),
           result'.reuse, {}, FALSE)
  BY DEF Design!Propose
<1>2. DOMAIN result'.reuse = Design!UsedRoles(result'.team) \ DOMAIN result'.newRoles
  BY <1>1 DEF Design!ContentFits, Design!ReuseFits
<1> QED
  BY <1>1, <1>2 DEF Well

LEMMA ProposedFits ==
  ASSUME NEW p \in Proposals, NEW choices, NEW retired \in BOOLEAN,
         Design!Propose(p, choices, retired)
  PROVE  Design!StillFits(result')
<1> DEFINE team == Design!BuildTeam(p)
           new == Design!BuildRoles(p, retired)
           reuse == Design!ReuseOf(team, new)
           r == result'
<1>1. /\ r.team = team /\ r.newRoles = new /\ r.reuse = reuse /\ r.reasons = choices
      /\ host.ready /\ Design!ContentFits(team, new, reuse, {}, FALSE)
      /\ Design!Launches(team, Design!PlannedRoles(new))
      /\ Design!ChoicesFit(choices, team, Design!PlannedRoles(new))
  BY DEF Design!Propose, Design!RolesProposable
<1>2. \A id \in DOMAIN reuse : reuse[id] = Design!Behavior(catalog[id])
  BY DEF Design!ReuseOf
<1> HIDE DEF team, new, reuse, r
<1>3. Design!OwnRows(new) = {}
  BY <1>1 DEF Design!OwnRows, Design!ContentFits, Design!NewRoleFits
<1>4. Design!ContentFits(team, new, reuse, {}, TRUE)
  BY <1>1, <1>2 DEF Design!ContentFits, Design!ReuseFits
<1>5. Design!PlansAlike(r)
  BY <1>1 DEF Design!PlansAlike, Design!ChoicesFit
<1> QED
  BY <1>1, <1>3, <1>4, <1>5 DEF Design!StillFits, r

\* The check of the next state, of the same design.
LEMMA SavedRowFits ==
  ASSUME NEW id, NEW asIs \in BOOLEAN, Design!SaveRow(id, asIs), Well(result),
         Design!StillFits(result)
  PROVE  Design!StillFits(result)'
<1> DEFINE r == result
           new == r.newRoles
           row == IF asIs THEN new[id] ELSE [new[id] EXCEPT !.retired = FALSE]
           own == Design!OwnRows(new)
<1>1. /\ id \in DOMAIN new \ DOMAIN catalog
      /\ catalog' = Design!Over(catalog, [x \in {id} |-> row])
      /\ host' = host /\ maxMembers' = maxMembers /\ existingRolesOnly' = existingRolesOnly
      /\ result' = result
  BY DEF Design!SaveRow
<1>2. Design!SameContent(row, new[id]) /\ row.origin = Design!Job
  BY <1>1, RowHasContent
<1> HIDE DEF row
<1>3. /\ row.name = new[id].name /\ row.enabled
  BY <1>1, <1>2, SameContentIs
<1> HIDE DEF r, new
<1>4. /\ DOMAIN catalog' = DOMAIN catalog \cup {id} /\ catalog'[id] = row
      /\ \A other \in DOMAIN catalog : catalog'[other] = catalog[other]
  BY <1>1 DEF Design!Over
<1>5. own' = own \cup {id}
  BY <1>1, <1>2, <1>4 DEF Design!OwnRows, new, r
<1>6. own \subseteq DOMAIN new \cap DOMAIN catalog
  BY DEF Design!OwnRows
<1> HIDE DEF own
<1>7. DOMAIN catalog' \ own' = DOMAIN catalog \ own
  BY <1>1, <1>4, <1>5, <1>6
<1>8. Design!ContentFits(r.team, new, r.reuse, own, TRUE)
  BY DEF Design!StillFits, r, new, own
<1>9. Design!ContentFits(r.team, new, r.reuse, own, TRUE)'
  <2>1. \A x \in DOMAIN new : Design!NewRoleFits(x, new, r.team, own)
    BY <1>8 DEF Design!ContentFits
  <2>2. ASSUME NEW x \in DOMAIN new PROVE Design!NewRoleFits(x, new, r.team, own)'
    BY <1>1, <1>4, <1>7, <2>1 DEF Design!NewRoleFits, new, r, own
  <2>3. DOMAIN r.reuse = Design!UsedRoles(r.team) \ DOMAIN new
    BY DEF Well, r, new
  <2>4. Design!ReuseFits(r.reuse, new, r.team, TRUE)'
    BY <1>1, <1>4, <1>8, <2>3 DEF Design!ContentFits, Design!ReuseFits, r, new
  <2>5. Design!TeamFits(r.team, new)'
    BY <1>1, <1>3, <1>4, <1>8 DEF Design!ContentFits, Design!TeamFits, r, new
  <2> QED
    BY <1>1, <1>8, <2>2, <2>4, <2>5 DEF Design!ContentFits, Design!NewRoleLimit, r, new
<1>10. Design!PlannedRoles(new)' = Design!PlannedRoles(new)
  BY <1>1, <1>4 DEF Design!PlannedRoles, Design!Over, new, r
<1>11. Design!PlansAlike(r)'
  BY <1>1, <1>10 DEF Design!StillFits, Design!PlansAlike, Design!Launches,
                     Design!ExpectedProfileIds, r, new
<1> QED
  BY <1>1, <1>9, <1>11 DEF Design!StillFits, r, new, own

-----------------------------------------------------------------------------
(* Induction over the natural numbers, from the library's theorem that they  *)
(* are well founded; then lists that are built by recursion.                 *)
\* A set of natural numbers with 0 and every successor has them all.
LEMMA NatInd ==
  ASSUME NEW T, T \subseteq Nat, 0 \in T, \A n \in T : n + 1 \in T
  PROVE  T = Nat
<1> SUFFICES ASSUME Nat \ T # {} PROVE FALSE
  OBVIOUS
<1>1. IsWellFoundedOn(OpToRel(<, Nat), Nat)
  BY NatLessThanWellFounded
<1>2. \E x \in Nat \ T : \A y \in Nat \ T : ~(<<y, x>> \in OpToRel(<, Nat))
  BY <1>1, WFMin
<1>3. ASSUME NEW x \in Nat, NEW y \in Nat, y < x PROVE <<y, x>> \in OpToRel(<, Nat)
  BY <1>3 DEF OpToRel
<1>4. PICK x \in Nat \ T : \A y \in Nat \ T : ~(y < x)
  BY <1>2, <1>3
<1>5. x # 0 /\ x - 1 \in Nat /\ x - 1 < x /\ (x - 1) + 1 = x
  BY <1>4
<1>6. x - 1 \in T
  BY <1>4, <1>5
<1> QED
  BY <1>4, <1>5, <1>6

\* The first k elements of a list.
First(all, k) == [j \in 1..k |-> all[j]]
LEMMA FirstGrows ==
  ASSUME NEW S, NEW all \in Seq(S), NEW k \in Nat, k + 1 <= Len(all)
  PROVE  Append(First(all, k), all[k + 1]) = First(all, k + 1)
<1> DEFINE s == First(all, k)
           t == Append(s, all[k + 1])
           u == First(all, k + 1)
<1>1. \A j \in 1..(k + 1) : all[j] \in S
  BY ElementOfSeq
<1>2. s \in Seq(S) /\ Len(s) = k /\ \A j \in 1..k : s[j] = all[j]
  BY <1>1 DEF First
<1>3. all[k + 1] \in S
  BY <1>1
<1> HIDE DEF s
<1>4. /\ t \in Seq(S) /\ Len(t) = k + 1
      /\ \A j \in 1..k : t[j] = s[j]
      /\ t[k + 1] = all[k + 1]
  BY <1>2, <1>3, AppendProperties
<1> HIDE DEF t
<1>5. t \in [1..(k + 1) -> S]
  BY <1>4, LenProperties
<1>6. u \in [1..(k + 1) -> S] /\ \A j \in 1..(k + 1) : u[j] = all[j]
  BY <1>1 DEF First
<1> HIDE DEF u
<1>7. \A j \in 1..(k + 1) : t[j] = u[j]
  <2> TAKE j \in 1..(k + 1)
  <2>1. CASE j = k + 1
    BY <1>4, <1>6, <2>1
  <2>2. CASE j \in 1..k
    BY <1>2, <1>4, <1>6, <2>2
  <2> QED
    BY <2>1, <2>2
<1>8. t = u
  BY <1>5, <1>6, <1>7
<1> QED
  BY <1>8 DEF t, u, s

\* Appending the elements one by one builds the list.
Builds(F, all) ==
  F = [i \in 0..Len(all) |-> IF i = 0 THEN <<>> ELSE Append(F[i - 1], all[i])]
LEMMA ListIsBuilt ==
  ASSUME NEW S, NEW all \in Seq(S)
  PROVE  /\ \E F : Builds(F, all)
         /\ \A F : Builds(F, all) => F[Len(all)] = all
<1> DEFINE n == Len(all)
<1>1. n \in Nat
  OBVIOUS
<1>2. First(all, 0) = <<>>
  BY DEF First
<1>3. \A k \in Nat : k + 1 <= n => Append(First(all, k), all[k + 1]) = First(all, k + 1)
  BY FirstGrows
<1>4. First(all, n) = all
  BY DEF First
<1>5. \E F : Builds(F, all)
  <2> DEFINE F == [i \in 0..n |-> First(all, i)]
  <2>1. ASSUME NEW i \in 0..n PROVE F[i] = IF i = 0 THEN <<>> ELSE Append(F[i - 1], all[i])
    <3>1. CASE i = 0
      BY <1>2, <3>1
    <3>2. CASE i # 0
      <4>1. i - 1 \in Nat /\ (i - 1) + 1 = i /\ i - 1 \in 0..n /\ i <= n
        BY <1>1, <3>2
      <4>2. Append(First(all, i - 1), all[i]) = First(all, i)
        BY <1>3, <4>1
      <4> HIDE DEF n
      <4>3. F[i - 1] = First(all, i - 1)
        BY <4>1
      <4> QED
        BY <3>2, <4>2, <4>3
    <3> QED
      BY <3>1, <3>2
  <2>2. F = [i \in 0..n |-> IF i = 0 THEN <<>> ELSE Append(F[i - 1], all[i])]
    BY <2>1
  <2> HIDE DEF F
  <2> QED
    BY <2>2 DEF Builds
<1>6. ASSUME NEW F, Builds(F, all) PROVE F[n] = all
  <2> DEFINE T == {k \in Nat : k <= n => F[k] = First(all, k)}
  <2>1. F[0] = <<>> /\ \A k \in Nat : k + 1 <= n => F[k + 1] = Append(F[k], all[k + 1])
    <3>1. F[0] = <<>>
      BY <1>1, <1>6 DEF Builds
    <3>2. ASSUME NEW k \in Nat, k + 1 <= n PROVE F[k + 1] = Append(F[k], all[k + 1])
      <4>1. k + 1 \in 0..n /\ k + 1 # 0 /\ (k + 1) - 1 = k
        BY <1>1, <3>2
      <4> HIDE DEF n
      <4> QED
        BY <1>6, <4>1 DEF Builds, n
    <3> QED
      BY <3>1, <3>2
  <2>2. 0 \in T
    BY <1>2, <2>1
  <2>3. ASSUME NEW k \in T PROVE k + 1 \in T
    <3>1. CASE k + 1 <= n
      <4>1. k \in Nat /\ F[k] = First(all, k)
        BY <1>1, <3>1
      <4>2. F[k + 1] = First(all, k + 1)
        BY <1>3, <2>1, <3>1, <4>1
      <4> QED
        BY <4>1, <4>2
    <3>2. CASE ~(k + 1 <= n)
      BY <3>2
    <3> QED
      BY <3>1, <3>2
  <2> HIDE DEF T
  <2>4. T \subseteq Nat
    BY DEF T
  <2>5. T = Nat
    BY <2>2, <2>3, <2>4, NatInd
  <2>6. F[n] = First(all, n)
    BY <1>1, <2>5 DEF T
  <2> QED
    BY <1>4, <2>6
<1> QED
  BY <1>5, <1>6

-----------------------------------------------------------------------------
(* The seats of a Team whose members are all enabled and seated.             *)
Seated(team) ==
  /\ team.members \in Seq(Design!RangeOf(team.members))
  /\ \A i \in DOMAIN team.members : team.members[i].enabled /\ team.members[i].seat # None

LEMMA EntriesAre ==
  ASSUME NEW team, Seated(team)
  PROVE  Design!Entries(team)
           = [i \in 1..Len(team.members) |-> [member |-> i, seat |-> team.members[i].seat]]
<1> DEFINE n == Len(team.members)
           all == [i \in 1..n |-> [member |-> i, seat |-> team.members[i].seat]]
           taken(s) == Design!ExplicitIds(team) \cup {e.seat : e \in Design!RangeOf(s)}
           Entry(s, i) == [member |-> i,
                           seat |-> IF team.members[i].seat # None THEN team.members[i].seat
                                    ELSE Design!GeneratedId(i, taken(s))]
           Step(s, i) == IF ~team.members[i].enabled THEN s ELSE Append(s, Entry(s, i))
           Body(g) == [i \in 0..n |-> IF i = 0 THEN <<>> ELSE Step(g[i - 1], i)]
           F == CHOOSE f : f = Body(f)
<1>1. Design!Entries(team) = F[n]
  BY DEF Design!Entries
<1>2. n \in Nat /\ DOMAIN team.members = 1..n
  BY DEF Seated
<1>3. all \in Seq(Design!RangeOf(all)) /\ Len(all) = n
  <2>1. all \in [1..n -> Design!RangeOf(all)]
    BY DEF Design!RangeOf
  <2> HIDE DEF all
  <2> QED
    BY <1>2, <2>1
<1>4. ASSUME NEW g PROVE g = Body(g) <=> Builds(g, all)
  <2>1. ASSUME NEW i \in 1..n, NEW s PROVE Step(s, i) = Append(s, all[i])
    <3>1. team.members[i].enabled /\ team.members[i].seat # None
      BY <1>2 DEF Seated
    <3>2. Entry(s, i) = all[i]
      BY <3>1
    <3> HIDE DEF Entry, all
    <3> QED
      BY <3>1, <3>2
  <2> HIDE DEF Step, all
  <2>2. \A i \in 0..n : i # 0 => i \in 1..n
    BY <1>2
  <2>3. Body(g) = [i \in 0..n |-> IF i = 0 THEN <<>> ELSE Append(g[i - 1], all[i])]
    BY <2>1, <2>2
  <2> HIDE DEF Body
  <2> QED
    BY <1>3, <2>3 DEF Builds
<1> HIDE DEF all, Body
<1>5. /\ \E g : Builds(g, all)
      /\ \A g : Builds(g, all) => g[n] = all
  BY <1>3, ListIsBuilt
<1>6. F = Body(F)
  BY <1>4, <1>5
<1> HIDE DEF F
<1>7. F[n] = all
  BY <1>4, <1>5, <1>6
<1> QED
  BY <1>1, <1>7 DEF all

LEMMA AllArePlanned ==
  ASSUME NEW team, NEW book, NEW h, NEW S, NEW all \in Seq(S),
         \A i \in 1..Len(all) : Design!Planned(team, book, h, all[i])
  PROVE  Design!PlannedAmong(team, book, h, all) = all
<1> DEFINE n == Len(all)
           Step(s, i) == IF Design!Planned(team, book, h, all[i]) THEN Append(s, all[i]) ELSE s
           Body(g) == [i \in 0..n |-> IF i = 0 THEN <<>> ELSE Step(g[i - 1], i)]
           F == CHOOSE f : f = Body(f)
<1>1. Design!PlannedAmong(team, book, h, all) = F[n]
  BY DEF Design!PlannedAmong
<1>2. ASSUME NEW g PROVE g = Body(g) <=> Builds(g, all)
  <2>1. ASSUME NEW i \in 1..n, NEW s PROVE Step(s, i) = Append(s, all[i])
    OBVIOUS
  <2> HIDE DEF Step
  <2>2. \A i \in 0..n : i # 0 => i \in 1..n
    OBVIOUS
  <2>3. Body(g) = [i \in 0..n |-> IF i = 0 THEN <<>> ELSE Append(g[i - 1], all[i])]
    BY <2>1, <2>2
  <2> HIDE DEF Body
  <2> QED
    BY <2>3 DEF Builds
<1> HIDE DEF Body
<1>3. /\ \E g : Builds(g, all)
      /\ \A g : Builds(g, all) => g[n] = all
  BY ListIsBuilt
<1>4. F = Body(F)
  BY <1>2, <1>3
<1> HIDE DEF F
<1> QED
  BY <1>1, <1>2, <1>3, <1>4

\* What a seat is, for the k-th member.
SeatOf(team, book, h, k) ==
  [seat |-> team.members[k].seat, role |-> team.members[k].role, label |-> team.members[k].label,
   selected |-> Design!ResolveProfile(book[team.members[k].role], h),
   activation |-> IF team.creation = "on-demand" THEN "on-demand" ELSE "eager"]
Resolved(team, book, h) ==
  \A k \in DOMAIN team.members :
    /\ team.members[k].role \in DOMAIN book
    /\ Design!ResolveProfile(book[team.members[k].role], h) # None

LEMMA SeatsAre ==
  ASSUME NEW team, NEW book, NEW h, NEW max, Seated(team), Resolved(team, book, h), h.ready
  PROVE  Design!SeatPlan(team, book, h, max).seats
           = [k \in 1..Len(team.members) |-> SeatOf(team, book, h, k)]
<1> DEFINE n == Len(team.members)
           all == [i \in 1..n |-> [member |-> i, seat |-> team.members[i].seat]]
<1>1. Design!Entries(team) = all
  BY EntriesAre
<1>2. n \in Nat /\ DOMAIN team.members = 1..n
  BY DEF Seated
<1>3. \A i \in 1..n : all[i].member = i /\ all[i].seat = team.members[i].seat
  OBVIOUS
<1>4. all \in Seq(Design!RangeOf(all)) /\ Len(all) = n /\ DOMAIN all = 1..n
  <2>1. all \in [1..n -> Design!RangeOf(all)]
    BY DEF Design!RangeOf
  <2> HIDE DEF all
  <2> QED
    BY <1>2, <2>1
<1> HIDE DEF all
<1>5. \A i \in 1..n : Design!Planned(team, book, h, all[i])
  BY <1>2, <1>3 DEF Resolved, Design!Planned
<1>6. Design!PlannedEntries(team, book, h) = all
  BY <1>1, <1>4, <1>5, AllArePlanned DEF Design!PlannedEntries
<1>7. Design!SeatsOf(team, book, h, all) = [k \in 1..n |-> SeatOf(team, book, h, k)]
  BY <1>3, <1>4 DEF Design!SeatsOf, SeatOf
<1> QED
  BY <1>6, <1>7 DEF Design!SeatPlan

-----------------------------------------------------------------------------
(* What a launch without a blocker is made of. *)
RoleAt(team, target) == IF target = 0 THEN team.coordinator ELSE team.members[target].role

LEMMA LaunchMeans ==
  ASSUME NEW team, NEW book, Seated(team), Design!Launches(team, book)
  PROVE  /\ host.ready /\ Resolved(team, book, host)
         /\ team.coordinator \in DOMAIN book
         /\ Design!Coordinator(team, book, host)
              = Design!ResolveProfile(book[team.coordinator], host)
         /\ Design!Coordinator(team, book, host) # None
<1> DEFINE plan == Design!SeatPlan(team, book, host, maxMembers)
           seats == Design!SeatsOf(team, book, host, Design!PlannedEntries(team, book, host))
<1>1. /\ plan.blockers = {}
      /\ Design!When("no coordinator", Design!Coordinator(team, book, host) = None) = {}
  BY DEF Design!Launches, Design!LaunchBlockers, Design!LaunchPlan
<1>2. host.ready
  BY <1>1 DEF Design!SeatPlan
<1>3. Design!SeatBlockers(team, book, host, seats, maxMembers) = {}
  BY <1>1, <1>2 DEF Design!SeatPlan
<1> HIDE DEF seats, plan
<1>4. Design!Coordinator(team, book, host) # None
  BY <1>1 DEF Design!When
<1>5. /\ Design!When("role missing", \E i \in Design!Enabled(team) :
           team.members[i].role \notin DOMAIN book) = {}
      /\ Design!When("no profile", \E i \in Design!Enabled(team) :
                                      /\ team.members[i].role \in DOMAIN book
                                      /\ Design!ResolveProfile(book[team.members[i].role], host)
                                           = None) = {}
  BY <1>3 DEF Design!SeatBlockers
<1>6. Design!Enabled(team) = DOMAIN team.members
  BY DEF Design!Enabled, Seated
<1>7. Resolved(team, book, host)
  BY <1>5, <1>6 DEF Design!When, Resolved
<1> QED
  BY <1>2, <1>4, <1>7 DEF Design!Coordinator

\* Two catalogs whose Roles prefer the same Profiles.
Alike(c, d) ==
  /\ DOMAIN c = DOMAIN d
  /\ \A id \in DOMAIN c : c[id].preferred = d[id].preferred /\ c[id].fallback = d[id].fallback

LEMMA AlikeResolve ==
  ASSUME NEW c, NEW d, Alike(c, d), NEW h
  PROVE  \A id \in DOMAIN c : Design!ResolveProfile(c[id], h) = Design!ResolveProfile(d[id], h)
BY DEF Alike, Design!ResolveProfile, Design!Candidates

LEMMA AlikeLaunch ==
  ASSUME NEW team, NEW c, NEW d, Seated(team), Alike(c, d), Design!Launches(team, c)
  PROVE  Design!Launches(team, d)
<1>1. /\ host.ready /\ Resolved(team, c, host) /\ team.coordinator \in DOMAIN c
      /\ Design!Coordinator(team, c, host) = Design!ResolveProfile(c[team.coordinator], host)
  BY LaunchMeans
<1>2. DOMAIN c = DOMAIN d /\ \A id \in DOMAIN c : Design!ResolveProfile(c[id], host)
        = Design!ResolveProfile(d[id], host)
  BY AlikeResolve DEF Alike
<1>3. Resolved(team, d, host)
  BY <1>1, <1>2 DEF Resolved
<1>4. Design!Coordinator(team, d, host) = Design!Coordinator(team, c, host)
  BY <1>1, <1>2 DEF Design!Coordinator
<1>5. Design!SeatPlan(team, d, host, maxMembers).seats
        = Design!SeatPlan(team, c, host, maxMembers).seats
  <2>1. \A k \in DOMAIN team.members : SeatOf(team, c, host, k) = SeatOf(team, d, host, k)
    BY <1>1, <1>2 DEF SeatOf, Resolved
  <2>2. DOMAIN team.members = 1..Len(team.members)
    BY DEF Seated
  <2>3. [k \in 1..Len(team.members) |-> SeatOf(team, c, host, k)]
          = [k \in 1..Len(team.members) |-> SeatOf(team, d, host, k)]
    BY <2>1, <2>2
  <2>4. Design!SeatPlan(team, c, host, maxMembers).seats
          = [k \in 1..Len(team.members) |-> SeatOf(team, c, host, k)]
    BY <1>1, SeatsAre
  <2>5. Design!SeatPlan(team, d, host, maxMembers).seats
          = [k \in 1..Len(team.members) |-> SeatOf(team, d, host, k)]
    BY <1>1, <1>3, SeatsAre
  <2> QED
    BY <2>3, <2>4, <2>5
<1>6. \A seats : Design!SeatBlockers(team, c, host, seats, maxMembers)
        = Design!SeatBlockers(team, d, host, seats, maxMembers)
  <2>1. \A i \in Design!Enabled(team) : i \in DOMAIN team.members
    BY DEF Design!Enabled
  <2>2. /\ ~\E i \in Design!Enabled(team) : team.members[i].role \notin DOMAIN c
        /\ ~\E i \in Design!Enabled(team) : team.members[i].role \notin DOMAIN d
        /\ ~\E i \in Design!Enabled(team) : team.members[i].role \in DOMAIN c
                                            /\ Design!ResolveProfile(c[team.members[i].role],
                                                 host) = None
        /\ ~\E i \in Design!Enabled(team) : team.members[i].role \in DOMAIN d
                                            /\ Design!ResolveProfile(d[team.members[i].role],
                                                 host) = None
    BY <1>1, <1>3, <2>1 DEF Resolved
  <2> QED
    BY <2>2 DEF Design!SeatBlockers, Design!When
<1>7. Design!SeatPlan(team, d, host, maxMembers).blockers
        = Design!SeatPlan(team, c, host, maxMembers).blockers
  <2>1. /\ Design!SeatPlan(team, c, host, maxMembers).blockers
             = Design!SeatBlockers(team, c, host,
               Design!SeatPlan(team, c, host, maxMembers).seats, maxMembers)
        /\ Design!SeatPlan(team, d, host, maxMembers).blockers
             = Design!SeatBlockers(team, d, host,
               Design!SeatPlan(team, d, host, maxMembers).seats, maxMembers)
    BY <1>1 DEF Design!SeatPlan
  <2> QED
    BY <1>5, <1>6, <2>1
<1>8. Design!LaunchBlockers(team, d, host, maxMembers)
        = Design!LaunchBlockers(team, c, host, maxMembers)
  BY <1>4, <1>7 DEF Design!LaunchBlockers, Design!LaunchPlan
<1> QED
  BY <1>8 DEF Design!Launches

\* The Profile of every target of such a launch.
LEMMA ExpectedAre ==
  ASSUME NEW team, NEW book, Seated(team), Design!Launches(team, book),
         \A i, j \in DOMAIN team.members : team.members[i].seat = team.members[j].seat => i = j
  PROVE  Design!ExpectedProfileIds(team, book)
           = [target \in 0..Len(team.members) |->
                Design!ResolveProfile(book[RoleAt(team, target)], host).profile]
<1> DEFINE n == Len(team.members)
           seats == Design!SeatPlan(team, book, host, maxMembers).seats
           found(target) == CHOOSE s \in Design!RangeOf(seats) : s.seat
             = team.members[target].seat
<1>1. /\ host.ready /\ Resolved(team, book, host)
      /\ Design!Coordinator(team, book, host)
           = Design!ResolveProfile(book[team.coordinator], host)
  BY LaunchMeans
<1>2. n \in Nat /\ DOMAIN team.members = 1..n
  BY DEF Seated
<1>3. seats = [k \in 1..n |-> SeatOf(team, book, host, k)]
  BY <1>1, SeatsAre
<1>4. Design!ExpectedProfileIds(team, book)
        = [target \in 0..n |-> IF target = 0 THEN Design!Coordinator(team, book, host).profile
                               ELSE found(target).selected.profile]
  BY DEF Design!ExpectedProfileIds
<1> HIDE DEF seats
<1>5. ASSUME NEW target \in 1..n
      PROVE  found(target) = SeatOf(team, book, host, target)
  <2>1. \A k \in 1..n : seats[k] = SeatOf(team, book, host, k)
    BY <1>3
  <2>2. Design!RangeOf(seats) = {SeatOf(team, book, host, k) : k \in 1..n}
    BY <1>3, <2>1 DEF Design!RangeOf
  <2>3. \A k \in 1..n : SeatOf(team, book, host, k).seat = team.members[k].seat
    BY DEF SeatOf
  <2>4. SeatOf(team, book, host, target) \in Design!RangeOf(seats)
    BY <2>2
  <2>5. \A s \in Design!RangeOf(seats) : s.seat = team.members[target].seat
                                         => s = SeatOf(team, book, host, target)
    BY <1>2, <2>2, <2>3
  <2> QED
    BY <2>3, <2>4, <2>5
<1>6. ASSUME NEW target \in 1..n
      PROVE  found(target).selected = Design!ResolveProfile(book[team.members[target].role], host)
  <2>1. SeatOf(team, book, host, target).selected
          = Design!ResolveProfile(book[team.members[target].role], host)
    BY DEF SeatOf
  <2> HIDE DEF found
  <2> QED
    BY <1>5, <2>1
<1> HIDE DEF found
<1>7. ASSUME NEW target \in 0..n
      PROVE  (IF target = 0 THEN Design!Coordinator(team, book, host).profile
              ELSE found(target).selected.profile)
               = Design!ResolveProfile(book[RoleAt(team, target)], host).profile
  <2>1. CASE target = 0
    BY <1>1, <2>1 DEF RoleAt
  <2>2. CASE target # 0
    <3>1. target \in 1..n
      BY <1>2, <2>2
    <3> QED
      BY <1>6, <2>2, <3>1 DEF RoleAt
  <2> QED
    BY <2>1, <2>2
<1> QED
  BY <1>4, <1>7

\* What the design shows, from the texts of the Roles and the Profiles.
LabelAt(team, target) == IF target = 0 THEN None ELSE team.members[target].label
View(team, texts, reasons) ==
  [k \in 1..(Len(team.members) + 1) |->
     [role |-> RoleAt(team, k - 1), prompt |-> texts[RoleAt(team, k - 1)],
      label |-> LabelAt(team, k - 1), profile |-> reasons[k - 1]]]

LEMMA ShownIsView ==
  ASSUME NEW team, NEW book, Seated(team), Design!Launches(team, book),
         \A i, j \in DOMAIN team.members : team.members[i].seat = team.members[j].seat => i = j,
         NEW texts, \A target \in 0..Len(team.members) :
                      texts[RoleAt(team, target)] = book[RoleAt(team, target)].text
  PROVE  Design!Shown(Design!Agents(Design!LaunchPlan(team, book, host, maxMembers), team, book,
           host))
           = View(team, texts, Design!ExpectedProfileIds(team, book))
<1> DEFINE n == Len(team.members)
           plan == Design!LaunchPlan(team, book, host, maxMembers)
           seats == Design!SeatPlan(team, book, host, maxMembers).seats
           lead == Design!Agent("coordinator", team.coordinator, None, plan.coordinator.profile,
                         book, host, team)
           member(k) ==
             Design!Agent("member", seats[k].role, seats[k].label, seats[k].selected.profile,
                              book, host, team)
           rest == [k \in DOMAIN seats |-> member(k)]
           agents == Design!Agents(plan, team, book, host)
           reasons == Design!ExpectedProfileIds(team, book)
<1>1. /\ host.ready /\ Resolved(team, book, host)
      /\ Design!Coordinator(team, book, host)
           = Design!ResolveProfile(book[team.coordinator], host)
  BY LaunchMeans
<1>2. n \in Nat /\ DOMAIN team.members = 1..n
  BY DEF Seated
<1>3. seats = [k \in 1..n |-> SeatOf(team, book, host, k)]
  BY <1>1, SeatsAre
<1>4. plan.seats = seats /\ plan.coordinator = Design!Coordinator(team, book, host)
  BY DEF Design!LaunchPlan
<1>5. reasons = [target \in 0..n |-> Design!ResolveProfile(book[RoleAt(team, target)],
        host).profile]
  BY ExpectedAre
<1>6. agents = <<lead>> \o rest
  BY <1>4 DEF Design!Agents
<1>7. lead.role = RoleAt(team, 0) /\ lead.prompt = texts[RoleAt(team, 0)] /\ lead.label
        = LabelAt(team, 0)
      /\ lead.profile = reasons[0]
  BY <1>1, <1>2, <1>4, <1>5 DEF Design!Agent, RoleAt, LabelAt
<1> HIDE DEF plan, lead, seats, reasons, n
<1>8. ASSUME NEW k \in 1..n
      PROVE  /\ member(k).role = RoleAt(team, k) /\ member(k).prompt = texts[RoleAt(team, k)]
             /\ member(k).label = LabelAt(team, k) /\ member(k).profile = reasons[k]
  <2>1. k # 0 /\ k \in 0..n
    BY <1>2
  <2>2. seats[k] = SeatOf(team, book, host, k)
    BY <1>3
  <2>3. /\ seats[k].role = RoleAt(team, k) /\ seats[k].label = LabelAt(team, k)
        /\ seats[k].selected = Design!ResolveProfile(book[RoleAt(team, k)], host)
    BY <2>1, <2>2 DEF SeatOf, RoleAt, LabelAt
  <2>4. reasons[k] = seats[k].selected.profile
    BY <1>5, <2>1, <2>3
  <2>5. texts[RoleAt(team, k)] = book[RoleAt(team, k)].text
    BY <2>1 DEF n
  <2> QED
    BY <2>3, <2>4, <2>5 DEF Design!Agent
<1> HIDE DEF member
<1>9. rest \in Seq(Design!RangeOf(rest)) /\ Len(rest) = n /\ \A k \in 1..n : rest[k] = member(k)
  <2>1. rest \in [1..n -> Design!RangeOf(rest)] /\ \A k \in 1..n : rest[k] = member(k)
    BY <1>3 DEF Design!RangeOf
  <2> HIDE DEF rest
  <2> QED
    BY <1>2, <2>1
<1> HIDE DEF rest
<1>10. <<lead>> \in Seq({lead} \cup Design!RangeOf(rest))
         /\ rest \in Seq({lead} \cup Design!RangeOf(rest))
       /\ Len(<<lead>>) = 1
  <2>1. <<lead>> \in Seq({lead})
    OBVIOUS
  <2> QED
    BY <1>9, <2>1, SeqMonotonic
<1>11. /\ agents \in Seq({lead} \cup Design!RangeOf(rest)) /\ Len(agents) = 1 + n
       /\ \A k \in 1..(1 + n) : agents[k] = IF k <= 1 THEN <<lead>>[k] ELSE rest[k - 1]
  BY <1>6, <1>9, <1>10, ConcatProperties
<1> HIDE DEF agents
<1>12. DOMAIN agents = 1..(n + 1)
  BY <1>2, <1>11, LenProperties
<1>13. ASSUME NEW k \in 1..(n + 1)
       PROVE  /\ agents[k].role = RoleAt(team, k - 1) /\ agents[k].prompt
                   = texts[RoleAt(team, k - 1)]
              /\ agents[k].label = LabelAt(team, k - 1) /\ agents[k].profile = reasons[k - 1]
  <2>1. CASE k = 1
    <3>1. agents[k] = lead /\ k - 1 = 0
      BY <1>2, <1>11, <2>1
    <3> QED
      BY <1>7, <3>1
  <2>2. CASE k # 1
    <3>1. k - 1 \in 1..n /\ agents[k] = rest[k - 1]
      BY <1>2, <1>11, <2>2
    <3> QED
      BY <1>8, <1>9, <3>1
  <2> QED
    BY <2>1, <2>2
<1> QED
  BY <1>12, <1>13 DEF Design!Shown, View, plan, n, reasons, agents

-----------------------------------------------------------------------------
(* What a design shows is told by its own fields. *)
ShownTexts(r) ==
  [role \in Design!UsedRoles(r.team) |->
     IF role \in DOMAIN r.newRoles THEN r.newRoles[role].text ELSE r.reuse[role].text]
Shows(r) == r.shown = View(r.team, ShownTexts(r), r.reasons)

LEMMA BuiltTeam ==
  ASSUME NEW r, Well(r), Len(r.team.members) \in 1..64
  PROVE  /\ Seated(r.team)
         /\ \A i, j \in DOMAIN r.team.members : r.team.members[i].seat = r.team.members[j].seat
              => i = j
         /\ \A target \in 0..Len(r.team.members) :
              RoleAt(r.team, target) \in Design!UsedRoles(r.team)
<1> DEFINE ms == r.team.members
<1>1. PICK p \in Proposals : r.team = Design!BuildTeam(p)
  BY DEF Well
<1>2. p.members \in Seq(Design!RangeOf(p.members))
  BY DesignAssumption
<1>3. ms = [i \in DOMAIN p.members |->
              [role |-> p.members[i].role, label |-> p.members[i].label,
               seat |-> <<"seat", i>>, enabled |-> TRUE]]
  BY <1>1 DEF Design!BuildTeam
<1> HIDE DEF ms
<1>4. /\ DOMAIN ms = DOMAIN p.members /\ ms = [i \in DOMAIN p.members |-> ms[i]]
      /\ \A i \in DOMAIN ms : ms[i].seat = <<"seat", i>> /\ ms[i].enabled
  BY <1>3
<1>5. PICK n \in Nat : DOMAIN p.members = 1..n
  BY <1>2, LenProperties
<1>6. ms \in Seq(Design!RangeOf(ms)) /\ Len(ms) = n
  <2>1. ms \in [1..n -> Design!RangeOf(ms)]
    BY <1>4, <1>5 DEF Design!RangeOf
  <2> QED
    BY <2>1
<1>7. n \in 1..64
  BY <1>6 DEF ms
<1>8. \A i \in DOMAIN ms : ms[i].seat # None
  <2> TAKE i \in DOMAIN ms
  <2>1. i \in 1..Design!MaxRuntimeMembers
    <3>1. i \in 1..n
      BY <1>4, <1>5
    <3> QED
      BY <1>7, <3>1 DEF Design!MaxRuntimeMembers
  <2>2. <<"seat", i>> # None
    BY <2>1, DesignAssumption
  <2> QED
    BY <1>4, <2>2
<1>9. ASSUME NEW i \in DOMAIN ms, NEW j \in DOMAIN ms, ms[i].seat = ms[j].seat PROVE i = j
  <2>1. <<"seat", i>> = <<"seat", j>>
    BY <1>4, <1>9
  <2> QED
    BY <2>1
<1>10. ASSUME NEW target \in 0..n PROVE RoleAt(r.team, target) \in Design!UsedRoles(r.team)
  <2>1. CASE target = 0
    BY <2>1 DEF RoleAt, Design!UsedRoles
  <2>2. CASE target # 0
    <3>1. target \in DOMAIN ms
      BY <1>4, <1>5, <2>2
    <3>2. r.team.members[target] \in Design!RangeOf(r.team.members)
      BY <3>1 DEF Design!RangeOf, ms
    <3> QED
      BY <2>2, <3>2 DEF RoleAt, Design!UsedRoles
  <2> QED
    BY <2>1, <2>2
<1> QED
  BY <1>4, <1>6, <1>8, <1>9, <1>10 DEF Seated, ms

LEMMA ProposedShows ==
  ASSUME NEW p \in Proposals, NEW choices, NEW retired \in BOOLEAN,
         Design!Propose(p, choices, retired)
  PROVE  Shows(result')
<1> DEFINE r == result'
           book == Design!PlannedRoles(r.newRoles)
<1>1. /\ Design!Launches(r.team, book) /\ r.reasons = Design!ExpectedProfileIds(r.team, book)
      /\ r.shown = Design!Shown(Design!Agents(Design!LaunchPlan(r.team, book, host, maxMembers),
           r.team, book, host))
      /\ r.reuse = Design!ReuseOf(r.team, r.newRoles)
      /\ Design!ContentFits(r.team, r.newRoles, r.reuse, {}, FALSE)
  BY DEF Design!Propose, Design!ChoicesFit
<1>2. Well(r)
  BY ProposedIsWell
<1>3. Len(r.team.members) \in 1..64
  BY <1>1 DEF Design!ContentFits, Design!TeamFits
<1> HIDE DEF r
<1>4. DOMAIN r.reuse = Design!UsedRoles(r.team) \ DOMAIN r.newRoles
        /\ DOMAIN r.reuse \subseteq DOMAIN catalog
  BY <1>1 DEF Design!ContentFits, Design!ReuseFits
<1>5. \A id \in DOMAIN r.reuse : r.reuse[id].text = catalog[id].text
  BY <1>1 DEF Design!ReuseOf, Design!Behavior
<1>6. /\ \A id \in DOMAIN r.newRoles : book[id] = r.newRoles[id]
      /\ \A id \in DOMAIN catalog \ DOMAIN r.newRoles : book[id] = catalog[id]
  BY CatalogsAre
<1> HIDE DEF book
<1>7. \A id \in Design!UsedRoles(r.team) : ShownTexts(r)[id] = book[id].text
  BY <1>4, <1>5, <1>6 DEF ShownTexts
<1>8. /\ Seated(r.team)
      /\ \A i, j \in DOMAIN r.team.members : r.team.members[i].seat = r.team.members[j].seat => i
           = j
      /\ \A target \in 0..Len(r.team.members) :
           ShownTexts(r)[RoleAt(r.team, target)] = book[RoleAt(r.team, target)].text
  BY <1>2, <1>3, <1>7, BuiltTeam
<1>9. Design!Shown(Design!Agents(Design!LaunchPlan(r.team, book, host, maxMembers), r.team, book,
        host))
        = View(r.team, ShownTexts(r), Design!ExpectedProfileIds(r.team, book))
  BY <1>1, <1>8, ShownIsView
<1> QED
  BY <1>1, <1>9 DEF Shows, r

\* A design that fits is saved as it shows.
LEMMA FitsShown ==
  ASSUME NEW r, Well(r), Shows(r), Design!StillFits(r)
  PROVE  LET book == Design!SavedRoles(r.newRoles) IN
         /\ Design!Launches(r.team, book)
         /\ Design!Shown(Design!Agents(Design!LaunchPlan(r.team, book, host, maxMembers), r.team,
              book, host)) = r.shown
<1> DEFINE new == r.newRoles
           saved == Design!SavedRoles(new)
           planned == Design!PlannedRoles(new)
<1>1. /\ Design!Launches(r.team, planned) /\ r.reasons
           = Design!ExpectedProfileIds(r.team, planned)
      /\ Len(r.team.members) \in 1..64
  BY DEF Design!StillFits, Design!PlansAlike, Design!ContentFits, Design!TeamFits
<1>2. DOMAIN r.reuse = Design!UsedRoles(r.team) \ DOMAIN new
  BY DEF Well
<1>3. /\ \A id \in DOMAIN new \cap DOMAIN catalog : Design!SameContent(catalog[id], new[id])
      /\ \A id \in DOMAIN r.reuse : id \in DOMAIN catalog /\ r.reuse[id]
           = Design!Behavior(catalog[id])
      /\ \A id \in Design!UsedRoles(r.team) : id \in DOMAIN catalog \cup DOMAIN new
  BY FitsRoles
<1>4. \A id \in DOMAIN new \cap DOMAIN catalog :
        /\ catalog[id].text = new[id].text /\ catalog[id].preferred = new[id].preferred
        /\ catalog[id].fallback = new[id].fallback
  BY <1>3, SameContentIs
<1>5. /\ DOMAIN planned = DOMAIN catalog \cup DOMAIN new /\ DOMAIN saved
           = DOMAIN catalog \cup DOMAIN new
      /\ \A id \in DOMAIN new : planned[id] = new[id]
      /\ \A id \in DOMAIN catalog \ DOMAIN new : planned[id] = catalog[id]
      /\ \A id \in DOMAIN catalog : saved[id] = catalog[id]
      /\ \A id \in DOMAIN new \ DOMAIN catalog : saved[id] = new[id]
  BY CatalogsAre
<1>6. /\ Seated(r.team)
      /\ \A i, j \in DOMAIN r.team.members : r.team.members[i].seat = r.team.members[j].seat => i
           = j
      /\ \A target \in 0..Len(r.team.members) :
           RoleAt(r.team, target) \in Design!UsedRoles(r.team)
  BY <1>1, BuiltTeam
<1> HIDE DEF saved, planned, new
<1>7. \A id \in DOMAIN r.reuse : r.reuse[id].text = catalog[id].text
  <2> TAKE id \in DOMAIN r.reuse
  <2>1. r.reuse[id] = Design!Behavior(catalog[id])
    BY <1>3
  <2>2. Design!Behavior(catalog[id]).text = catalog[id].text
    BY DEF Design!Behavior
  <2> QED
    BY <2>1, <2>2
<1>8. \A id \in Design!UsedRoles(r.team) : ShownTexts(r)[id] = saved[id].text
  <2> TAKE id \in Design!UsedRoles(r.team)
  <2>1. CASE id \in DOMAIN new
    BY <1>4, <1>5, <2>1 DEF ShownTexts, new
  <2>2. CASE id \notin DOMAIN new
    BY <1>2, <1>3, <1>5, <1>7, <2>2 DEF ShownTexts, new
  <2> QED
    BY <2>1, <2>2
<1>9. Alike(planned, saved)
  BY <1>4, <1>5 DEF Alike
<1>10. Design!Launches(r.team, saved)
  BY <1>1, <1>6, <1>9, AlikeLaunch
<1>11. Design!ExpectedProfileIds(r.team, saved) = r.reasons
  <2>1. \A id \in DOMAIN planned : Design!ResolveProfile(planned[id], host)
          = Design!ResolveProfile(saved[id], host)
    BY <1>9, AlikeResolve
  <2>2. Design!ExpectedProfileIds(r.team, planned)
          = [target \in 0..Len(r.team.members) |->
               Design!ResolveProfile(planned[RoleAt(r.team, target)], host).profile]
    BY <1>1, <1>6, ExpectedAre
  <2>4. Design!ExpectedProfileIds(r.team, saved)
          = [target \in 0..Len(r.team.members) |->
               Design!ResolveProfile(saved[RoleAt(r.team, target)], host).profile]
    BY <1>6, <1>10, ExpectedAre
  <2>3. \A target \in 0..Len(r.team.members) : RoleAt(r.team, target) \in DOMAIN planned
    BY <1>3, <1>5, <1>6
  <2> QED
    BY <1>1, <2>1, <2>2, <2>3, <2>4
<1>12. \A target \in 0..Len(r.team.members) :
         ShownTexts(r)[RoleAt(r.team, target)] = saved[RoleAt(r.team, target)].text
  BY <1>6, <1>8
<1>13. Design!Shown(Design!Agents(Design!LaunchPlan(r.team, saved, host, maxMembers), r.team,
         saved, host))
         = View(r.team, ShownTexts(r), Design!ExpectedProfileIds(r.team, saved))
  BY <1>6, <1>10, <1>12, ShownIsView
<1> QED
  BY <1>10, <1>11, <1>13 DEF Shows, saved, new

-----------------------------------------------------------------------------
(* The invariant. *)
DesignInv ==
  /\ changes \in Nat
  /\ result # None => Well(result) /\ Shows(result)
  /\ Design!SaveCanBeRetried

LEMMA DesignInit == Design!Init => DesignInv
BY DEF Design!Init, DesignInv, Design!SaveCanBeRetried

\* The check only looks at the documents, the host and the limit.
LEMMA SameCheck ==
  ASSUME UNCHANGED <<catalog, host, maxMembers, existingRolesOnly>>
  PROVE  Design!StillFits(result)' <=> Design!StillFits(result')
BY DEF Design!StillFits, Design!ContentFits, Design!NewRoleFits, Design!ReuseFits,
       Design!TeamFits, Design!NewRoleLimit, Design!OwnRows, Design!PlansAlike,
       Design!Launches, Design!PlannedRoles, Design!ExpectedProfileIds

LEMMA ChangeKeeps ==
  ASSUME DesignInv, Design!Changed, result' = result
  PROVE  DesignInv'
<1>1. changes' \in Nat /\ changes' # 0
  BY DEF DesignInv, Design!Changed
<1> QED
  BY <1>1 DEF DesignInv, Design!SaveCanBeRetried, Shows, Well

LEMMA DesignNext == DesignInv /\ [Design!Next]_Design!vars => DesignInv'
<1> SUFFICES ASSUME DesignInv, [Design!Next]_Design!vars PROVE DesignInv'
  OBVIOUS
<1>1. CASE UNCHANGED Design!vars
  <2>1. /\ UNCHANGED <<catalog, host, maxMembers, existingRolesOnly>>
        /\ result' = result /\ changes' = changes
    BY <1>1 DEF Design!vars
  <2>2. Design!StillFits(result)' <=> Design!StillFits(result)
    BY <2>1, SameCheck
  <2> QED
    BY <2>1, <2>2 DEF DesignInv, Design!SaveCanBeRetried, Shows, Well
<1>2. ASSUME NEW p \in Proposals, NEW retired \in BOOLEAN, NEW choices,
             Design!Propose(p, choices, retired)
      PROVE  DesignInv'
  <2>1. Well(result') /\ Shows(result')
    BY <1>2, ProposedIsWell, ProposedShows
  <2>2. UNCHANGED <<catalog, host, maxMembers, existingRolesOnly>> /\ changes' = changes
    BY <1>2 DEF Design!Propose
  <2>3. Design!StillFits(result)'
    BY <1>2, <2>2, ProposedFits, SameCheck
  <2> QED
    BY <2>1, <2>2, <2>3 DEF DesignInv, Design!SaveCanBeRetried, Well, Shows
<1>3. ASSUME NEW id, NEW asIs \in BOOLEAN, Design!SaveRow(id, asIs)
      PROVE  DesignInv'
  <2>1. result' = result /\ changes' = changes /\ result # None
    BY <1>3 DEF Design!SaveRow
  <2>2. changes = 0 => Design!StillFits(result)'
    BY <1>3, <2>1, SavedRowFits DEF DesignInv, Design!SaveCanBeRetried
  <2> QED
    BY <2>1, <2>2 DEF DesignInv, Design!SaveCanBeRetried, Well, Shows
<1>4. ASSUME NEW id, NEW role, Design!EditRole(id, role) \/ Design!AddRole(id, role)
      PROVE  DesignInv'
  BY <1>4, ChangeKeeps DEF Design!EditRole, Design!AddRole
<1>5. ASSUME NEW id, Design!RemoveRole(id) PROVE DesignInv'
  BY <1>5, ChangeKeeps DEF Design!RemoveRole
<1>6. ASSUME NEW new, Design!HostChanges(new) PROVE DesignInv'
  BY <1>6, ChangeKeeps DEF Design!HostChanges
<1>7. ASSUME NEW limit, Design!LimitChanges(limit) PROVE DesignInv'
  BY <1>7, ChangeKeeps DEF Design!LimitChanges
<1> QED
  BY <1>1, <1>2, <1>3, <1>4, <1>5, <1>6, <1>7 DEF Design!Next

LEMMA DesignSafe ==
  ASSUME DesignInv
  PROVE  /\ Design!SaveCanBeRetried /\ Design!SavedIsAsDesigned /\ Design!MergeAgrees
         /\ Design!NewNamesAreFree /\ Design!GapIsReal
<1>1. Design!SavedIsAsDesigned
  BY FitsShown DEF DesignInv, Design!SavedIsAsDesigned
<1>2. Design!MergeAgrees
  BY FitsMerge DEF DesignInv, Design!MergeAgrees
<1>3. Design!NewNamesAreFree
  BY FitsNames DEF DesignInv, Design!NewNamesAreFree
<1> QED
  BY <1>1, <1>2, <1>3, GapsAreReal DEF DesignInv

-----------------------------------------------------------------------------
(* The behaviours of MCPages: no other part changes what DesignInv is about. *)
DesignPart == part = "design" => DesignInv

\* A stored design stays good while only its own rows are written; whenever the
\* check lets a save go on, the launch it leaves is the one that was shown, the
\* page's merge agrees, no name is taken twice, and an accepted gap is real
\* (validateDesign, validateMaterializedDesign, mergeDesign, validateRoleGap).
THEOREM DesignSoundHolds == PagesSpec => []DesignSound
<1>1. PagesInit => DesignPart
  BY DesignInit DEF PagesInit, DesignPart
<1>2. DesignPart
      /\ [PagesNext]_<<part, saveVars, checkVars, planVars, startVars, catalogVars,
                       designVars, sample>>
      => DesignPart'
  <2> SUFFICES ASSUME DesignPart, part' = "design",
                      [PagesNext]_<<part, saveVars, checkVars, planVars, startVars, catalogVars,
                                    designVars, sample>>
               PROVE  DesignInv'
    BY DEF DesignPart
  <2>1. part = "design" /\ (Design!Next \/ UNCHANGED designVars)
    BY DEF PagesNext
  <2>2. [Design!Next]_Design!vars
    BY <2>1 DEF designVars, Design!vars
  <2> QED
    BY <2>1, <2>2, DesignNext DEF DesignPart
<1>3. DesignPart => DesignSound
  BY DesignSafe DEF DesignPart, DesignSound
<1> QED
  BY <1>1, <1>2, <1>3, PTL DEF PagesSpec
=============================================================================
