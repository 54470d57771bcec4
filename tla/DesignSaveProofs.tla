---------------------------- MODULE DesignSaveProofs ----------------------------
(***************************************************************************)
(* For every number of pages, runs, edits, cancels and faults: however     *)
(* saves and compensations overlap and whatever lands late, the documents  *)
(* hold the design's Role at most once and its Team at most once, and no   *)
(* Role that a user has edited is taken away by a page.                    *)
(*                                                                         *)
(* Why it holds: whoever is about to add a row, a page or a late write,    *)
(* remembers a revision of the document at which the row was not there,    *)
(* and whoever is about to remove the Role one at which it was unedited.   *)
(* A document that has changed since has another revision, so a write that *)
(* fits adds a missing row or removes an unedited one.                     *)
(*                                                                         *)
(* The last part shows that a saved design is whole, as long as no two     *)
(* leased runs overlap and no removal lands late.                          *)
(***************************************************************************)
EXTENDS DesignSave, TLAPS

(* A page's locals, without the bounds of its counters. *)
LooseLocals ==
  [kind : {"none", "save", "clean"}, run : Nat, flag : SUBSET Flags,
   steps : Nat, stale : Nat, conflicts : [{"role", "team"} -> Nat],
   base : [roles : Revs, teams : Revs],
   seen : [roles : RolesDocs, teams : TeamsDocs],
   phase : {"role", "team"}, reason : Reasons]

Shape ==
  /\ roles \in RolesDocs /\ teams \in TeamsDocs
  /\ inflight \subseteq [op : Writes, rev : Revs]
  /\ pc \in [Pages -> Labels] /\ loc \in [Pages -> LooseLocals]
  /\ spent \in [DOMAIN Bounds -> Nat]

(* The revision rev is of a time when the row was not in the document. *)
RoleNote(rev) == rev <= roles.rev /\ (rev = roles.rev => roles.rows = 0)
TeamNote(rev) == rev <= teams.rev /\ (rev = teams.rev => teams.rows = 0)

(* The revision rev is of a time when the Role was not edited. *)
EditNote(rev) == rev <= roles.rev /\ (rev = roles.rev => ~roles.edited)

PageNotes(p) ==
  /\ pc[p] \in {"writeRole", "restore"} => RoleNote(loc[p].seen.roles.rev)
  /\ pc[p] = "writeTeam" => TeamNote(loc[p].seen.teams.rev)
  /\ pc[p] = "remove" => EditNote(loc[p].seen.roles.rev)

WriteNotes(w) ==
  /\ w.op = "addRole" => RoleNote(w.rev)
  /\ w.op = "addTeam" => TeamNote(w.rev)
  /\ w.op = "removeRole" => EditNote(w.rev)

SaveInv ==
  /\ Shape /\ RowsOnce /\ (roles.edited => roles.rows > 0)
  /\ \A p \in Pages : PageNotes(p)
  /\ \A w \in inflight : WriteNotes(w)

-----------------------------------------------------------------------------
(* The documents. *)

(* A document stays as it is or gets a later revision, and an edited Role *)
(* stays unless a user removes it.                                        *)
DocsMove ==
  /\ roles' \in RolesDocs /\ teams' \in TeamsDocs
  /\ roles'.rows <= 1 /\ teams'.rows <= 1
  /\ roles' = roles \/ roles'.rev > roles.rev
  /\ teams' = teams \/ teams'.rev > teams.rev
  /\ roles'.edited => roles'.rows > 0
  /\ roles.edited => roles'.rows > 0 \/ removed'

LEMMA NotesStay ==
  ASSUME Shape, DocsMove, NEW n \in Nat
  PROVE  /\ RoleNote(n) => RoleNote(n)'
         /\ TeamNote(n) => TeamNote(n)'
         /\ EditNote(n) => EditNote(n)'
<1>1. (RoleNote(n) => RoleNote(n)') /\ (TeamNote(n) => TeamNote(n)')
  BY DEF Shape, DocsMove, RoleNote, TeamNote, RolesDocs, TeamsDocs, Revs
<1>2. EditNote(n) => EditNote(n)'
  <2>1. roles' = roles \/ roles'.rev > roles.rev
    BY DEF DocsMove
  <2>2. roles.rev \in Nat /\ roles'.rev \in Nat
    BY DEF Shape, DocsMove, RolesDocs, Revs
  <2>3. CASE roles' = roles
    BY <2>3 DEF EditNote
  <2>4. CASE roles'.rev > roles.rev
    BY <2>2, <2>4 DEF EditNote
  <2> QED
    BY <2>1, <2>3, <2>4
<1> QED
  BY <1>1, <1>2

LEMMA StillMoves ==
  ASSUME SaveInv, UNCHANGED docs
  PROVE  DocsMove
BY DEF SaveInv, Shape, RowsOnce, DocsMove, docs

(* A document with another number of rows and another revision. *)
Revised(d, n, k) == [d EXCEPT !.rows = n, !.rev = k]

LEMMA RolesNext ==
  ASSUME NEW r \in RolesDocs, NEW n \in Nat, NEW k \in Nat
  PROVE  LET s == Revised(r, n, k) IN s \in RolesDocs /\ s.rows = n /\ s.rev = k
<1> DEFINE q == [r EXCEPT !.rows = n]
           s == [q EXCEPT !.rev = k]
<1>1. q \in RolesDocs /\ q.rows = n
  BY DEF RolesDocs, Revs
<1> HIDE DEF q
<1>2. s \in RolesDocs /\ s.rows = n /\ s.rev = k
  BY <1>1 DEF RolesDocs, Revs
<1> QED
  BY <1>2 DEF q, Revised

LEMMA EditedNext ==
  ASSUME NEW r \in RolesDocs, NEW n, NEW k
  PROVE  Revised(r, n, k).edited = r.edited
<1> DEFINE q == [r EXCEPT !.rows = n]
           s == [q EXCEPT !.rev = k]
<1>1. {"rows", "edited", "rev"} \subseteq DOMAIN q /\ q.edited = r.edited
  BY DEF RolesDocs
<1> HIDE DEF q
<1>2. s.edited = r.edited
  BY <1>1
<1> QED
  BY <1>2 DEF q, Revised

LEMMA TeamsNext ==
  ASSUME NEW r \in TeamsDocs, NEW n \in Nat, NEW k \in Nat
  PROVE  LET s == Revised(r, n, k) IN s \in TeamsDocs /\ s.rows = n /\ s.rev = k
<1> DEFINE q == [r EXCEPT !.rows = n]
           s == [q EXCEPT !.rev = k]
<1>1. q \in TeamsDocs /\ q.rows = n
  BY DEF TeamsDocs, Revs
<1> HIDE DEF q
<1>2. s \in TeamsDocs /\ s.rows = n /\ s.rev = k
  BY <1>1 DEF TeamsDocs, Revs
<1> QED
  BY <1>2 DEF q, Revised

LEMMA ApplyMoves ==
  ASSUME SaveInv, NEW op \in Writes, NEW rev \in Nat, WriteNotes([op |-> op, rev |-> rev]),
         Fits(op, rev), Apply(op)
  PROVE  DocsMove
<1>1. /\ roles \in RolesDocs /\ teams \in TeamsDocs
      /\ roles.rows <= 1 /\ teams.rows <= 1
  BY DEF SaveInv, Shape, RowsOnce
<1>2. /\ roles.rev \in Nat /\ teams.rev \in Nat
      /\ roles.rev + 1 \in Nat /\ teams.rev + 1 \in Nat /\ 0 \in Nat /\ 1 \in Nat
  BY <1>1 DEF RolesDocs, TeamsDocs, Revs
<1>3. roles.edited => roles.rows > 0
  BY DEF SaveInv
<1>4. CASE op = "addRole"
  <2>1. roles.rows = 0
    BY <1>1, <1>4 DEF Fits, Document, WriteNotes, RoleNote
  <2>2. roles' = Revised(roles, 1, roles.rev + 1)
    BY <1>4, <2>1 DEF Apply, Revised
  <2>3. teams' = teams
    BY <1>4 DEF Apply
  <2>4. \A k \in Nat : /\ Revised(roles, 1, k) \in RolesDocs
                      /\ Revised(roles, 1, k).rows = 1 /\ Revised(roles, 1, k).rev = k
    BY Zenon, <1>1, <1>2, RolesNext
  <2>5. roles' \in RolesDocs /\ roles'.rows = 1 /\ roles'.rev = roles.rev + 1
    BY Zenon, <1>2, <2>2, <2>4
  <2> QED
    BY <1>1, <1>2, <1>3, <2>3, <2>5 DEF DocsMove
<1>5. CASE op = "addTeam"
  <2>1. teams.rows = 0
    BY <1>1, <1>5 DEF Fits, Document, WriteNotes, TeamNote
  <2>2. teams' = Revised(teams, 1, teams.rev + 1)
    BY <1>5, <2>1 DEF Apply, Revised
  <2>3. roles' = roles
    BY <1>5 DEF Apply
  <2>4. \A k \in Nat : /\ Revised(teams, 1, k) \in TeamsDocs
                      /\ Revised(teams, 1, k).rows = 1 /\ Revised(teams, 1, k).rev = k
    BY Zenon, <1>1, <1>2, TeamsNext
  <2>5. teams' \in TeamsDocs /\ teams'.rows = 1 /\ teams'.rev = teams.rev + 1
    BY Zenon, <1>2, <2>2, <2>4
  <2> QED
    BY <1>1, <1>2, <1>3, <2>3, <2>5 DEF DocsMove
<1>6. CASE op = "removeRole"
  <2> DEFINE r == [roles EXCEPT !.edited = FALSE]
  <2>1. r \in RolesDocs /\ r.edited = FALSE
    BY <1>1 DEF RolesDocs
  <2>2. roles' = Revised(r, 0, roles.rev + 1)
    BY <1>1, <1>6 DEF Apply, Revised, RolesDocs
  <2>3. teams' = teams
    BY <1>6 DEF Apply
  <2> HIDE DEF r
  <2>4. \A k \in Nat : /\ Revised(r, 0, k) \in RolesDocs
                      /\ Revised(r, 0, k).rows = 0 /\ Revised(r, 0, k).rev = k
    BY Zenon, <1>2, <2>1, RolesNext
  <2>5. roles' \in RolesDocs /\ roles'.rows = 0 /\ roles'.rev = roles.rev + 1
    BY Zenon, <1>2, <2>2, <2>4
  <2>6. roles'.edited = FALSE
    BY Zenon, <2>1, <2>2, EditedNext
  <2>7. ~roles.edited
    BY <1>1, <1>6 DEF Fits, Document, WriteNotes, EditNote
  <2> QED
    BY <1>1, <1>2, <2>3, <2>5, <2>6, <2>7 DEF DocsMove
<1> QED
  BY <1>4, <1>5, <1>6 DEF Writes

-----------------------------------------------------------------------------
(* The locals. *)

LEMMA InitLocals == NoLocals \in LooseLocals /\ NoLocals.seen = NoDocs
BY DEF NoLocals, LooseLocals, NoDocs, RolesDocs, TeamsDocs, Revs, Reasons

LEMMA FlagLocals ==
  ASSUME NEW x \in LooseLocals, NEW f \in SUBSET Flags
  PROVE  [x EXCEPT !.flag = f] \in LooseLocals
BY DEF LooseLocals

LEMMA PartLocals ==
  ASSUME NEW x \in LooseLocals
  PROVE  /\ \A r \in Reasons : [x EXCEPT !.reason = r] \in LooseLocals
         /\ \A f \in {"role", "team"} : [x EXCEPT !.phase = f] \in LooseLocals
         /\ \A n \in Nat : [x EXCEPT !.steps = n] \in LooseLocals
         /\ \A n \in Nat : [x EXCEPT !.stale = n] \in LooseLocals
         /\ \A b \in [roles : Revs, teams : Revs] : [x EXCEPT !.base = b] \in LooseLocals
<1>1. \A r \in Reasons : [x EXCEPT !.reason = r] \in LooseLocals
  BY DEF LooseLocals
<1>2. \A f \in {"role", "team"} : [x EXCEPT !.phase = f] \in LooseLocals
  BY DEF LooseLocals
<1>3. \A n \in Nat : [x EXCEPT !.steps = n] \in LooseLocals
  BY DEF LooseLocals
<1>4. \A n \in Nat : [x EXCEPT !.stale = n] \in LooseLocals
  BY DEF LooseLocals
<1>5. \A b \in [roles : Revs, teams : Revs] : [x EXCEPT !.base = b] \in LooseLocals
  BY DEF LooseLocals
<1> QED
  BY <1>1, <1>2, <1>3, <1>4, <1>5

LEMMA ConflictLocals ==
  ASSUME NEW x \in LooseLocals, NEW f \in {"role", "team"}, NEW n \in Nat
  PROVE  [x EXCEPT !.conflicts[f] = n] \in LooseLocals
<1> DEFINE c == [x.conflicts EXCEPT ![f] = n]
<1>1. c \in [{"role", "team"} -> Nat]
  BY DEF LooseLocals
<1> HIDE DEF c
<1>2. [x EXCEPT !.conflicts = c] \in LooseLocals
  BY <1>1 DEF LooseLocals
<1> QED
  BY <1>2 DEF c

LEMMA SeenLocals ==
  ASSUME NEW x \in LooseLocals, NEW d \in [roles : RolesDocs, teams : TeamsDocs]
  PROVE  [x EXCEPT !.seen = d] \in LooseLocals /\ [x EXCEPT !.seen = d].seen = d
BY DEF LooseLocals

LEMMA StartLocals ==
  ASSUME NEW k \in {"save", "clean"}, NEW n \in Nat
  PROVE  [NoLocals EXCEPT !.kind = k, !.run = n] \in LooseLocals
<1> DEFINE y == [NoLocals EXCEPT !.kind = k]
<1>1. y \in LooseLocals
  BY InitLocals DEF LooseLocals
<1> HIDE DEF y
<1>2. [y EXCEPT !.run = n] \in LooseLocals
  BY <1>1 DEF LooseLocals
<1> QED
  BY <1>2 DEF y

Seeing == {"writeRole", "writeTeam", "remove", "restore", "clearing"}

LEMMA KeptLocals ==
  ASSUME NEW x \in LooseLocals, NEW l \in Labels
  PROVE  /\ Kept(l, x) \in LooseLocals
         /\ l \in Seeing => Kept(l, x).seen = x.seen
         /\ l \notin Seeing => Kept(l, x).seen = NoDocs
<1> DEFINE b == IF l \in {"lease", "fresh"} THEN x.base ELSE NoLocals.base
           s == IF l \in Seeing THEN x.seen ELSE NoDocs
           f == IF l = "settle" THEN x.phase ELSE "role"
           r == IF l \in {"settle", "report", "reporting", "after"} THEN x.reason ELSE "none"
<1>1. Kept(l, x) = [x EXCEPT !.base = b, !.seen = s, !.phase = f, !.reason = r]
  BY DEF Kept, Seeing
<1>2. b \in [roles : Revs, teams : Revs]
  BY InitLocals DEF LooseLocals
<1>3. s \in [roles : RolesDocs, teams : TeamsDocs]
  BY InitLocals DEF LooseLocals
<1>4. f \in {"role", "team"} /\ r \in Reasons
  BY DEF LooseLocals, Reasons
<1> HIDE DEF b, s, f, r
<1>5. [x EXCEPT !.base = b, !.seen = s, !.phase = f, !.reason = r] \in LooseLocals
  BY <1>2, <1>3, <1>4 DEF LooseLocals
<1>6. Kept(l, x).seen = s
  BY <1>1 DEF LooseLocals
<1> QED
  BY <1>1, <1>5, <1>6 DEF s

(* A step of page p that leaves it with no documents in mind. *)
Others(p) == \A q \in Pages \ {p} : pc'[q] = pc[q] /\ loc'[q] = loc[q]

Moves(p) ==
  pc' \in [Pages -> Labels] /\ loc' \in [Pages -> LooseLocals] /\ Others(p)

Quiet(p) == Moves(p) /\ pc'[p] \notin Seeing

LEMMA GotoMoves ==
  ASSUME Shape, NEW p \in Pages, NEW l \in Labels, NEW x \in LooseLocals, Goto(p, l, x)
  PROVE  Moves(p) /\ pc'[p] = l /\ (l \in Seeing => loc'[p].seen = x.seen)
<1>1. Kept(l, x) \in LooseLocals /\ (l \in Seeing => Kept(l, x).seen = x.seen)
  BY KeptLocals
<1>2. pc' = [pc EXCEPT ![p] = l] /\ loc' = [loc EXCEPT ![p] = Kept(l, x)]
  BY DEF Goto
<1> QED
  BY <1>1, <1>2 DEF Shape, Moves, Others

LEMMA ReturnQuiet ==
  ASSUME Shape, NEW p \in Pages, NEW o, Return(p, o)
  PROVE  Quiet(p)
<1>1. pc' = [pc EXCEPT ![p] = "idle"] /\ loc' = [loc EXCEPT ![p] = NoLocals]
  BY DEF Return
<1> QED
  BY <1>1, InitLocals DEF Shape, Quiet, Moves, Others, Labels, Seeing

LEMMA GotoQuiet ==
  ASSUME Shape, NEW p \in Pages, NEW l \in Labels \ Seeing, NEW x \in LooseLocals, Goto(p, l, x)
  PROVE  Quiet(p)
BY GotoMoves DEF Quiet

LEMMA LocalsOf ==
  ASSUME Shape, NEW p \in Pages
  PROVE  /\ loc[p] \in LooseLocals
         /\ \A f \in SUBSET Flags : With(p, f) \in LooseLocals
         /\ \A f \in SUBSET Flags : Without(p, f) \in LooseLocals
<1>1. loc[p] \in LooseLocals
  BY DEF Shape
<1>2. loc[p].flag \in SUBSET Flags
  BY <1>1 DEF LooseLocals
<1>3. ASSUME NEW f \in SUBSET Flags
      PROVE  With(p, f) \in LooseLocals /\ Without(p, f) \in LooseLocals
  <2>1. loc[p].flag \cup f \in SUBSET Flags /\ loc[p].flag \ f \in SUBSET Flags
    BY <1>2
  <2> QED
    BY <1>1, <2>1, FlagLocals DEF With, Without
<1> QED
  BY <1>1, <1>3

LEMMA ReportQuiet ==
  ASSUME Shape, NEW p \in Pages, NEW x \in LooseLocals, NEW r \in Reasons
  PROVE  /\ ReportWith(p, x, r) => Quiet(p)
         /\ GiveUpWith(p, x, r) => Quiet(p)
<1>1. [x EXCEPT !.reason = r] \in LooseLocals /\ "report" \in Labels \ Seeing
  BY PartLocals DEF Labels, Seeing
<1>2. Goto(p, "report", [x EXCEPT !.reason = r]) => Quiet(p)
  BY <1>1, GotoQuiet
<1>3. Return(p, "nothing") => Quiet(p)
  BY ReturnQuiet
<1>4. ReportWith(p, x, r) => Quiet(p)
  BY <1>2, <1>3 DEF ReportWith
<1> QED
  BY <1>3, <1>4 DEF GiveUpWith

LEMMA TurnQuiet ==
  ASSUME Shape, NEW p \in Pages, NEW x \in LooseLocals, Turn(p, x)
  PROVE  Quiet(p)
<1>1. x.steps + 1 \in Nat
  BY DEF LooseLocals
<1>2. [x EXCEPT !.steps = x.steps + 1] \in LooseLocals
  BY <1>1, PartLocals
<1>3. Goto(p, "prepare", [x EXCEPT !.steps = x.steps + 1]) => Quiet(p)
  BY <1>2, GotoQuiet DEF Labels, Seeing
<1>4. GiveUpWith(p, x, "unknown") \/ GiveUpWith(p, x, "canceled") => Quiet(p)
  BY ReportQuiet DEF Reasons
<1> QED
  BY <1>3, <1>4 DEF Turn

LEMMA StaleQuiet ==
  ASSUME Shape, NEW p \in Pages, NEW x \in LooseLocals, Stale(p, x)
  PROVE  Quiet(p)
<1>1. x.stale + 1 \in Nat
  BY DEF LooseLocals
<1>2. [x EXCEPT !.stale = x.stale + 1] \in LooseLocals
  BY <1>1, PartLocals
<1>3. GiveUpWith(p, x, "partial") => Quiet(p)
  BY ReportQuiet DEF Reasons
<1> QED
  BY <1>2, <1>3, TurnQuiet DEF Stale

(* The reports and the ends of a run of the page. *)
LEMMA EndsQuiet ==
  ASSUME Shape, NEW p \in Pages
  PROVE  /\ Return(p, "nothing") \/ Return(p, "saved") => Quiet(p)
         /\ \A r \in Reasons : Report(p, r) \/ GiveUp(p, r) => Quiet(p)
         /\ \A f \in {"role", "team"} :
              /\ Conflict(p, f, Report(p, "conflict-exhausted")) => Quiet(p)
              /\ Conflict(p, f, Return(p, "nothing")) => Quiet(p)
              /\ \A r \in Reasons : Unsettled(p, f, r) => Quiet(p)
         /\ NotMarked(p) => Quiet(p)
<1>1. loc[p] \in LooseLocals
  BY LocalsOf
<1>2. Return(p, "nothing") \/ Return(p, "saved") => Quiet(p)
  BY ReturnQuiet
<1>3. \A r \in Reasons : Report(p, r) \/ GiveUp(p, r) => Quiet(p)
  BY <1>1, ReportQuiet DEF Report, GiveUp
<1>4. ASSUME NEW f \in {"role", "team"}
      PROVE  /\ Conflict(p, f, Report(p, "conflict-exhausted")) => Quiet(p)
             /\ Conflict(p, f, Return(p, "nothing")) => Quiet(p)
  <2> DEFINE n == loc[p].conflicts[f] + 1
  <2>1. n \in Nat
    BY <1>1 DEF LooseLocals
  <2> HIDE DEF n
  <2>2. [loc[p] EXCEPT !.conflicts[f] = n] \in LooseLocals
    BY <1>1, <2>1, ConflictLocals
  <2>3. Turn(p, [loc[p] EXCEPT !.conflicts[f] = n]) => Quiet(p)
    BY <2>2, TurnQuiet
  <2>4. Report(p, "conflict-exhausted") => Quiet(p)
    BY <1>3 DEF Reasons
  <2> QED
    BY <1>2, <2>3, <2>4 DEF Conflict, n
<1>5. ASSUME NEW f \in {"role", "team"}, NEW r \in Reasons, Unsettled(p, f, r)
      PROVE  Quiet(p)
  <2> DEFINE y == [loc[p] EXCEPT !.phase = f]
             z == [y EXCEPT !.reason = r]
  <2>1. y \in LooseLocals
    BY <1>1, PartLocals
  <2> HIDE DEF y
  <2>2. z \in LooseLocals
    BY <2>1, PartLocals
  <2>3. Goto(p, "settle", z)
    BY <1>5 DEF Unsettled, y
  <2> HIDE DEF z
  <2> QED
    BY <2>2, <2>3, GotoQuiet DEF Labels, Seeing
<1>6. NotMarked(p) => Quiet(p)
  <2>1. Goto(p, "readBack", loc[p]) => Quiet(p)
    BY <1>1, GotoQuiet DEF Labels, Seeing
  <2> QED
    BY <1>2, <2>1 DEF NotMarked
<1> QED
  BY <1>2, <1>3, <1>4, <1>5, <1>6

-----------------------------------------------------------------------------
(* What a step has to show. *)

InflightOK ==
  \A w \in inflight' : w \in inflight \/ (w \in [op : Writes, rev : Revs] /\ WriteNotes(w))

SpentOK == spent' \in [DOMAIN Bounds -> Nat]

StepOK == SaveInv' /\ DocsMove

LEMMA StepKeeps ==
  ASSUME SaveInv, DocsMove, InflightOK, SpentOK,
         pc' \in [Pages -> Labels], loc' \in [Pages -> LooseLocals],
         \A q \in Pages : PageNotes(q)' \/ (pc'[q] = pc[q] /\ loc'[q].seen = loc[q].seen)
  PROVE  StepOK
<1>1. Shape
  BY DEF SaveInv
<1>2. ASSUME NEW q \in Pages PROVE PageNotes(q)'
  <2>1. CASE pc'[q] = pc[q] /\ loc'[q].seen = loc[q].seen
    <3>1. loc[q].seen.roles.rev \in Nat /\ loc[q].seen.teams.rev \in Nat
      BY <1>1 DEF Shape, LooseLocals, RolesDocs, TeamsDocs, Revs
    <3>2. PageNotes(q)
      BY DEF SaveInv
    <3>3. pc[q] \in {"writeRole", "restore"} => RoleNote(loc[q].seen.roles.rev)'
      <4> SUFFICES ASSUME pc[q] \in {"writeRole", "restore"}
                   PROVE  RoleNote(loc[q].seen.roles.rev)'
        OBVIOUS
      <4>1. RoleNote(loc[q].seen.roles.rev)
        BY <3>2 DEF PageNotes
      <4> DEFINE n == loc[q].seen.roles.rev
      <4>2. n <= roles'.rev /\ (n = roles'.rev => roles'.rows = 0)
        BY <1>1, <3>1, <4>1 DEF Shape, DocsMove, RoleNote, RolesDocs, Revs
      <4> QED
        BY <2>1, <4>2 DEF RoleNote
    <3>4. pc[q] = "writeTeam" => TeamNote(loc[q].seen.teams.rev)'
      <4> SUFFICES ASSUME pc[q] = "writeTeam"
                   PROVE  TeamNote(loc[q].seen.teams.rev)'
        OBVIOUS
      <4>1. TeamNote(loc[q].seen.teams.rev)
        BY <3>2 DEF PageNotes
      <4> DEFINE n == loc[q].seen.teams.rev
      <4>2. n <= teams'.rev /\ (n = teams'.rev => teams'.rows = 0)
        BY <1>1, <3>1, <4>1 DEF Shape, DocsMove, TeamNote, TeamsDocs, Revs
      <4> QED
        BY <2>1, <4>2 DEF TeamNote
    <3>5. pc[q] = "remove" => EditNote(loc[q].seen.roles.rev)'
      <4> SUFFICES ASSUME pc[q] = "remove"
                   PROVE  EditNote(loc[q].seen.roles.rev)'
        OBVIOUS
      <4>1. EditNote(loc[q].seen.roles.rev)
        BY <3>2 DEF PageNotes
      <4> DEFINE n == loc[q].seen.roles.rev
      <4>2. n \in Nat /\ EditNote(n)
        BY <3>1, <4>1
      <4> HIDE DEF n
      <4>3. n <= roles'.rev /\ (n = roles'.rev => ~roles'.edited)
        <5>1. CASE roles' = roles
          BY <4>2, <5>1 DEF EditNote
        <5>2. CASE roles'.rev > roles.rev
          BY <1>1, <4>2, <5>2 DEF Shape, DocsMove, EditNote, RolesDocs, Revs
        <5> QED
          BY <5>1, <5>2 DEF DocsMove
      <4> QED
        BY <2>1, <4>3 DEF EditNote, n
    <3> QED
      BY <2>1, <3>3, <3>4, <3>5 DEF PageNotes
  <2> QED
    BY <2>1
<1>3. ASSUME NEW w \in inflight'
      PROVE  w \in [op : Writes, rev : Revs] /\ WriteNotes(w)'
  <2>1. w \in [op : Writes, rev : Revs] /\ WriteNotes(w)
    BY <1>1 DEF InflightOK, SaveInv, Shape
  <2>2. w.rev \in Nat
    BY <2>1 DEF Revs
  <2> QED
    BY <1>1, <2>1, <2>2, NotesStay DEF WriteNotes
<1>4. Shape'
  BY <1>1, <1>3 DEF Shape, DocsMove, SpentOK
<1>5. RowsOnce'
  BY DEF DocsMove, RowsOnce
<1>6. (roles.edited => roles.rows > 0)'
  BY DEF DocsMove
<1> QED
  BY <1>2, <1>3, <1>4, <1>5, <1>6 DEF SaveInv, StepOK

LEMMA QuietKeeps ==
  ASSUME SaveInv, NEW p \in Pages, Quiet(p), DocsMove, InflightOK, SpentOK
  PROVE  StepOK
<1>1. PageNotes(p)'
  BY DEF Quiet, Seeing, PageNotes
<1> QED
  BY <1>1, StepKeeps DEF Quiet, Moves, Others

LEMMA SpendOK ==
  ASSUME Shape
  PROVE  /\ \A b \in DOMAIN Bounds : Spend(b) => SpentOK
         /\ Fault => SpentOK
         /\ UNCHANGED spent => SpentOK
<1>1. ASSUME NEW b \in DOMAIN Bounds, Spend(b) PROVE SpentOK
  BY <1>1 DEF Shape, Spend, SpentOK
<1>2. Fault => SpentOK
  BY <1>1 DEF Fault, Bounds
<1> QED
  BY <1>1, <1>2 DEF Shape, SpentOK

LEMMA ServerKeeps ==
  ASSUME SaveInv, OnServer
  PROVE  DocsMove /\ InflightOK
BY StillMoves DEF OnServer, InflightOK

-----------------------------------------------------------------------------
(* The steps that leave the documents alone and look at nothing. *)

LEMMA StartKeeps ==
  ASSUME SaveInv, NEW p \in Pages, Start(p)
  PROVE  StepOK
<1>1. Shape
  BY DEF SaveInv
<1>2. PICK kind \in {"save", "clean"} :
        Turn(p, [NoLocals EXCEPT !.kind = kind, !.run = spent.runs + 1])
  BY DEF Start
<1>3. spent.runs + 1 \in Nat
  BY <1>1 DEF Shape, Bounds
<1>4. Quiet(p)
  BY <1>1, <1>2, <1>3, StartLocals, TurnQuiet
<1>5. SpentOK
  BY <1>1, SpendOK DEF Start, Bounds
<1> QED
  BY <1>4, <1>5, ServerKeeps, QuietKeeps DEF Start, OnPage

LEMMA PrepareKeeps ==
  ASSUME SaveInv, NEW p \in Pages, Prepare(p)
  PROVE  StepOK
<1>1. Shape
  BY DEF SaveInv
<1> DEFINE f == Flagged(MayGoOn(p), "may") \cup Flagged(Compensates(p), "canceled")
           x == With(p, {"receipt"})
           y == [x EXCEPT !.flag = x.flag \ {"leased"}]
<1>2. f \in SUBSET Flags
  BY DEF Flagged, Flags
<1>3. With(p, f) \in LooseLocals /\ x \in LooseLocals
  BY <1>1, <1>2, LocalsOf DEF Flags
<1>4. y \in LooseLocals
  <2> HIDE DEF x
  <2>1. x.flag \ {"leased"} \in SUBSET Flags
    BY <1>3 DEF LooseLocals
  <2> QED
    BY <1>3, <2>1, FlagLocals
<1>5. SpentOK
  BY <1>1, SpendOK DEF Prepare
<1>6. Quiet(p)
  <2>1. Goto(p, "mark", y) \/ Goto(p, "context", With(p, f)) => Quiet(p)
    BY <1>1, <1>3, <1>4, GotoQuiet DEF Labels, Seeing
  <2>2. Return(p, "nothing") \/ GiveUp(p, "partial") => Quiet(p)
    BY <1>1, EndsQuiet DEF Reasons
  <2> QED
    BY <2>1, <2>2 DEF Prepare
<1> QED
  BY <1>5, <1>6, ServerKeeps, QuietKeeps DEF Prepare, OnPage

LEMMA PrepareContextKeeps ==
  ASSUME SaveInv, NEW p \in Pages, PrepareContext(p)
  PROVE  StepOK
<1>1. Shape
  BY DEF SaveInv
<1> DEFINE x == Without(p, {"may"})
           y == [x EXCEPT !.base = Revisions(Snapshot)]
<1>2. x \in LooseLocals
  BY <1>1, LocalsOf DEF Flags
<1>3. Revisions(Snapshot) \in [roles : Revs, teams : Revs]
  BY <1>1 DEF Shape, Revisions, Snapshot, RolesDocs, TeamsDocs
<1>4. y \in LooseLocals
  <2> HIDE DEF x
  <2> QED
    BY <1>2, <1>3, PartLocals
<1>5. SpentOK
  BY <1>1, SpendOK DEF PrepareContext
<1>6. Quiet(p)
  <2>1. Goto(p, "lease", y) => Quiet(p)
    BY <1>1, <1>4, GotoQuiet DEF Labels, Seeing
  <2>2. GiveUp(p, "partial") => Quiet(p)
    BY <1>1, EndsQuiet DEF Reasons
  <2> QED
    BY <2>1, <2>2 DEF PrepareContext
<1> QED
  BY <1>5, <1>6, ServerKeeps, QuietKeeps DEF PrepareContext

LEMMA PrepareLeaseKeeps ==
  ASSUME SaveInv, NEW p \in Pages, PrepareLease(p)
  PROVE  StepOK
<1>1. Shape
  BY DEF SaveInv
<1> DEFINE x == With(p, {"leased"})
           y == [x EXCEPT !.flag = x.flag \ {"canceled"}]
           z == [y EXCEPT !.stale = 0]
<1>2. x \in LooseLocals
  BY <1>1, LocalsOf DEF Flags
<1>3. y \in LooseLocals
  <2> HIDE DEF x
  <2>1. x.flag \ {"canceled"} \in SUBSET Flags
    BY <1>2 DEF LooseLocals
  <2> QED
    BY <1>2, <2>1, FlagLocals
<1>4. z \in LooseLocals
  <2> HIDE DEF y
  <2> QED
    BY <1>3, PartLocals
<1>5. Goto(p, "fresh", z) \/ Stale(p, y) => Quiet(p)
  <2> HIDE DEF y, z
  <2> QED
    BY <1>1, <1>3, <1>4, GotoQuiet, StaleQuiet DEF Labels, Seeing
<1>6. Return(p, "nothing") \/ GiveUp(p, "partial") => Quiet(p)
  BY <1>1, EndsQuiet DEF Reasons
<1>7. Quiet(p)
  BY <1>5, <1>6 DEF PrepareLease, Update
<1>8. SpentOK
  BY <1>1, SpendOK DEF PrepareLease, Update
<1>9. OnServer \/ UNCHANGED <<docs, inflight>>
  BY DEF PrepareLease
<1>10. DocsMove /\ InflightOK
  BY <1>9, ServerKeeps, StillMoves DEF InflightOK
<1> QED
  BY <1>7, <1>8, <1>10, QuietKeeps

LEMMA SettleKeeps ==
  ASSUME SaveInv, NEW p \in Pages, Settle(p)
  PROVE  StepOK
<1>1. Shape
  BY DEF SaveInv
<1>2. loc[p] \in LooseLocals /\ loc[p].reason \in Reasons
  BY <1>1, LocalsOf DEF LooseLocals
<1>3. Goto(p, "mark", loc[p]) => Quiet(p)
  BY <1>1, <1>2, GotoQuiet DEF Labels, Seeing
<1>4. Return(p, "nothing") \/ Report(p, loc[p].reason) => Quiet(p)
  BY <1>1, <1>2, EndsQuiet
<1>5. Quiet(p)
  BY <1>3, <1>4 DEF Settle
<1>6. SpentOK
  BY <1>1, SpendOK DEF Settle
<1> QED
  BY <1>5, <1>6, ServerKeeps, QuietKeeps DEF Settle, OnPage

LEMMA MarkKeeps ==
  ASSUME SaveInv, NEW p \in Pages,
         Mark(p) \/ MarkWrite(p) \/ MarkClear(p) \/ ReadBack(p)
  PROVE  StepOK
<1>1. Shape
  BY DEF SaveInv
<1> DEFINE f == Flagged(job.outcomeUnknown \/ job.saveState = "unknown", "unsure")
<1>2. f \in SUBSET Flags
  BY DEF Flagged, Flags
<1>3. With(p, f) \in LooseLocals /\ With(p, {"second"}) \in LooseLocals
  BY <1>1, <1>2, LocalsOf DEF Flags
<1>4. Goto(p, "markContext", With(p, f)) \/ Goto(p, "mark", With(p, {"second"})) => Quiet(p)
  BY <1>1, <1>3, GotoQuiet DEF Labels, Seeing
<1>5. Return(p, "nothing") \/ Return(p, "saved") \/ NotMarked(p) => Quiet(p)
  BY <1>1, EndsQuiet
<1>6. Quiet(p)
  BY <1>4, <1>5 DEF Mark, MarkWrite, MarkClear, ReadBack, Update
<1>7. SpentOK
  BY <1>1, SpendOK DEF Mark, MarkWrite, MarkClear, ReadBack
<1>8. OnServer
  BY DEF Mark, MarkWrite, MarkClear, ReadBack, OnPage
<1> QED
  BY <1>6, <1>7, <1>8, ServerKeeps, QuietKeeps

LEMMA FailureKeeps ==
  ASSUME SaveInv, NEW p \in Pages, ReportFailure(p) \/ WriteFailure(p)
  PROVE  StepOK
<1>1. Shape
  BY DEF SaveInv
<1> DEFINE f == Flagged(job.cancelRequested \/ loc[p].reason = "compensated", "canceled")
<1>2. f \in SUBSET Flags
  BY DEF Flagged, Flags
<1>3. With(p, f) \in LooseLocals
  BY <1>1, <1>2, LocalsOf
<1>4. Goto(p, "reporting", With(p, f)) => Quiet(p)
  BY <1>1, <1>3, GotoQuiet DEF Labels, Seeing
<1>5. Return(p, "nothing") => Quiet(p)
  BY <1>1, EndsQuiet
<1>6. Quiet(p)
  BY <1>4, <1>5 DEF ReportFailure, WriteFailure, Update
<1>7. SpentOK
  BY <1>1, SpendOK DEF ReportFailure, WriteFailure
<1>8. OnServer
  BY DEF ReportFailure, WriteFailure, OnPage
<1> QED
  BY <1>6, <1>7, <1>8, ServerKeeps, QuietKeeps

-----------------------------------------------------------------------------
(* The steps that look at the documents: who goes on to add a row has seen  *)
(* that it is missing, and the revision is the document's.                  *)

LEMMA SeenNow ==
  ASSUME Shape
  PROVE  /\ Snapshot \in [roles : RolesDocs, teams : TeamsDocs]
         /\ roles.rows = 0 => RoleNote(Snapshot.roles.rev)
         /\ teams.rows = 0 => TeamNote(Snapshot.teams.rev)
         /\ ~roles.edited => EditNote(Snapshot.roles.rev)
BY DEF Shape, Snapshot, RoleNote, TeamNote, EditNote, RolesDocs, TeamsDocs, Revs

(* A page goes on with what it saw. *)
LEMMA LookKeeps ==
  ASSUME SaveInv, NEW p \in Pages, NEW x \in LooseLocals, NEW l \in Seeing,
         Goto(p, l, [x EXCEPT !.seen = Snapshot]), UNCHANGED docs, InflightOK, SpentOK,
         l \in {"writeRole", "restore"} => roles.rows = 0,
         l = "writeTeam" => teams.rows = 0,
         l = "remove" => ~roles.edited
  PROVE  StepOK
<1>1. Shape
  BY DEF SaveInv
<1> DEFINE y == [x EXCEPT !.seen = Snapshot]
<1>2. y \in LooseLocals /\ y.seen = Snapshot
  BY <1>1, SeenNow, SeenLocals
<1> HIDE DEF y
<1>3. Goto(p, l, y)
  BY DEF y
<1>4. Moves(p) /\ pc'[p] = l /\ loc'[p].seen = Snapshot
  <2>1. l \in Labels
    BY DEF Seeing, Labels
  <2> QED
    BY <1>1, <1>2, <1>3, <2>1, GotoMoves
<1>5. PageNotes(p)'
  <2>1. roles' = roles /\ teams' = teams
    BY DEF docs
  <2>2. pc'[p] \in {"writeRole", "restore"} => RoleNote(Snapshot.roles.rev)
    BY <1>1, <1>4, SeenNow
  <2>3. pc'[p] = "writeTeam" => TeamNote(Snapshot.teams.rev)
    BY <1>1, <1>4, SeenNow
  <2>4. pc'[p] = "remove" => EditNote(Snapshot.roles.rev)
    BY <1>1, <1>4, SeenNow
  <2> QED
    BY <1>4, <2>1, <2>2, <2>3, <2>4 DEF PageNotes, RoleNote, TeamNote, EditNote
<1>6. DocsMove
  BY StillMoves
<1> QED
  BY <1>4, <1>5, <1>6, StepKeeps DEF Moves, Others

LEMMA MarkContextKeeps ==
  ASSUME SaveInv, NEW p \in Pages, MarkContext(p)
  PROVE  StepOK
<1>1. Shape
  BY DEF SaveInv
<1> DEFINE x == Without(p, {"unsure"})
<1>2. x \in LooseLocals
  BY <1>1, LocalsOf DEF Flags
<1> HIDE DEF x
<1>3. OnServer /\ SpentOK
  BY <1>1, SpendOK DEF MarkContext, OnPage
<1>4. DocsMove /\ InflightOK /\ UNCHANGED docs
  BY <1>3, ServerKeeps DEF OnServer
<1>5. CASE Goto(p, "clearing", [x EXCEPT !.seen = Snapshot])
  BY <1>2, <1>3, <1>4, <1>5, LookKeeps DEF Seeing
<1>6. CASE Goto(p, "marking", x) \/ NotMarked(p)
  <2>1. Quiet(p)
    BY <1>1, <1>2, <1>6, GotoQuiet, EndsQuiet DEF Labels, Seeing
  <2> QED
    BY <1>3, <1>4, <2>1, QuietKeeps
<1> QED
  BY <1>5, <1>6 DEF MarkContext, x

LEMMA FreshKeeps ==
  ASSUME SaveInv, NEW p \in Pages, Fresh(p)
  PROVE  StepOK
<1>1. Shape
  BY DEF SaveInv
<1> DEFINE local == [loc[p] EXCEPT !.seen = Snapshot]
           phase == IF Is(p, "committed") THEN "team" ELSE "role"
           next  == Merge(loc[p].base, Snapshot)
<1>2. loc[p] \in LooseLocals
  BY <1>1, LocalsOf
<1>3. OnServer /\ SpentOK
  BY <1>1, SpendOK DEF Fresh, OnPage
<1>4. DocsMove /\ InflightOK /\ UNCHANGED docs
  BY <1>3, ServerKeeps DEF OnServer
<1>5. roles.rows \in Nat /\ teams.rows \in Nat
  BY <1>1 DEF Shape, RolesDocs, TeamsDocs
<1>6. /\ next \in {"conflict", "blocked", "already-saved", "writeRole", "writeTeam"}
      /\ next = "writeRole" => roles.rows = 0
      /\ next = "writeTeam" => teams.rows = 0
  BY <1>5 DEF Merge, Snapshot
<1>7. /\ phase \in {"role", "team"}
      /\ {"conflict-exhausted", "partial", "compensated"} \subseteq Reasons
  BY DEF Reasons
<1>8. Conflict(p, phase, Report(p, "conflict-exhausted")) => Quiet(p)
  <2> HIDE DEF phase
  <2> QED
    BY <1>1, <1>7, EndsQuiet
<1>9. Conflict(p, phase, Return(p, "nothing")) => Quiet(p)
  <2> HIDE DEF phase
  <2> QED
    BY <1>1, <1>7, EndsQuiet
<1>10. GiveUp(p, "partial") \/ Report(p, "compensated") \/ Return(p, "nothing") => Quiet(p)
  BY <1>1, <1>7, EndsQuiet
<1>11. Goto(p, "mark", local) => Quiet(p)
  <2>1. local \in LooseLocals
    BY <1>1, <1>2, SeenNow, SeenLocals
  <2> HIDE DEF local
  <2> QED
    BY <1>1, <2>1, GotoQuiet DEF Labels, Seeing
<1>12. CASE Quiet(p)
  BY <1>3, <1>4, <1>12, QuietKeeps
<1>13. CASE next \in {"writeRole", "writeTeam"} /\ Goto(p, next, local)
  <2> HIDE DEF next
  <2>1. next \in Seeing
    BY <1>13 DEF Seeing
  <2>2. /\ next \in {"writeRole", "restore"} => roles.rows = 0
        /\ next = "writeTeam" => teams.rows = 0
    BY <1>6, <1>13
  <2> QED
    BY <1>2, <1>3, <1>4, <1>13, <2>1, <2>2, LookKeeps
<1>14. CASE Removable(Snapshot) /\ Goto(p, "remove", local)
  <2>1. ~roles.edited
    BY <1>14 DEF Removable, Snapshot
  <2> QED
    BY <1>2, <1>3, <1>4, <1>14, <2>1, LookKeeps DEF Seeing
<1>15. \/ Fault /\ GiveUp(p, "partial")
       \/ IF loc[p].kind = "save"
            THEN CASE next = "conflict"      -> Conflict(p, phase, Report(p, "conflict-exhausted"))
                   [] next = "blocked"       -> GiveUp(p, "partial")
                   [] next = "already-saved" -> Goto(p, "mark", local)
                   [] OTHER                  -> Goto(p, next, local)
            ELSE IF next = "conflict" THEN Conflict(p, phase, Return(p, "nothing"))
            ELSE IF Check(Snapshot) \in {"committed", "conflict"} THEN Return(p, "nothing")
            ELSE IF Removable(Snapshot) THEN Goto(p, "remove", local)
            ELSE IF roles.rows = 0 THEN Report(p, "compensated")
            ELSE Return(p, "nothing")
  BY DEF Fresh
<1> HIDE DEF next, phase, local
<1> QED
  BY <1>6, <1>8, <1>9, <1>10, <1>11, <1>12, <1>13, <1>14, <1>15

LEMMA AfterKeeps ==
  ASSUME SaveInv, NEW p \in Pages, After(p)
  PROVE  StepOK
<1>1. Shape
  BY DEF SaveInv
<1>2. loc[p] \in LooseLocals /\ loc[p].reason \in Reasons
  BY <1>1, LocalsOf DEF LooseLocals
<1>3. OnServer /\ SpentOK
  BY <1>1, SpendOK DEF After, OnPage
<1>4. DocsMove /\ InflightOK /\ UNCHANGED docs
  BY <1>3, ServerKeeps DEF OnServer
<1>5. CASE roles.rows = 0 /\ Goto(p, "restore", [loc[p] EXCEPT !.seen = Snapshot])
  BY <1>2, <1>3, <1>4, <1>5, LookKeeps DEF Seeing
<1>6. CASE \/ Report(p, loc[p].reason) \/ Report(p, "compensated")
           \/ Report(p, "partial") \/ Report(p, "unknown")
  <2>1. {"compensated", "partial", "unknown"} \subseteq Reasons
    BY DEF Reasons
  <2>2. Quiet(p)
    BY <1>1, <1>2, <1>6, <2>1, EndsQuiet
  <2> QED
    BY <1>3, <1>4, <2>2, QuietKeeps
<1> QED
  BY <1>5, <1>6 DEF After

-----------------------------------------------------------------------------
(* The writes, the ones that land late, and the users. *)

LEMMA WriteMoves ==
  ASSUME SaveInv, NEW op \in Writes, NEW rev \in Revs,
         WriteNotes([op |-> op, rev |-> rev]),
         Write(op, rev, TRUE, TRUE, TRUE, TRUE)
  PROVE  DocsMove /\ InflightOK /\ SpentOK
<1>1. Shape
  BY DEF SaveInv
<1> DEFINE w == [op |-> op, rev |-> rev]
<1>2. w \in [op : Writes, rev : Revs] /\ WriteNotes(w)
  OBVIOUS
<1> HIDE DEF w
<1>3. Fits(op, rev) /\ Apply(op) => DocsMove
  BY ApplyMoves DEF Revs
<1>4. UNCHANGED docs => DocsMove
  BY StillMoves
<1>5. inflight' = inflight \/ inflight' = inflight \cup {w}
  BY DEF Write, w
<1>6. InflightOK
  BY <1>2, <1>5 DEF InflightOK
<1>7. DocsMove
  BY <1>3, <1>4 DEF Write
<1>8. SpentOK
  BY <1>1, SpendOK DEF Write
<1> QED
  BY <1>6, <1>7, <1>8

LEMMA AddKeeps ==
  ASSUME SaveInv, NEW p \in Pages, WriteRole(p) \/ WriteTeam(p) \/ Restore(p)
  PROVE  StepOK
<1>1. Shape
  BY DEF SaveInv
<1>2. loc[p] \in LooseLocals
  BY <1>1, LocalsOf
<1>3. loc[p].seen.roles.rev \in Revs /\ loc[p].seen.teams.rev \in Revs
  BY <1>2 DEF LooseLocals, RolesDocs, TeamsDocs
<1>4. PageNotes(p)
  BY DEF SaveInv
<1>5. With(p, {"committed"}) \in LooseLocals
  BY <1>1, LocalsOf DEF Flags
<1>6. Turn(p, With(p, {"committed"})) \/ Turn(p, loc[p]) => Quiet(p)
  BY <1>1, <1>2, <1>5, TurnQuiet
<1>7. /\ \A f \in {"role", "team"} :
           /\ Conflict(p, f, Report(p, "conflict-exhausted")) => Quiet(p)
           /\ Unsettled(p, f, "write-failed") \/ Unsettled(p, f, "unknown") => Quiet(p)
      /\ Report(p, "partial") \/ Report(p, "unknown") \/ GiveUp(p, "canceled") => Quiet(p)
  BY <1>1, EndsQuiet DEF Reasons
<1>8. Goto(p, "mark", loc[p]) => Quiet(p)
  BY <1>1, <1>2, GotoQuiet DEF Labels, Seeing
<1>9. Quiet(p)
  <2>1. CASE WriteRole(p)
    BY <1>6, <1>7, <2>1 DEF WriteRole, Hesitates, Write
  <2>2. CASE WriteTeam(p)
    BY <1>6, <1>7, <1>8, <2>2 DEF WriteTeam, Hesitates, Write
  <2>3. CASE Restore(p)
    BY <1>7, <2>3 DEF Restore, Write
  <2> QED
    BY <2>1, <2>2, <2>3
<1>10. CASE Hesitates(p)
  BY <1>1, <1>9, <1>10, StillMoves, SpendOK, QuietKeeps DEF Hesitates, InflightOK
<1>11. CASE /\ pc[p] \in {"writeRole", "restore"}
            /\ Write("addRole", loc[p].seen.roles.rev, TRUE, TRUE, TRUE, TRUE)
  <2>1. WriteNotes([op |-> "addRole", rev |-> loc[p].seen.roles.rev])
    BY <1>4, <1>11 DEF PageNotes, WriteNotes
  <2>2. DocsMove /\ InflightOK /\ SpentOK
    BY <1>3, <1>11, <2>1, WriteMoves DEF Writes
  <2> QED
    BY <1>9, <2>2, QuietKeeps
<1>12. CASE /\ pc[p] = "writeTeam"
            /\ Write("addTeam", loc[p].seen.teams.rev, TRUE, TRUE, TRUE, TRUE)
  <2>1. WriteNotes([op |-> "addTeam", rev |-> loc[p].seen.teams.rev])
    BY <1>4, <1>12 DEF PageNotes, WriteNotes
  <2>2. DocsMove /\ InflightOK /\ SpentOK
    BY <1>3, <1>12, <2>1, WriteMoves DEF Writes
  <2> QED
    BY <1>9, <2>2, QuietKeeps
<1> QED
  <2>1. CASE WriteRole(p)
    BY <1>10, <1>11, <2>1 DEF WriteRole, At, Write
  <2>2. CASE WriteTeam(p)
    BY <1>10, <1>12, <2>2 DEF WriteTeam, At, Write
  <2>3. CASE Restore(p)
    BY <1>11, <2>3 DEF Restore, At, Write
  <2> QED
    BY <2>1, <2>2, <2>3

LEMMA RemoveKeeps ==
  ASSUME SaveInv, NEW p \in Pages, RemoveRole(p)
  PROVE  StepOK
<1>1. Shape
  BY DEF SaveInv
<1>2. loc[p] \in LooseLocals
  BY <1>1, LocalsOf
<1>3. loc[p].seen.roles.rev \in Revs
  BY <1>2 DEF LooseLocals, RolesDocs
<1>4. \A r \in Reasons : Goto(p, "after", [loc[p] EXCEPT !.reason = r]) => Quiet(p)
  BY <1>1, <1>2, PartLocals, GotoQuiet DEF Labels, Seeing
<1>5. /\ Conflict(p, "role", Report(p, "conflict-exhausted")) => Quiet(p)
      /\ Return(p, "nothing") => Quiet(p)
  BY <1>1, EndsQuiet
<1>6. Stale(p, loc[p]) => Quiet(p)
  BY <1>1, <1>2, StaleQuiet
<1>7. {"none", "write-failed", "unknown"} \subseteq Reasons
  BY DEF Reasons
<1>8. Quiet(p)
  BY <1>4, <1>5, <1>6, <1>7 DEF RemoveRole, Write
<1>9. CASE UNCHANGED <<docs, inflight, spent>>
  BY <1>1, <1>8, <1>9, StillMoves, SpendOK, QuietKeeps DEF InflightOK
<1>10. CASE /\ pc[p] = "remove"
            /\ Write("removeRole", loc[p].seen.roles.rev, TRUE, TRUE, TRUE, TRUE)
  <2>1. WriteNotes([op |-> "removeRole", rev |-> loc[p].seen.roles.rev])
    BY <1>10 DEF SaveInv, PageNotes, WriteNotes
  <2>2. DocsMove /\ InflightOK /\ SpentOK
    BY <1>3, <1>10, <2>1, WriteMoves DEF Writes
  <2> QED
    BY <1>8, <2>2, QuietKeeps
<1> QED
  BY <1>9, <1>10 DEF RemoveRole, At, Write

(* A step of no page's run. *)
LEMMA WorldKeeps ==
  ASSUME SaveInv, UNCHANGED <<pc, loc>>, DocsMove, InflightOK, SpentOK
  PROVE  StepOK
BY StepKeeps DEF SaveInv, Shape

LEMMA LandsKeeps ==
  ASSUME SaveInv, Lands
  PROVE  StepOK
<1>1. PICK w \in inflight :
        /\ inflight' = inflight \ {w}
        /\ IF Fits(w.op, w.rev) THEN Apply(w.op) ELSE UNCHANGED docs
        /\ UNCHANGED <<control, spent>>
  BY DEF Lands
<1>2. Shape
  BY DEF SaveInv
<1>3. w \in [op : Writes, rev : Revs] /\ WriteNotes(w)
  BY <1>2 DEF SaveInv, Shape
<1>4. w.op \in Writes /\ w.rev \in Nat /\ WriteNotes([op |-> w.op, rev |-> w.rev])
  BY <1>3 DEF WriteNotes, Revs
<1>5. DocsMove
  BY <1>1, <1>4, ApplyMoves, StillMoves
<1>6. InflightOK /\ SpentOK
  BY <1>1, <1>2, SpendOK DEF InflightOK
<1> QED
  BY <1>1, <1>5, <1>6, WorldKeeps DEF control

LEMMA UserKeeps ==
  ASSUME SaveInv, UserEdits
  PROVE  StepOK
<1>1. Shape
  BY DEF SaveInv
<1>2. /\ roles \in RolesDocs /\ teams \in TeamsDocs
      /\ roles.rows <= 1 /\ teams.rows <= 1 /\ (roles.edited => roles.rows > 0)
  BY DEF SaveInv, Shape, RowsOnce
<1>3. roles.rev \in Nat /\ teams.rev \in Nat
  BY <1>2 DEF RolesDocs, TeamsDocs, Revs
<1>4. ASSUME NEW b \in BOOLEAN, b => roles.rows > 0,
             roles' = [roles EXCEPT !.edited = b, !.rev = @ + 1], UNCHANGED teams
      PROVE  DocsMove
  <2> DEFINE d == [roles EXCEPT !.edited = b]
  <2>1. d \in RolesDocs /\ d.rows = roles.rows /\ d.edited = b
    BY <1>2 DEF RolesDocs
  <2>2. roles' = [d EXCEPT !.rev = roles.rev + 1]
    BY <1>4
  <2> HIDE DEF d
  <2>3. /\ roles' \in RolesDocs /\ roles'.rows = roles.rows /\ roles'.rev = roles.rev + 1
        /\ roles'.edited = b
    BY <1>3, <2>1, <2>2 DEF RolesDocs, Revs
  <2> QED
    BY <1>2, <1>3, <1>4, <2>3 DEF DocsMove
<1>5. ASSUME teams' = [teams EXCEPT !.refs = ~@, !.rev = @ + 1], UNCHANGED roles
      PROVE  DocsMove
  <2> DEFINE d == [teams EXCEPT !.refs = ~@]
  <2>1. d \in TeamsDocs /\ d.rows = teams.rows
    BY <1>2 DEF TeamsDocs
  <2>2. teams' = [d EXCEPT !.rev = teams.rev + 1]
    BY <1>5
  <2> HIDE DEF d
  <2>3. teams' \in TeamsDocs /\ teams'.rows = teams.rows /\ teams'.rev = teams.rev + 1
    BY <1>3, <2>1, <2>2 DEF TeamsDocs, Revs
  <2> QED
    BY <1>2, <1>3, <1>5, <2>3 DEF DocsMove
<1>6. ASSUME roles' = [rows |-> 0, edited |-> FALSE, rev |-> roles.rev + 1],
             UNCHANGED teams, removed'
      PROVE  DocsMove
  <2>1. /\ roles' \in RolesDocs /\ roles'.rows = 0 /\ roles'.rev = roles.rev + 1
        /\ ~roles'.edited
    BY <1>3, <1>6 DEF RolesDocs, Revs
  <2> QED
    BY <1>2, <1>3, <1>6, <2>1 DEF DocsMove
<1>7. ASSUME teams' = [teams EXCEPT !.rows = 0, !.rev = @ + 1], UNCHANGED roles
      PROVE  DocsMove
  <2> DEFINE d == [teams EXCEPT !.rows = 0]
  <2>1. d \in TeamsDocs /\ d.rows = 0
    BY <1>2 DEF TeamsDocs
  <2>2. teams' = [d EXCEPT !.rev = teams.rev + 1]
    BY <1>7
  <2> HIDE DEF d
  <2>3. teams' \in TeamsDocs /\ teams'.rows = 0 /\ teams'.rev = teams.rev + 1
    BY <1>3, <2>1, <2>2 DEF TeamsDocs, Revs
  <2> QED
    BY <1>2, <1>3, <1>7, <2>3 DEF DocsMove
<1>8. DocsMove
  <2>1. PICK e \in Edits :
          \/ /\ e = "edit" => roles.rows > 0
             /\ roles' = [roles EXCEPT !.edited = @ \/ e = "edit", !.rev = @ + 1]
             /\ UNCHANGED teams
          \/ teams' = [teams EXCEPT !.refs = ~@, !.rev = @ + 1] /\ UNCHANGED roles
          \/ /\ roles' = [rows |-> 0, edited |-> FALSE, rev |-> roles.rev + 1]
             /\ UNCHANGED teams /\ removed'
          \/ teams' = [teams EXCEPT !.rows = 0, !.rev = @ + 1] /\ UNCHANGED roles
    BY DEF UserEdits
  <2> DEFINE b == roles.edited \/ e = "edit"
  <2>2. b \in BOOLEAN /\ ((e = "edit" => roles.rows > 0) => (b => roles.rows > 0))
    BY <1>2
  <2> HIDE DEF b
  <2>3. CASE /\ e = "edit" => roles.rows > 0
             /\ roles' = [roles EXCEPT !.edited = b, !.rev = @ + 1]
             /\ UNCHANGED teams
    BY <1>4, <2>2, <2>3
  <2> QED
    BY <1>5, <1>6, <1>7, <2>1, <2>3 DEF b
<1>9. InflightOK /\ SpentOK
  BY <1>1, SpendOK DEF UserEdits, InflightOK, Bounds
<1> QED
  BY <1>8, <1>9, WorldKeeps DEF UserEdits, control

(* The abort signal is a flag of the run, which keeps what it has seen. *)
LEMMA CancelKeeps ==
  ASSUME SaveInv, NEW p \in Pages, Cancel(p)
  PROVE  StepOK
<1>1. Shape
  BY DEF SaveInv
<1> DEFINE f == IF At(p, "idle") THEN loc[p].flag ELSE loc[p].flag \cup {"aborted"}
           x == [loc[p] EXCEPT !.flag = f]
<1>2. loc[p] \in LooseLocals
  BY <1>1, LocalsOf
<1>3. f \in SUBSET Flags
  BY <1>2 DEF LooseLocals, Flags
<1>4. loc' = [loc EXCEPT ![p] = x]
  BY DEF Cancel
<1> HIDE DEF f
<1>5. x \in LooseLocals /\ x.seen = loc[p].seen
  BY <1>2, <1>3 DEF LooseLocals
<1> HIDE DEF x
<1>6. /\ loc' \in [Pages -> LooseLocals]
      /\ \A q \in Pages : loc'[q].seen = loc[q].seen
  BY <1>1, <1>4, <1>5 DEF Shape
<1>7. pc' = pc /\ UNCHANGED docs /\ InflightOK /\ SpentOK
  BY <1>1, SpendOK DEF Cancel, InflightOK, Bounds
<1> QED
  BY <1>1, <1>6, <1>7, StillMoves, StepKeeps DEF Shape

-----------------------------------------------------------------------------
(* The theorems. *)

LEMMA InitSave == Init => SaveInv
<1> SUFFICES ASSUME Init PROVE SaveInv
  OBVIOUS
<1>1. /\ roles = [rows |-> 0, edited |-> FALSE, rev |-> 0]
      /\ teams = [rows |-> 0, refs |-> FALSE, rev |-> 0]
      /\ inflight = {} /\ loc = [p \in Pages |-> NoLocals]
      /\ spent = [b \in DOMAIN Bounds |-> 0]
  BY DEF Init, NoDocs
<1>2. pc \in [Pages -> Labels] /\ \A p \in Pages : pc[p] \in {"idle", "closed"}
  BY DEF Init, Labels
<1>3. roles \in RolesDocs /\ teams \in TeamsDocs
  BY <1>1 DEF RolesDocs, TeamsDocs, Revs
<1>4. loc \in [Pages -> LooseLocals]
  BY <1>1, InitLocals
<1>5. Shape /\ RowsOnce
  BY <1>1, <1>2, <1>3, <1>4 DEF Shape, RowsOnce
<1>6. \A p \in Pages : PageNotes(p)
  BY <1>2 DEF PageNotes
<1> QED
  BY <1>1, <1>5, <1>6 DEF SaveInv

LEMMA NextSave == SaveInv /\ [Next]_vars => StepOK
<1> SUFFICES ASSUME SaveInv, [Next]_vars PROVE StepOK
  OBVIOUS
<1>1. Shape
  BY DEF SaveInv
<1>2. ASSUME NEW p \in Pages, Start(p) PROVE StepOK
  BY <1>2, StartKeeps
<1>3. ASSUME NEW p \in Pages, PageStep(p) PROVE StepOK
  BY <1>3, PrepareKeeps, PrepareContextKeeps, PrepareLeaseKeeps, FreshKeeps, AddKeeps,
     SettleKeeps, MarkKeeps, MarkContextKeeps, FailureKeeps, RemoveKeeps, AfterKeeps
     DEF PageStep
<1>4. ASSUME NEW p \in Pages, Cancel(p) PROVE StepOK
  BY <1>4, CancelKeeps
<1>5. CASE Archive \/ CancelEnds \/ LeaseExpires \/ UNCHANGED vars
  <2>1. UNCHANGED <<pc, loc>> /\ UNCHANGED docs /\ UNCHANGED inflight
    BY <1>5 DEF Archive, CancelEnds, LeaseExpires, vars, control
  <2>2. SpentOK
    BY <1>1, <1>5, SpendOK DEF Archive, CancelEnds, LeaseExpires, vars
  <2> QED
    BY <2>1, <2>2, StillMoves, WorldKeeps DEF InflightOK
<1>6. CASE Lands
  BY <1>6, LandsKeeps
<1>7. CASE UserEdits
  BY <1>7, UserKeeps
<1> QED
  BY <1>2, <1>3, <1>4, <1>5, <1>6, <1>7 DEF Next

(* However many pages save, retry and compensate, whatever users edit and  *)
(* whatever lands late: the documents hold the design's Role once and its  *)
(* Team once at most (mergeDesign, the revisions of the writes).           *)
THEOREM RowsOnceHolds == Spec => []RowsOnce
<1>1. SaveInv => RowsOnce
  BY DEF SaveInv
<1>2. SaveInv /\ [Next]_vars => SaveInv'
  BY NextSave DEF StepOK
<1> QED
  BY <1>1, <1>2, InitSave, PTL DEF Spec

(* A page never removes a Role that a user has edited, even if the edit    *)
(* falls between its look at the documents and its write                   *)
(* (planDesignCompensation and the revision of the write).                 *)
THEOREM EditedKeptHolds == Spec => EditedKept
<1>1. SaveInv /\ [Next]_vars => SaveInv'
  BY NextSave DEF StepOK
<1>2. SaveInv /\ [Next]_vars => [roles.edited => roles'.rows > 0 \/ removed']_vars
  BY NextSave DEF StepOK, DocsMove
<1> QED
  BY <1>1, <1>2, InitSave, PTL DEF Spec, EditedKept

-----------------------------------------------------------------------------
(* A saved design is whole.  Only a page with a lease writes, and as long as *)
(* no two leased runs overlap there is one of them.  A page that comes to    *)
(* mark the job has seen the Team and its Role while it held the lease, so   *)
(* nobody else was about to remove the Role; and once both are there, nobody *)
(* finds the Role removable any more.                                        *)

Leased(p) == "leased" \in loc[p].flag

Whole == roles.rows = 1 /\ teams.rows = 1

(* The steps of the receipt, and those of a run that has a lease. *)
Receipt == {"mark", "markContext", "marking", "clearing", "readBack"}
Leasing == {"fresh", "writeRole", "writeTeam", "settle", "remove"}

(* Page p answers for the design: it told its user, is about to store the   *)
(* receipt, or has come to the receipt from a job that was saved.           *)
Answers(p) ==
  \/ told[p] = "saved" \/ pc[p] = "marking"
  \/ pc[p] \in Receipt /\ ~Leased(p)

Vouched == job.state = "saved" \/ \E p \in Pages : Answers(p)

WholeInv ==
  /\ "state" \in DOMAIN job /\ told \in [Pages -> {"nothing", "saved"}]
  /\ \A w \in inflight : w.op # "removeRole"
  /\ \A p \in Pages : pc[p] \in Leasing => Leased(p)
  /\ ~overlapped => \A p, q \in Pages : Leased(p) /\ Leased(q) => p = q
  /\ ~removed /\ ~overlapped /\ Vouched => Whole /\ \A p \in Pages : pc[p] # "remove"

(* A step of page p that leaves the other pages alone. *)
Alone(p) ==
  /\ Others(p) /\ told' \in [Pages -> {"nothing", "saved"}]
  /\ \A q \in Pages \ {p} : told'[q] = told[q]

LEMMA StepWhole ==
  ASSUME WholeInv, NEW p \in Pages, Alone(p),
         "state" \in DOMAIN job', \A w \in inflight' : w.op # "removeRole",
         overlapped => overlapped', removed => removed',
         pc'[p] \in Leasing => Leased(p)',
         Leased(p)' => Leased(p) \/ overlapped' \/ \A q \in Pages \ {p} : ~Leased(q),
         pc'[p] = "remove" => ~Whole,
         Answers(p)' => \/ Answers(p) \/ job.state = "saved"
                        \/ Leased(p) /\ Whole /\ pc[p] # "remove",
         job'.state = "saved" => job.state = "saved" \/ Answers(p),
         Whole => Whole' \/ removed' \/ pc[p] = "remove"
  PROVE  WholeInv'
<1>1. ASSUME NEW q \in Pages \ {p}
      PROVE  /\ pc'[q] = pc[q] /\ loc'[q] = loc[q] /\ told'[q] = told[q]
             /\ (Leased(q)' <=> Leased(q)) /\ (Answers(q)' <=> Answers(q))
  BY DEF Alone, Others, Leased, Answers
<1>2. ASSUME NEW q \in Pages, pc'[q] \in Leasing PROVE Leased(q)'
  BY <1>1, <1>2 DEF WholeInv
<1>3. ASSUME ~overlapped', NEW q \in Pages, NEW r \in Pages, Leased(q)', Leased(r)'
      PROVE  q = r
  BY <1>1, <1>3 DEF WholeInv
<1>4. ASSUME ~removed', ~overlapped', Vouched'
      PROVE  Whole' /\ \A q \in Pages : pc'[q] # "remove"
  <2>1. ~removed /\ ~overlapped
    BY <1>4
  <2>2. CASE Vouched
    <3>1. Whole /\ \A q \in Pages : pc[q] # "remove"
      BY <2>1, <2>2 DEF WholeInv
    <3> QED
      BY <1>1, <1>4, <3>1
  <2>3. CASE ~Vouched
    <3>1. job.state # "saved" /\ \A q \in Pages : ~Answers(q)
      BY <2>3 DEF Vouched
    <3>2. Answers(p)'
      BY <1>1, <1>4, <3>1 DEF Vouched
    <3>3. Leased(p) /\ Whole /\ pc[p] # "remove"
      BY <3>1, <3>2
    <3>4. \A q \in Pages \ {p} : ~Leased(q)
      BY <2>1, <3>3 DEF WholeInv
    <3>5. \A q \in Pages \ {p} : pc[q] # "remove"
      BY <3>4 DEF WholeInv, Leasing
    <3> QED
      BY <1>1, <1>4, <3>3, <3>5
  <2> QED
    BY <2>2, <2>3
<1>5. told' \in [Pages -> {"nothing", "saved"}]
  BY DEF Alone
<1> QED
  BY <1>2, <1>3, <1>4, <1>5 DEF WholeInv

(* What becomes of the flags. *)
LEMMA SameFlags ==
  ASSUME NEW x \in LooseLocals
  PROVE  /\ \A v : [x EXCEPT !.reason = v].flag = x.flag
         /\ \A v : [x EXCEPT !.phase = v].flag = x.flag
         /\ \A v : [x EXCEPT !.steps = v].flag = x.flag
         /\ \A v : [x EXCEPT !.stale = v].flag = x.flag
         /\ \A v : [x EXCEPT !.base = v].flag = x.flag
         /\ \A v : [x EXCEPT !.seen = v].flag = x.flag
         /\ \A f, v : [x EXCEPT !.conflicts[f] = v].flag = x.flag
         /\ \A v : [x EXCEPT !.flag = v].flag = v
BY DEF LooseLocals

LEMMA KeptFlag ==
  ASSUME NEW x \in LooseLocals, NEW l
  PROVE  Kept(l, x).flag = x.flag
<1> DEFINE b == IF l \in {"lease", "fresh"} THEN x.base ELSE NoLocals.base
           s == IF l \in Seeing THEN x.seen ELSE NoDocs
           f == IF l = "settle" THEN x.phase ELSE "role"
           r == IF l \in {"settle", "report", "reporting", "after"} THEN x.reason ELSE "none"
<1>1. Kept(l, x) = [x EXCEPT !.base = b, !.seen = s, !.phase = f, !.reason = r]
  BY DEF Kept, Seeing
<1> HIDE DEF b, s, f, r
<1> QED
  BY <1>1 DEF LooseLocals

LEMMA WithFlags ==
  ASSUME Shape, NEW p \in Pages, NEW f
  PROVE  With(p, f).flag = loc[p].flag \cup f /\ Without(p, f).flag = loc[p].flag \ f
<1>1. loc[p] \in LooseLocals
  BY LocalsOf
<1> QED
  BY <1>1, SameFlags DEF With, Without

(* The run goes to l, with the lease if x has one. *)
LEMMA GotoGoes ==
  ASSUME Shape, WholeInv, NEW p \in Pages, NEW l \in Labels, NEW x \in LooseLocals,
         Goto(p, l, x)
  PROVE  /\ Alone(p) /\ told' = told /\ pc'[p] = l
         /\ Leased(p)' <=> "leased" \in x.flag
<1>1. Moves(p) /\ pc'[p] = l
  BY GotoMoves
<1>2. told' = told /\ loc' = [loc EXCEPT ![p] = Kept(l, x)]
  BY DEF Goto
<1>3. loc'[p].flag = x.flag
  BY <1>2, KeptFlag DEF Shape
<1> QED
  BY <1>1, <1>2, <1>3 DEF Moves, Alone, Leased, WholeInv

(* A step of p that neither removes nor answers for anything, and after    *)
(* which p has a lease only if h.                                          *)
Meek(p, h) ==
  /\ Alone(p) /\ told'[p] \in {"nothing", told[p]}
  /\ pc'[p] \notin Receipt \cup {"remove"}
  /\ pc'[p] \in Leasing => Leased(p)'
  /\ Leased(p)' => h

LEMMA GotoMeek ==
  ASSUME Shape, WholeInv, NEW p \in Pages, NEW h \in BOOLEAN, NEW l \in Labels, NEW x \in LooseLocals,
         Goto(p, l, x), l \notin Receipt \cup {"remove"},
         l \in Leasing => "leased" \in x.flag, "leased" \in x.flag => h
  PROVE  Meek(p, h)
BY GotoGoes DEF Meek

LEMMA ReturnAlone ==
  ASSUME Shape, WholeInv, NEW p \in Pages, NEW o \in {"nothing", "saved"}, Return(p, o)
  PROVE  Alone(p) /\ told'[p] = o /\ pc'[p] = "idle" /\ ~Leased(p)'
<1>1. Moves(p)
  BY ReturnQuiet DEF Quiet
<1>2. /\ pc' = [pc EXCEPT ![p] = "idle"] /\ loc' = [loc EXCEPT ![p] = NoLocals]
      /\ told' = [told EXCEPT ![p] = o]
  BY DEF Return
<1>3. pc'[p] = "idle" /\ loc'[p].flag = {}
  BY <1>2 DEF Shape, NoLocals
<1> QED
  BY <1>1, <1>2, <1>3 DEF Moves, Alone, Leased, WholeInv

LEMMA ReturnMeek ==
  ASSUME Shape, WholeInv, NEW p \in Pages, NEW h \in BOOLEAN, Return(p, "nothing")
  PROVE  Meek(p, h)
BY ReturnAlone DEF Meek, Receipt, Leasing

LEMMA ReportMeek ==
  ASSUME Shape, WholeInv, NEW p \in Pages, NEW h \in BOOLEAN, NEW x \in LooseLocals, NEW r \in Reasons,
         "leased" \in x.flag => h
  PROVE  /\ ReportWith(p, x, r) => Meek(p, h)
         /\ GiveUpWith(p, x, r) => Meek(p, h)
<1> DEFINE y == [x EXCEPT !.reason = r]
<1>1. y \in LooseLocals /\ y.flag = x.flag
  BY PartLocals, SameFlags
<1> HIDE DEF y
<1>2. Goto(p, "report", y) => Meek(p, h)
  BY <1>1, GotoMeek DEF Labels, Receipt, Leasing
<1>3. ReportWith(p, x, r) => Meek(p, h)
  BY <1>2, ReturnMeek DEF ReportWith, y
<1> QED
  BY <1>3, ReturnMeek DEF GiveUpWith

LEMMA TurnMeek ==
  ASSUME Shape, WholeInv, NEW p \in Pages, NEW h \in BOOLEAN, NEW x \in LooseLocals, Turn(p, x),
         "leased" \in x.flag => h
  PROVE  Meek(p, h)
<1> DEFINE y == [x EXCEPT !.steps = x.steps + 1]
<1>1. x.steps + 1 \in Nat
  BY DEF LooseLocals
<1>2. y \in LooseLocals /\ y.flag = x.flag
  BY <1>1, PartLocals, SameFlags
<1> HIDE DEF y
<1>3. Goto(p, "prepare", y) => Meek(p, h)
  BY <1>2, GotoMeek DEF Labels, Receipt, Leasing
<1>4. GiveUpWith(p, x, "unknown") \/ GiveUpWith(p, x, "canceled") => Meek(p, h)
  BY ReportMeek DEF Reasons
<1> QED
  BY <1>3, <1>4 DEF Turn, y

LEMMA StaleMeek ==
  ASSUME Shape, WholeInv, NEW p \in Pages, NEW h \in BOOLEAN, NEW x \in LooseLocals,
         Stale(p, x), "leased" \in x.flag => h
  PROVE  Meek(p, h)
<1> DEFINE y == [x EXCEPT !.stale = x.stale + 1]
<1>1. x.stale + 1 \in Nat
  BY DEF LooseLocals
<1>2. y \in LooseLocals /\ y.flag = x.flag
  BY <1>1, PartLocals, SameFlags
<1> HIDE DEF y
<1>3. GiveUpWith(p, x, "partial") => Meek(p, h)
  BY ReportMeek DEF Reasons
<1>4. Turn(p, y) => Meek(p, h)
  BY <1>2, TurnMeek
<1> QED
  BY <1>3, <1>4 DEF Stale, y

(* The reports and the ends of a run of the page. *)
LEMMA EndsMeek ==
  ASSUME Shape, WholeInv, NEW p \in Pages, NEW h \in BOOLEAN, Leased(p) => h
  PROVE  /\ Return(p, "nothing") => Meek(p, h)
         /\ \A r \in Reasons : Report(p, r) \/ GiveUp(p, r) => Meek(p, h)
         /\ \A f \in {"role", "team"} :
              /\ Conflict(p, f, Report(p, "conflict-exhausted")) => Meek(p, h)
              /\ Conflict(p, f, Return(p, "nothing")) => Meek(p, h)
              /\ \A r \in Reasons : Leased(p) /\ Unsettled(p, f, r) => Meek(p, h)
<1>1. loc[p] \in LooseLocals /\ ("leased" \in loc[p].flag => h)
  BY LocalsOf DEF Leased
<1>2. Return(p, "nothing") => Meek(p, h)
  BY ReturnMeek
<1>3. \A r \in Reasons : Report(p, r) \/ GiveUp(p, r) => Meek(p, h)
  BY <1>1, ReportMeek DEF Report, GiveUp
<1>4. ASSUME NEW f \in {"role", "team"}
      PROVE  /\ Conflict(p, f, Report(p, "conflict-exhausted")) => Meek(p, h)
             /\ Conflict(p, f, Return(p, "nothing")) => Meek(p, h)
  <2> DEFINE n == loc[p].conflicts[f] + 1
             y == [loc[p] EXCEPT !.conflicts[f] = n]
  <2>1. n \in Nat
    BY <1>1 DEF LooseLocals
  <2> HIDE DEF n
  <2>2. y \in LooseLocals /\ y.flag = loc[p].flag
    BY <1>1, <2>1, ConflictLocals, SameFlags
  <2> HIDE DEF y
  <2>3. Turn(p, y) => Meek(p, h)
    BY <1>1, <2>2, TurnMeek
  <2>4. Report(p, "conflict-exhausted") => Meek(p, h)
    BY <1>3 DEF Reasons
  <2> QED
    BY <1>2, <2>3, <2>4 DEF Conflict, n, y
<1>5. ASSUME NEW f \in {"role", "team"}, NEW r \in Reasons, Leased(p), Unsettled(p, f, r)
      PROVE  Meek(p, h)
  <2> DEFINE y == [loc[p] EXCEPT !.phase = f]
             z == [y EXCEPT !.reason = r]
  <2>1. y \in LooseLocals /\ y.flag = loc[p].flag
    BY <1>1, PartLocals, SameFlags
  <2> HIDE DEF y
  <2>2. z \in LooseLocals /\ z.flag = loc[p].flag
    BY <2>1, PartLocals, SameFlags
  <2>3. Goto(p, "settle", z)
    BY <1>5 DEF Unsettled, y
  <2> HIDE DEF z
  <2> QED
    BY <1>1, <1>5, <2>2, <2>3, GotoMeek DEF Labels, Receipt, Leased
<1> QED
  BY <1>2, <1>3, <1>4, <1>5

(* A step of p within its receipt: it keeps its lease if it has one. *)
Receives(p) ==
  /\ Alone(p) /\ told' = told
  /\ pc'[p] \in {"mark", "markContext", "clearing", "readBack"}
  /\ Leased(p)' <=> Leased(p)

LEMMA GotoReceives ==
  ASSUME Shape, WholeInv, NEW p \in Pages, NEW l \in Receipt \ {"marking"},
         NEW x \in LooseLocals, Goto(p, l, x), "leased" \in x.flag <=> Leased(p)
  PROVE  Receives(p)
<1>1. l \in Labels
  BY DEF Receipt, Labels
<1> QED
  BY <1>1, GotoGoes DEF Receives, Receipt

LEMMA NotMarkedReceives ==
  ASSUME Shape, WholeInv, NEW p \in Pages, NotMarked(p)
  PROVE  Meek(p, Leased(p)) \/ Receives(p)
<1>1. loc[p] \in LooseLocals
  BY LocalsOf
<1>2. Leased(p) \in BOOLEAN
  BY DEF Leased
<1>3. Return(p, "nothing") => Meek(p, Leased(p))
  BY <1>2, ReturnMeek
<1>4. Goto(p, "readBack", loc[p]) => Receives(p)
  BY <1>1, GotoReceives DEF Receipt, Leased
<1> QED
  BY <1>3, <1>4 DEF NotMarked

(* The two kinds of steps keep the invariant. *)
Carries(p) ==
  /\ "state" \in DOMAIN job' /\ (\A w \in inflight' : w.op # "removeRole")
  /\ overlapped => overlapped'
  /\ removed => removed'
  /\ job'.state = "saved" => job.state = "saved" \/ Answers(p)
  /\ Whole => Whole' \/ removed' \/ pc[p] = "remove"

LEMMA MeekWhole ==
  ASSUME WholeInv, NEW p \in Pages, NEW h \in BOOLEAN, Meek(p, h), Carries(p),
         h => Leased(p) \/ overlapped' \/ \A q \in Pages \ {p} : ~Leased(q)
  PROVE  WholeInv'
<1>1. Answers(p)' => Answers(p)
  BY DEF Meek, Answers, Receipt
<1>2. Alone(p) /\ (pc'[p] \in Leasing => Leased(p)') /\ pc'[p] # "remove"
  BY DEF Meek
<1>3. Leased(p)' => Leased(p) \/ overlapped' \/ \A q \in Pages \ {p} : ~Leased(q)
  BY DEF Meek
<1> QED
  BY <1>1, <1>2, <1>3, StepWhole DEF Carries

LEMMA ReceivesWhole ==
  ASSUME WholeInv, NEW p \in Pages, Receives(p), Carries(p),
         pc[p] \in Receipt \cup Leasing
  PROVE  WholeInv'
<1>1. Answers(p)' => Answers(p)
  BY DEF Receives, Answers, WholeInv
<1>2. pc'[p] \notin Leasing
  BY DEF Receives, Leasing
<1>3. Alone(p) /\ (Leased(p)' => Leased(p)) /\ pc'[p] # "remove"
  BY DEF Receives
<1> QED
  BY <1>1, <1>2, <1>3, StepWhole DEF Carries

-----------------------------------------------------------------------------
(* Each step keeps the invariant.  A removal that is given up for lost and   *)
(* lands later is the exception: it comes too late for everything above.     *)

NoLateRemoval == "removeRole" \notin LateWrites

LEMMA ServerCarries ==
  ASSUME WholeInv, NEW p \in Pages, UNCHANGED <<docs, inflight, removed>>,
         overlapped => overlapped', "state" \in DOMAIN job',
         job'.state = "saved" => job.state = "saved" \/ Answers(p)
  PROVE  Carries(p)
BY DEF WholeInv, Carries, Whole, docs

(* The store keeps or takes the new record. *)
LEMMA UpdateTells ==
  ASSUME WholeInv, NEW new, NEW ok \in BOOLEAN, NEW thrown \in BOOLEAN,
         Update(new, ok, thrown), "state" \in DOMAIN new,
         new.state = "saved" => job.state = "saved"
  PROVE  "state" \in DOMAIN job' /\ (job'.state = "saved" => job.state = "saved")
BY DEF WholeInv, Update

(* A record with another state, whatever else is written. *)
LEMMA StateOf ==
  ASSUME WholeInv
  PROVE  /\ \A s : /\ "state" \in DOMAIN [job EXCEPT !.state = s]
                   /\ [job EXCEPT !.state = s].state = s
         /\ \A s, l, b : LET new == [job EXCEPT !.state = s, !.lease = l, !.leaseLive = b]
                         IN "state" \in DOMAIN new /\ new.state = s
         /\ \A s, b : LET new == [job EXCEPT !.state = s, !.cancelRequested = b]
                      IN "state" \in DOMAIN new /\ new.state = s
         /\ \A b : LET new == [job EXCEPT !.leaseLive = b]
                   IN "state" \in DOMAIN new /\ new.state = job.state
         /\ "state" \in DOMAIN Saved(job)
         /\ \A c : "state" \in DOMAIN Cleared(job, c) /\ Cleared(job, c).state = "save_conflict"
         /\ \A r, e : /\ "state" \in DOMAIN FailedSave(job, r, e)
                      /\ FailedSave(job, r, e).state \in {"canceled", "save_conflict"}
<1>1. "state" \in DOMAIN job
  BY DEF WholeInv
<1>2. \A s : /\ "state" \in DOMAIN [job EXCEPT !.state = s]
             /\ [job EXCEPT !.state = s].state = s
  BY <1>1
<1>3. \A s, l, b : LET new == [job EXCEPT !.state = s, !.lease = l, !.leaseLive = b]
                   IN "state" \in DOMAIN new /\ new.state = s
  BY <1>1
<1>4. \A s, b : LET new == [job EXCEPT !.state = s, !.cancelRequested = b]
                IN "state" \in DOMAIN new /\ new.state = s
  BY <1>1
<1>5. \A b : LET new == [job EXCEPT !.leaseLive = b]
             IN "state" \in DOMAIN new /\ new.state = job.state
  BY <1>1
<1>6. "state" \in DOMAIN Saved(job)
  BY <1>1 DEF Saved
<1>7. ASSUME NEW c
      PROVE  "state" \in DOMAIN Cleared(job, c) /\ Cleared(job, c).state = "save_conflict"
  BY <1>1 DEF Cleared
<1>8. ASSUME NEW r, NEW e
      PROVE  /\ "state" \in DOMAIN FailedSave(job, r, e)
             /\ FailedSave(job, r, e).state \in {"canceled", "save_conflict"}
  <2> DEFINE s == IF e THEN "canceled" ELSE "save_conflict"
             v == CASE r = "compensated" -> "none"
                    [] r = "unknown" -> "unknown"
                    [] r \in {"partial", "canceled"} -> "roles-only"
                    [] OTHER -> job.saveState
             n == r # "compensated" /\ (job.needsCleanup \/ r \in {"partial", "canceled"})
             o == (r = "unknown")
  <2>1. FailedSave(job, r, e) =
          [job EXCEPT !.state = s, !.saveState = v, !.needsCleanup = n,
                      !.outcomeUnknown = o, !.lease = NoLease, !.leaseLive = FALSE]
    BY DEF FailedSave
  <2>2. s \in {"canceled", "save_conflict"}
    OBVIOUS
  <2> HIDE DEF s, v, n, o
  <2> QED
    BY <1>1, <2>1, <2>2
<1> QED
  BY <1>2, <1>3, <1>4, <1>5, <1>6, <1>7, <1>8

LEMMA StartWhole ==
  ASSUME SaveInv, WholeInv, NEW p \in Pages, Start(p)
  PROVE  WholeInv'
<1>1. Shape
  BY DEF SaveInv
<1>2. PICK kind \in {"save", "clean"} :
        Turn(p, [NoLocals EXCEPT !.kind = kind, !.run = spent.runs + 1])
  BY DEF Start
<1> DEFINE x == [NoLocals EXCEPT !.kind = kind, !.run = spent.runs + 1]
<1>3. spent.runs + 1 \in Nat
  BY <1>1 DEF Shape, Bounds
<1>4. x \in LooseLocals /\ x.flag = {}
  BY <1>3, StartLocals DEF NoLocals
<1> HIDE DEF x
<1>5. Meek(p, FALSE)
  BY <1>1, <1>2, <1>4, TurnMeek DEF x
<1>6. Carries(p)
  BY ServerCarries DEF Start, OnPage, OnServer, WholeInv
<1> QED
  BY <1>5, <1>6, MeekWhole

LEMMA PrepareWhole ==
  ASSUME SaveInv, WholeInv, NEW p \in Pages, Prepare(p)
  PROVE  WholeInv'
<1>1. Shape
  BY DEF SaveInv
<1> DEFINE f == Flagged(MayGoOn(p), "may") \cup Flagged(Compensates(p), "canceled")
           x == With(p, {"receipt"})
           y == [x EXCEPT !.flag = x.flag \ {"leased"}]
<1>2. f \in SUBSET Flags /\ "leased" \notin f
  BY DEF Flagged, Flags
<1>3. With(p, f) \in LooseLocals /\ x \in LooseLocals
  BY <1>1, <1>2, LocalsOf DEF Flags
<1>4. y \in LooseLocals
  <2> HIDE DEF x
  <2>1. x.flag \ {"leased"} \in SUBSET Flags
    BY <1>3 DEF LooseLocals
  <2> QED
    BY <1>3, <2>1, FlagLocals
<1>5. Carries(p)
  BY ServerCarries DEF Prepare, OnPage, OnServer, WholeInv
<1>6. Leased(p) \in BOOLEAN
  BY DEF Leased
<1>7. CASE Goto(p, "context", With(p, f))
  <2>1. "leased" \in With(p, f).flag => Leased(p)
    BY <1>1, <1>2, WithFlags DEF Leased
  <2>2. Meek(p, Leased(p))
    <3> HIDE DEF f
    <3> QED
      BY <1>1, <1>3, <1>6, <1>7, <2>1, GotoMeek DEF Labels, Receipt, Leasing
  <2> QED
    BY <1>5, <1>6, <2>2, MeekWhole
<1>8. CASE Return(p, "nothing") \/ GiveUp(p, "partial")
  <2>1. Meek(p, Leased(p))
    BY <1>1, <1>6, <1>8, EndsMeek DEF Reasons
  <2> QED
    BY <1>5, <1>6, <2>1, MeekWhole
<1>9. CASE job.state = "saved" /\ Goto(p, "mark", y)
  <2>1. "leased" \notin y.flag
    BY <1>3, SameFlags
  <2>2. Alone(p) /\ pc'[p] = "mark" /\ ~Leased(p)'
    <3> HIDE DEF y
    <3> QED
      BY <1>1, <1>4, <1>9, <2>1, GotoGoes DEF Labels
  <2>3. pc'[p] # "remove" /\ pc'[p] \notin Leasing
    BY <2>2 DEF Leasing
  <2> QED
    BY <1>5, <1>9, <2>2, <2>3, StepWhole DEF Carries
<1> HIDE DEF f, y
<1> QED
  BY <1>7, <1>8, <1>9 DEF Prepare, f, x, y

LEMMA PrepareContextWhole ==
  ASSUME SaveInv, WholeInv, NEW p \in Pages, PrepareContext(p)
  PROVE  WholeInv'
<1>1. Shape
  BY DEF SaveInv
<1> DEFINE x == Without(p, {"may"})
           y == [x EXCEPT !.base = Revisions(Snapshot)]
<1>2. x \in LooseLocals /\ x.flag = loc[p].flag \ {"may"}
  BY <1>1, LocalsOf, WithFlags DEF Flags
<1>3. Revisions(Snapshot) \in [roles : Revs, teams : Revs]
  BY <1>1 DEF Shape, Revisions, Snapshot, RolesDocs, TeamsDocs
<1> HIDE DEF x
<1>4. y \in LooseLocals /\ y.flag = x.flag
  BY <1>2, <1>3, PartLocals, SameFlags
<1> HIDE DEF y
<1>5. Leased(p) \in BOOLEAN
  BY DEF Leased
<1>6. Goto(p, "lease", y) => Meek(p, Leased(p))
  BY <1>1, <1>2, <1>4, <1>5, GotoMeek DEF Labels, Receipt, Leasing, Leased
<1>7. GiveUp(p, "partial") => Meek(p, Leased(p))
  BY <1>1, <1>5, EndsMeek DEF Reasons
<1>8. Meek(p, Leased(p))
  BY <1>6, <1>7 DEF PrepareContext, x, y
<1>9. \/ job' = job
      \/ Update([job EXCEPT !.state = "needs_continue"], TRUE, TRUE)
  BY DEF PrepareContext
<1>10. "state" \in DOMAIN job' /\ (job'.state = "saved" => job.state = "saved")
  BY <1>9, UpdateTells, StateOf DEF WholeInv
<1>11. Carries(p)
  BY <1>10, ServerCarries DEF PrepareContext, OnServer
<1> QED
  BY <1>5, <1>8, <1>11, MeekWhole

(* The lease: from now on two leased runs overlap, or p's is the only one. *)
LEMMA PrepareLeaseWhole ==
  ASSUME SaveInv, WholeInv, NEW p \in Pages, PrepareLease(p)
  PROVE  WholeInv'
<1>1. Shape
  BY DEF SaveInv
<1> DEFINE x == With(p, {"leased"})
           y == [x EXCEPT !.flag = x.flag \ {"canceled"}]
           z == [y EXCEPT !.stale = 0]
<1>2. x \in LooseLocals /\ x.flag = loc[p].flag \cup {"leased"}
  BY <1>1, LocalsOf, WithFlags DEF Flags
<1> HIDE DEF x
<1>3. y \in LooseLocals /\ "leased" \in y.flag
  <2>1. x.flag \ {"canceled"} \in SUBSET Flags
    BY <1>2 DEF LooseLocals
  <2> QED
    BY <1>2, <2>1, FlagLocals, SameFlags
<1> HIDE DEF y
<1>4. z \in LooseLocals /\ z.flag = y.flag
  BY <1>3, PartLocals, SameFlags
<1> HIDE DEF z
<1>5. Goto(p, "fresh", z) \/ Stale(p, y) => Meek(p, TRUE)
  BY <1>1, <1>3, <1>4, GotoMeek, StaleMeek DEF Labels, Receipt
<1>6. Return(p, "nothing") \/ GiveUp(p, "partial") => Meek(p, TRUE)
  BY <1>1, EndsMeek DEF Reasons
<1>7. Meek(p, TRUE)
  BY <1>5, <1>6 DEF PrepareLease, Update, x, y, z
<1> DEFINE s == IF Is(p, "canceled") THEN job.state ELSE "saving"
           new == [job EXCEPT !.state = s, !.lease = <<p, loc[p].run>>, !.leaseLive = TRUE]
<1>8. s = "saved" => job.state = "saved"
  OBVIOUS
<1>9. job' = job \/ job' = new
  BY DEF PrepareLease, Update
<1> HIDE DEF s
<1>10. "state" \in DOMAIN job' /\ (job'.state = "saved" => job.state = "saved")
  BY <1>8, <1>9, StateOf DEF WholeInv
<1>11. /\ UNCHANGED <<docs, inflight, removed>>
       /\ overlapped' = (overlapped \/ \E q \in Pages \ {p} : Is(q, "leased"))
  BY DEF PrepareLease
<1>12. overlapped' \/ \A q \in Pages \ {p} : ~Leased(q)
  BY <1>11 DEF Is, Leased
<1>13. Carries(p)
  BY <1>10, <1>11, ServerCarries
<1> QED
  BY <1>7, <1>12, <1>13, MeekWhole

(* Who looks at fresh documents has a lease; the Role is about to be removed *)
(* only if there is no Team.                                                 *)
LEMMA FreshWhole ==
  ASSUME SaveInv, WholeInv, NEW p \in Pages, Fresh(p)
  PROVE  WholeInv'
<1>1. Shape
  BY DEF SaveInv
<1> DEFINE local == [loc[p] EXCEPT !.seen = Snapshot]
           phase == IF Is(p, "committed") THEN "team" ELSE "role"
           next  == Merge(loc[p].base, Snapshot)
<1>2. local \in LooseLocals /\ local.flag = loc[p].flag
  BY <1>1, LocalsOf, SeenNow, SeenLocals, SameFlags
<1>3. Leased(p)
  BY DEF Fresh, At, WholeInv, Leasing
<1>4. Carries(p)
  BY ServerCarries DEF Fresh, OnPage, OnServer, WholeInv
<1>5. next \in {"conflict", "blocked", "already-saved", "writeRole", "writeTeam"}
  BY DEF Merge
<1>6. /\ phase \in {"role", "team"}
      /\ {"conflict-exhausted", "partial", "compensated"} \subseteq Reasons
  BY DEF Reasons
<1>7. /\ \/ Fault /\ GiveUp(p, "partial")
         \/ IF loc[p].kind = "save"
              THEN CASE next = "conflict"      -> Conflict(p, phase, Report(p, "conflict-exhausted"))
                     [] next = "blocked"       -> GiveUp(p, "partial")
                     [] next = "already-saved" -> Goto(p, "mark", local)
                     [] OTHER                  -> Goto(p, next, local)
              ELSE IF next = "conflict" THEN Conflict(p, phase, Return(p, "nothing"))
              ELSE IF Check(Snapshot) \in {"committed", "conflict"} THEN Return(p, "nothing")
              ELSE IF Removable(Snapshot) THEN Goto(p, "remove", local)
              ELSE IF roles.rows = 0 THEN Report(p, "compensated")
              ELSE Return(p, "nothing")
      /\ pc[p] = "fresh"
  BY DEF Fresh, At
<1> HIDE DEF local, phase, next
<1>8. CASE \/ Conflict(p, phase, Report(p, "conflict-exhausted"))
           \/ Conflict(p, phase, Return(p, "nothing"))
           \/ GiveUp(p, "partial") \/ Report(p, "compensated") \/ Return(p, "nothing")
  <2>1. Meek(p, TRUE)
    BY <1>1, <1>6, <1>8, EndsMeek
  <2> QED
    BY <1>3, <1>4, <2>1, MeekWhole
<1>9. CASE next \in {"writeRole", "writeTeam"} /\ Goto(p, next, local)
  <2>1. next \in Labels /\ next \notin Receipt \cup {"remove"}
    BY <1>9 DEF Labels, Receipt
  <2>2. Meek(p, TRUE)
    BY <1>1, <1>2, <1>3, <1>9, <2>1, GotoMeek DEF Leased
  <2> QED
    BY <1>3, <1>4, <2>2, MeekWhole
<1>10. CASE Goto(p, "mark", local)
  <2>1. Receives(p)
    BY <1>1, <1>2, <1>10, GotoReceives DEF Receipt, Leased
  <2> QED
    BY <1>4, <1>7, <2>1, ReceivesWhole DEF Leasing
<1>11. CASE Removable(Snapshot) /\ Goto(p, "remove", local)
  <2>1. ~Whole
    BY <1>11 DEF Removable, Referenced, Snapshot, Whole
  <2>2. Alone(p) /\ told' = told /\ pc'[p] = "remove" /\ Leased(p)'
    BY <1>1, <1>2, <1>3, <1>11, GotoGoes DEF Labels, Leased
  <2>3. Answers(p)' => Answers(p)
    BY <2>2 DEF Answers, Receipt
  <2> QED
    BY <1>3, <1>4, <2>1, <2>2, <2>3, StepWhole DEF Carries
<1> QED
  BY <1>5, <1>7, <1>8, <1>9, <1>10, <1>11

(* A row is added only where it is missing. *)
LEMMA AddsMissing ==
  ASSUME SaveInv, NEW op \in {"addRole", "addTeam"}, NEW rev \in Nat,
         WriteNotes([op |-> op, rev |-> rev]), Fits(op, rev)
  PROVE  ~Whole
BY DEF WriteNotes, RoleNote, TeamNote, Fits, Document, Whole

LEMMA WriteCarries ==
  ASSUME SaveInv, WholeInv, NEW p \in Pages, NEW op \in {"addRole", "addTeam"},
         NEW rev \in Nat, WriteNotes([op |-> op, rev |-> rev]),
         Write(op, rev, TRUE, TRUE, TRUE, TRUE), UNCHANGED <<job, removed, overlapped>>
  PROVE  Carries(p)
<1>1. UNCHANGED docs \/ ~Whole
  BY AddsMissing DEF Write
<1>2. Whole => Whole'
  BY <1>1 DEF Whole, docs
<1>3. inflight' = inflight \/ inflight' = inflight \cup {[op |-> op, rev |-> rev]}
  BY DEF Write
<1>4. \A w \in inflight' : w.op # "removeRole"
  BY <1>3 DEF WholeInv
<1> QED
  BY <1>2, <1>4 DEF Carries, WholeInv

LEMMA AddWhole ==
  ASSUME SaveInv, WholeInv, NEW p \in Pages, WriteRole(p) \/ WriteTeam(p) \/ Restore(p)
  PROVE  WholeInv'
<1>1. Shape
  BY DEF SaveInv
<1>2. loc[p] \in LooseLocals
  BY <1>1, LocalsOf
<1>3. loc[p].seen.roles.rev \in Nat /\ loc[p].seen.teams.rev \in Nat
  BY <1>2 DEF LooseLocals, RolesDocs, TeamsDocs, Revs
<1>4. PageNotes(p)
  BY DEF SaveInv
<1>5. /\ With(p, {"committed"}) \in LooseLocals
      /\ "leased" \in With(p, {"committed"}).flag <=> Leased(p)
  BY <1>1, LocalsOf, WithFlags DEF Flags, Leased
<1>6. Leased(p) \in BOOLEAN
  BY DEF Leased
<1>7. Turn(p, With(p, {"committed"})) \/ Turn(p, loc[p]) => Meek(p, Leased(p))
  BY <1>1, <1>2, <1>5, <1>6, TurnMeek DEF Leased
<1>8. /\ \A f \in {"role", "team"} :
           /\ Conflict(p, f, Report(p, "conflict-exhausted")) => Meek(p, Leased(p))
           /\ Leased(p) /\ Unsettled(p, f, "write-failed") => Meek(p, Leased(p))
           /\ Leased(p) /\ Unsettled(p, f, "unknown") => Meek(p, Leased(p))
      /\ Report(p, "partial") \/ Report(p, "unknown") \/ GiveUp(p, "canceled")
           => Meek(p, Leased(p))
  BY <1>1, <1>6, EndsMeek DEF Reasons
<1>9. Goto(p, "mark", loc[p]) => Receives(p)
  BY <1>1, <1>2, GotoReceives DEF Receipt, Leased
<1>10. pc[p] \in {"writeRole", "writeTeam"} => Leased(p)
  BY DEF WholeInv, Leasing
<1>11. /\ Meek(p, Leased(p)) \/ Receives(p)
       /\ pc[p] \in {"writeRole", "writeTeam", "restore"}
       /\ pc[p] = "restore" => Meek(p, Leased(p))
  <2>1. CASE WriteRole(p)
    BY <1>7, <1>8, <1>10, <2>1 DEF WriteRole, Hesitates, Write, At
  <2>2. CASE WriteTeam(p)
    BY <1>7, <1>8, <1>9, <1>10, <2>2 DEF WriteTeam, Hesitates, Write, At
  <2>3. CASE Restore(p)
    BY <1>8, <2>3 DEF Restore, Write, At
  <2> QED
    BY <2>1, <2>2, <2>3
<1>12. UNCHANGED <<job, removed, overlapped>>
  BY DEF WriteRole, WriteTeam, Restore
<1>13. Carries(p)
  <2>1. CASE Hesitates(p)
    BY <1>12, <2>1, ServerCarries DEF Hesitates, WholeInv
  <2>2. CASE /\ pc[p] \in {"writeRole", "restore"}
             /\ Write("addRole", loc[p].seen.roles.rev, TRUE, TRUE, TRUE, TRUE)
    <3>1. WriteNotes([op |-> "addRole", rev |-> loc[p].seen.roles.rev])
      BY <1>4, <2>2 DEF PageNotes, WriteNotes
    <3> QED
      BY <1>3, <1>12, <2>2, <3>1, WriteCarries
  <2>3. CASE /\ pc[p] = "writeTeam"
             /\ Write("addTeam", loc[p].seen.teams.rev, TRUE, TRUE, TRUE, TRUE)
    <3>1. WriteNotes([op |-> "addTeam", rev |-> loc[p].seen.teams.rev])
      BY <1>4, <2>3 DEF PageNotes, WriteNotes
    <3> QED
      BY <1>3, <1>12, <2>3, <3>1, WriteCarries
  <2>4. CASE WriteRole(p)
    BY <2>1, <2>2, <2>4 DEF WriteRole, At, Write
  <2>5. CASE WriteTeam(p)
    BY <2>1, <2>3, <2>5 DEF WriteTeam, At, Write
  <2>6. CASE Restore(p)
    BY <2>2, <2>6 DEF Restore, At, Write
  <2> QED
    BY <2>4, <2>5, <2>6
<1>14. CASE Meek(p, Leased(p))
  BY <1>6, <1>13, <1>14, MeekWhole
<1>15. CASE Receives(p) /\ pc[p] \in {"writeRole", "writeTeam"}
  BY <1>13, <1>15, ReceivesWhole DEF Leasing
<1> QED
  BY <1>11, <1>14, <1>15

LEMMA RemoveWhole ==
  ASSUME NoLateRemoval, SaveInv, WholeInv, NEW p \in Pages, RemoveRole(p)
  PROVE  WholeInv'
<1>1. Shape
  BY DEF SaveInv
<1>2. loc[p] \in LooseLocals
  BY <1>1, LocalsOf
<1>3. pc[p] = "remove" /\ Leased(p)
  BY DEF RemoveRole, At, WholeInv, Leasing
<1>4. ASSUME NEW r \in Reasons, Goto(p, "after", [loc[p] EXCEPT !.reason = r])
      PROVE  Meek(p, TRUE)
  <2> DEFINE y == [loc[p] EXCEPT !.reason = r]
  <2>1. y \in LooseLocals
    BY <1>2, PartLocals
  <2> HIDE DEF y
  <2>2. Goto(p, "after", y)
    BY <1>4 DEF y
  <2> QED
    BY <1>1, <2>1, <2>2, GotoMeek DEF Labels, Receipt, Leasing
<1>5. /\ Conflict(p, "role", Report(p, "conflict-exhausted")) => Meek(p, TRUE)
      /\ Return(p, "nothing") => Meek(p, TRUE)
  BY <1>1, EndsMeek
<1>6. Stale(p, loc[p]) => Meek(p, TRUE)
  BY <1>1, <1>2, StaleMeek
<1>7. {"none", "write-failed", "unknown"} \subseteq Reasons
  BY DEF Reasons
<1>8. Meek(p, TRUE)
  BY <1>4, <1>5, <1>6, <1>7 DEF RemoveRole, Write
<1>9. UNCHANGED <<inflight, job, removed, overlapped>>
  BY DEF RemoveRole, Write, NoLateRemoval
<1>10. Carries(p)
  BY <1>3, <1>9 DEF Carries, WholeInv
<1> QED
  BY <1>3, <1>8, <1>10, MeekWhole

LEMMA AfterWhole ==
  ASSUME SaveInv, WholeInv, NEW p \in Pages, After(p)
  PROVE  WholeInv'
<1>1. Shape
  BY DEF SaveInv
<1> DEFINE local == [loc[p] EXCEPT !.seen = Snapshot]
<1>2. local \in LooseLocals /\ local.flag = loc[p].flag /\ loc[p].reason \in Reasons
  BY <1>1, LocalsOf, SeenNow, SeenLocals, SameFlags DEF LooseLocals
<1> HIDE DEF local
<1>3. Leased(p) \in BOOLEAN /\ {"compensated", "partial", "unknown"} \subseteq Reasons
  BY DEF Leased, Reasons
<1>4. Goto(p, "restore", local) => Meek(p, Leased(p))
  BY <1>1, <1>2, <1>3, GotoMeek DEF Labels, Receipt, Leasing, Leased
<1>5. \A r \in Reasons : Report(p, r) => Meek(p, Leased(p))
  BY <1>1, <1>3, EndsMeek
<1>6. Meek(p, Leased(p))
  BY <1>2, <1>3, <1>4, <1>5 DEF After, local
<1>7. Carries(p)
  BY ServerCarries DEF After, OnPage, OnServer, WholeInv
<1> QED
  BY <1>3, <1>6, <1>7, MeekWhole

LEMMA SettleWhole ==
  ASSUME SaveInv, WholeInv, NEW p \in Pages, Settle(p)
  PROVE  WholeInv'
<1>1. Shape
  BY DEF SaveInv
<1>2. loc[p] \in LooseLocals /\ loc[p].reason \in Reasons
  BY <1>1, LocalsOf DEF LooseLocals
<1>3. Leased(p) /\ pc[p] \in Leasing
  BY DEF Settle, At, WholeInv, Leasing
<1>4. Carries(p)
  BY ServerCarries DEF Settle, OnPage, OnServer, WholeInv
<1>5. Return(p, "nothing") \/ Report(p, loc[p].reason) => Meek(p, TRUE)
  BY <1>1, <1>2, EndsMeek
<1>6. Goto(p, "mark", loc[p]) => Receives(p)
  BY <1>1, <1>2, GotoReceives DEF Receipt, Leased
<1>7. Meek(p, TRUE) \/ Receives(p)
  BY <1>5, <1>6 DEF Settle
<1> QED
  BY <1>3, <1>4, <1>7, MeekWhole, ReceivesWhole

LEMMA MarkWhole ==
  ASSUME SaveInv, WholeInv, NEW p \in Pages, Mark(p)
  PROVE  WholeInv'
<1>1. Shape
  BY DEF SaveInv
<1> DEFINE f == Flagged(job.outcomeUnknown \/ job.saveState = "unknown", "unsure")
<1>2. f \in SUBSET Flags /\ "leased" \notin f
  BY DEF Flagged, Flags
<1>3. With(p, f) \in LooseLocals /\ ("leased" \in With(p, f).flag <=> Leased(p))
  BY <1>1, <1>2, LocalsOf, WithFlags DEF Leased
<1> HIDE DEF f
<1>4. Leased(p) \in BOOLEAN /\ pc[p] \in Receipt
  BY DEF Leased, Mark, At, Receipt
<1>5. Carries(p)
  BY ServerCarries DEF Mark, OnPage, OnServer, WholeInv
<1>6. CASE Meek(p, Leased(p)) \/ Receives(p)
  BY <1>4, <1>5, <1>6, MeekWhole, ReceivesWhole
<1>7. CASE job.state = "saved" /\ Return(p, "saved")
  <2>1. Alone(p) /\ pc'[p] = "idle" /\ ~Leased(p)'
    BY <1>1, <1>7, ReturnAlone
  <2> QED
    BY <1>5, <1>7, <2>1, StepWhole DEF Carries, Leasing
<1>8. Goto(p, "markContext", With(p, f)) => Receives(p)
  BY <1>1, <1>3, GotoReceives DEF Receipt
<1>9. NotMarked(p) => Meek(p, Leased(p)) \/ Receives(p)
  BY <1>1, NotMarkedReceives
<1> QED
  BY <1>6, <1>7, <1>8, <1>9 DEF Mark, f

(* A page that finds both rows while it holds the only lease answers from   *)
(* now on; any other page that comes here answered already.                 *)
LEMMA MarkContextWhole ==
  ASSUME SaveInv, WholeInv, NEW p \in Pages, MarkContext(p)
  PROVE  WholeInv'
<1>1. Shape
  BY DEF SaveInv
<1> DEFINE x == Without(p, {"unsure"})
           y == [x EXCEPT !.seen = Snapshot]
<1>2. x \in LooseLocals /\ ("leased" \in x.flag <=> Leased(p))
  BY <1>1, LocalsOf, WithFlags DEF Flags, Leased
<1> HIDE DEF x
<1>3. y \in LooseLocals /\ y.flag = x.flag
  BY <1>1, <1>2, SeenNow, SeenLocals, SameFlags
<1> HIDE DEF y
<1>4. pc[p] = "markContext" /\ pc[p] \in Receipt /\ Leased(p) \in BOOLEAN
  BY DEF MarkContext, At, Receipt, Leased
<1>5. Carries(p)
  BY ServerCarries DEF MarkContext, OnPage, OnServer, WholeInv
<1>6. CASE Meek(p, Leased(p)) \/ Receives(p)
  BY <1>4, <1>5, <1>6, MeekWhole, ReceivesWhole
<1>7. CASE Check(Snapshot) = "committed" /\ Goto(p, "marking", x)
  <2>1. roles.rows \in Nat /\ teams.rows \in Nat /\ RowsOnce
    BY <1>1 DEF Shape, RolesDocs, TeamsDocs, SaveInv
  <2>2. Whole
    BY <1>7, <2>1 DEF Check, Snapshot, RowsOnce, Whole
  <2>3. Alone(p) /\ told' = told /\ pc'[p] = "marking" /\ (Leased(p)' <=> Leased(p))
    BY <1>1, <1>2, <1>7, GotoGoes DEF Labels
  <2>4. Answers(p)' => Answers(p) \/ Leased(p)
    BY <1>4 DEF Answers
  <2>5. pc'[p] \notin Leasing /\ pc'[p] # "remove"
    BY <2>3 DEF Leasing
  <2> QED
    BY <1>4, <1>5, <2>2, <2>3, <2>4, <2>5, StepWhole DEF Carries
<1>8. Goto(p, "clearing", y) => Receives(p)
  BY <1>1, <1>2, <1>3, GotoReceives DEF Receipt
<1>9. NotMarked(p) => Meek(p, Leased(p)) \/ Receives(p)
  BY <1>1, NotMarkedReceives
<1> QED
  BY <1>6, <1>7, <1>8, <1>9 DEF MarkContext, x, y

LEMMA MarkWriteWhole ==
  ASSUME SaveInv, WholeInv, NEW p \in Pages, MarkWrite(p)
  PROVE  WholeInv'
<1>1. Shape
  BY DEF SaveInv
<1>2. pc[p] = "marking" /\ Answers(p) /\ pc[p] \in Receipt /\ Leased(p) \in BOOLEAN
  BY DEF MarkWrite, At, Receipt, Leased, Answers
<1>3. "state" \in DOMAIN job'
  BY StateOf DEF MarkWrite
<1>4. Carries(p)
  BY <1>2, <1>3, ServerCarries DEF MarkWrite, OnServer
<1>5. CASE NotMarked(p)
  <2>1. Meek(p, Leased(p)) \/ Receives(p)
    BY <1>1, <1>5, NotMarkedReceives
  <2> QED
    BY <1>2, <1>4, <2>1, MeekWhole, ReceivesWhole
<1>6. CASE Return(p, "saved")
  <2>1. Alone(p) /\ pc'[p] = "idle" /\ ~Leased(p)'
    BY <1>1, <1>6, ReturnAlone
  <2> QED
    BY <1>2, <1>4, <2>1, StepWhole DEF Carries, Leasing
<1> QED
  BY <1>5, <1>6 DEF MarkWrite

LEMMA ReceiptWhole ==
  ASSUME SaveInv, WholeInv, NEW p \in Pages, MarkClear(p) \/ ReadBack(p)
  PROVE  WholeInv'
<1>1. Shape
  BY DEF SaveInv
<1>2. pc[p] \in Receipt /\ Leased(p) \in BOOLEAN
  BY DEF MarkClear, ReadBack, At, Receipt, Leased
<1>3. /\ With(p, {"second"}) \in LooseLocals
      /\ "leased" \in With(p, {"second"}).flag <=> Leased(p)
  BY <1>1, LocalsOf, WithFlags DEF Flags, Leased
<1>4. Goto(p, "mark", With(p, {"second"})) => Receives(p)
  BY <1>1, <1>3, GotoReceives DEF Receipt
<1>5. Return(p, "nothing") => Meek(p, Leased(p))
  BY <1>1, <1>2, ReturnMeek
<1>6. NotMarked(p) => Meek(p, Leased(p)) \/ Receives(p)
  BY <1>1, NotMarkedReceives
<1>7. Meek(p, Leased(p)) \/ Receives(p)
  BY <1>4, <1>5, <1>6 DEF MarkClear, ReadBack, Update
<1>8. job' = job \/ job' = Cleared(job, Check(loc[p].seen))
  BY DEF MarkClear, ReadBack, OnPage, Update
<1>9. "state" \in DOMAIN job' /\ (job'.state = "saved" => job.state = "saved")
  BY <1>8, StateOf DEF WholeInv
<1>10. OnServer
  BY DEF MarkClear, ReadBack, OnPage
<1>11. Carries(p)
  BY <1>9, <1>10, ServerCarries DEF OnServer
<1> QED
  BY <1>2, <1>7, <1>11, MeekWhole, ReceivesWhole

LEMMA FailureWhole ==
  ASSUME SaveInv, WholeInv, NEW p \in Pages, ReportFailure(p) \/ WriteFailure(p)
  PROVE  WholeInv'
<1>1. Shape
  BY DEF SaveInv
<1> DEFINE f == Flagged(job.cancelRequested \/ loc[p].reason = "compensated", "canceled")
<1>2. f \in SUBSET Flags /\ "leased" \notin f
  BY DEF Flagged, Flags
<1>3. With(p, f) \in LooseLocals /\ ("leased" \in With(p, f).flag <=> Leased(p))
  BY <1>1, <1>2, LocalsOf, WithFlags DEF Leased
<1> HIDE DEF f
<1>4. Leased(p) \in BOOLEAN
  BY DEF Leased
<1>5. Goto(p, "reporting", With(p, f)) => Meek(p, Leased(p))
  BY <1>1, <1>3, <1>4, GotoMeek DEF Labels, Receipt, Leasing
<1>6. Return(p, "nothing") => Meek(p, Leased(p))
  BY <1>1, <1>4, ReturnMeek
<1>7. Meek(p, Leased(p))
  BY <1>5, <1>6 DEF ReportFailure, WriteFailure, Update, f
<1>8. job' = job \/ job' = FailedSave(job, loc[p].reason, Is(p, "canceled"))
  BY DEF ReportFailure, WriteFailure, OnPage, Update
<1>9. "state" \in DOMAIN job' /\ (job'.state = "saved" => job.state = "saved")
  <2>1. job' = job => job'.state = job.state
    OBVIOUS
  <2> QED
    BY <1>8, <2>1, StateOf DEF WholeInv
<1>10. OnServer
  BY DEF ReportFailure, WriteFailure, OnPage
<1>11. Carries(p)
  BY <1>9, <1>10, ServerCarries DEF OnServer
<1> QED
  BY <1>4, <1>7, <1>11, MeekWhole

(* A step of no page's run. *)
LEMMA WorldWhole ==
  ASSUME WholeInv, UNCHANGED <<pc, told, overlapped>>,
         \A q \in Pages : Leased(q)' <=> Leased(q),
         "state" \in DOMAIN job', job'.state = "saved" => job.state = "saved",
         \A w \in inflight' : w.op # "removeRole", removed => removed',
         Whole => Whole' \/ removed'
  PROVE  WholeInv'
<1>1. \A q \in Pages : Answers(q)' <=> Answers(q)
  BY DEF Answers
<1>2. Vouched' => Vouched
  BY <1>1 DEF Vouched
<1> QED
  BY <1>2 DEF WholeInv

LEMMA LandsWhole ==
  ASSUME SaveInv, WholeInv, Lands
  PROVE  WholeInv'
<1>1. PICK w \in inflight :
        /\ inflight' = inflight \ {w}
        /\ IF Fits(w.op, w.rev) THEN Apply(w.op) ELSE UNCHANGED docs
        /\ UNCHANGED <<job, control, removed, overlapped>>
  BY DEF Lands
<1>2. w \in [op : Writes, rev : Revs] /\ WriteNotes(w) /\ w.op # "removeRole"
  BY DEF SaveInv, Shape, WholeInv
<1>3. w.op \in {"addRole", "addTeam"} /\ w.rev \in Nat
  BY <1>2 DEF Writes, Revs
<1>4. WriteNotes([op |-> w.op, rev |-> w.rev])
  BY <1>2 DEF WriteNotes
<1>5. UNCHANGED docs \/ ~Whole
  BY <1>1, <1>3, <1>4, AddsMissing
<1>6. Whole => Whole'
  BY <1>5 DEF Whole, docs
<1>7. \A v \in inflight' : v.op # "removeRole"
  BY <1>1 DEF WholeInv
<1>8. UNCHANGED <<pc, told, overlapped>> /\ \A q \in Pages : Leased(q)' <=> Leased(q)
  BY <1>1 DEF control, Leased
<1> QED
  BY <1>1, <1>6, <1>7, <1>8, WorldWhole DEF WholeInv

LEMMA UserWhole ==
  ASSUME SaveInv, WholeInv, UserEdits
  PROVE  WholeInv'
<1>1. roles \in RolesDocs /\ teams \in TeamsDocs
  BY DEF SaveInv, Shape
<1>2. \/ roles'.rows = roles.rows /\ teams'.rows = teams.rows /\ removed' = removed
      \/ removed'
  BY <1>1 DEF UserEdits, RolesDocs, TeamsDocs
<1>3. (removed => removed') /\ (Whole => Whole' \/ removed')
  BY <1>2 DEF Whole
<1>4. UNCHANGED <<pc, told, overlapped>> /\ \A q \in Pages : Leased(q)' <=> Leased(q)
  BY DEF UserEdits, control, Leased
<1>5. UNCHANGED <<job, inflight>>
  BY DEF UserEdits
<1> QED
  BY <1>3, <1>4, <1>5, WorldWhole DEF WholeInv

LEMMA CancelWhole ==
  ASSUME SaveInv, WholeInv, NEW p \in Pages, Cancel(p)
  PROVE  WholeInv'
<1>1. loc \in [Pages -> LooseLocals]
  BY DEF SaveInv, Shape
<1> DEFINE f == IF At(p, "idle") THEN loc[p].flag ELSE loc[p].flag \cup {"aborted"}
           x == [loc[p] EXCEPT !.flag = f]
<1>2. loc' = [loc EXCEPT ![p] = x]
  BY DEF Cancel
<1>3. "leased" \in f <=> Leased(p)
  BY DEF Leased
<1> HIDE DEF f
<1>4. x.flag = f
  BY <1>1 DEF LooseLocals
<1> HIDE DEF x
<1>5. \A q \in Pages : Leased(q)' <=> Leased(q)
  BY <1>1, <1>2, <1>3, <1>4 DEF Leased
<1>6. /\ job' = [job EXCEPT !.state = "canceling", !.cancelRequested = TRUE]
      /\ UNCHANGED <<docs, inflight, pc, told, removed, overlapped>>
  BY DEF Cancel
<1>7. "state" \in DOMAIN job' /\ job'.state = "canceling"
  BY <1>6, StateOf
<1> QED
  BY <1>5, <1>6, <1>7, WorldWhole DEF WholeInv, Whole, docs

LEMMA ServiceWhole ==
  ASSUME WholeInv, Archive \/ CancelEnds \/ LeaseExpires \/ UNCHANGED vars
  PROVE  WholeInv'
<1>1. UNCHANGED <<docs, inflight, control, removed, overlapped>>
  BY DEF Archive, CancelEnds, LeaseExpires, vars
<1>2. \/ job' = job \/ job' = [job EXCEPT !.state = "canceled", !.cancelRequested = TRUE]
      \/ job' = [job EXCEPT !.state = "needs_continue"]
      \/ job' = [job EXCEPT !.leaseLive = FALSE]
  BY DEF Archive, CancelEnds, LeaseExpires, vars, Update
<1>3. "state" \in DOMAIN job' /\ (job'.state = "saved" => job.state = "saved")
  BY <1>2, StateOf DEF WholeInv
<1>4. \A q \in Pages : Leased(q)' <=> Leased(q)
  BY <1>1 DEF control, Leased
<1> QED
  BY <1>1, <1>3, <1>4, WorldWhole DEF WholeInv, Whole, docs, control

LEMMA InitWhole == Init => WholeInv
<1> SUFFICES ASSUME Init PROVE WholeInv
  OBVIOUS
<1>1. /\ loc = [p \in Pages |-> NoLocals] /\ told = [p \in Pages |-> "nothing"]
      /\ pc \in [Pages -> {"idle", "closed"}] /\ inflight = {}
      /\ "state" \in DOMAIN job /\ job.state = "ready"
  BY DEF Init
<1>2. \A p \in Pages : ~Leased(p) /\ pc[p] \in {"idle", "closed"}
  BY <1>1 DEF Leased, NoLocals
<1>3. \A p \in Pages : ~Answers(p)
  BY <1>1, <1>2 DEF Answers, Receipt
<1>4. ~Vouched
  BY <1>1, <1>3 DEF Vouched
<1> QED
  BY <1>1, <1>2, <1>4 DEF WholeInv, Leasing

LEMMA NextWhole ==
  ASSUME NoLateRemoval, SaveInv, WholeInv, [Next]_vars
  PROVE  WholeInv'
<1>1. ASSUME NEW p \in Pages, PageStep(p) PROVE WholeInv'
  BY <1>1, PrepareWhole, PrepareContextWhole, PrepareLeaseWhole, FreshWhole, AddWhole,
     SettleWhole, MarkWhole, MarkContextWhole, MarkWriteWhole, ReceiptWhole, FailureWhole,
     RemoveWhole, AfterWhole DEF PageStep
<1>2. ASSUME NEW p \in Pages, Start(p) \/ Cancel(p) PROVE WholeInv'
  BY <1>2, StartWhole, CancelWhole
<1>3. CASE Archive \/ CancelEnds \/ LeaseExpires \/ UNCHANGED vars
  BY <1>3, ServiceWhole
<1>4. CASE Lands \/ UserEdits
  BY <1>4, LandsWhole, UserWhole
<1> QED
  BY <1>1, <1>2, <1>3, <1>4 DEF Next

(* A saved job, and a page that told its user so, have the Team and its     *)
(* Role in the documents, for any number of pages, runs, cancels and faults: *)
(* unless a user removed one, two leased runs overlapped, or a removal may  *)
(* land after it was given up for lost (markSaved, compensateDesign).       *)
THEOREM SavedIsWholeHolds ==
  ASSUME NoLateRemoval
  PROVE  Spec => []SavedIsWhole
<1>1. Init => SaveInv /\ WholeInv
  BY InitSave, InitWhole
<1>2. SaveInv /\ WholeInv /\ [Next]_vars => (SaveInv /\ WholeInv)'
  BY NextSave, NextWhole DEF StepOK
<1>3. WholeInv => SavedIsWhole
  BY DEF WholeInv, Vouched, Answers, Whole, SavedIsWhole
<1> QED
  BY <1>1, <1>2, <1>3, PTL DEF Spec
=============================================================================
