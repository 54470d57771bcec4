------------------------------- MODULE TeamPlan -------------------------------
(***************************************************************************)
(* The client of agent-team.team.plan on the Teams page                    *)
(* (client/teams/team-plan-state.ts) and the two hooks that drive it       *)
(* (client/teams/use-team-plans.ts): the list of saved Teams is planned in *)
(* chunks, an open editor plans its draft after a pause, and a visible page*)
(* asks again once a minute.  Requests stay on their way while the page    *)
(* moves on to another scope (host, profiles, revisions of the settings),  *)
(* so an answer may belong to a scope, a batch or a draft that is gone.    *)
(*                                                                         *)
(* The functions of the client run to completion and call each other; each *)
(* is an operator from the client's state c to its next one, and c.calls   *)
(* holds the requests on their way.  A plan is abstracted to the epoch it  *)
(* was asked in.                                                           *)
(***************************************************************************)
EXTENDS Integers, Sequences, FiniteSets

CONSTANTS
  Scopes,        \* records [host, teams]: teams is the number of saved Teams
  Drafts,        \* what the editor may hold
  ChunkSize,     \* TEAM_PLAN_MAX_ITEMS
  MaxConcurrent, \* TEAM_PLAN_MAX_CONCURRENT_CHUNKS
  Snapshots,     \* the host's fingerprints of its profiles and availability
  MaxSteps,      \* bound on what the user and the clock do
  NoScope, None

VARIABLES
  client,   \* the closure's state
  page,     \* what the hooks remember: the last scope planned, is the editor open
  steps     \* steps of the user and the clock so far
vars == <<client, page, steps>>

Modes == {"unknown", "v2", "legacy"}
Blank == [scope |-> NoScope, epoch |-> 0, mode |-> "unknown", batch |-> 0, chunks |-> <<>>,
          pending |-> FALSE, total |-> 0, done |-> 0, cacheKey |-> NoScope,
          inFlightKey |-> NoScope, results |-> <<>>, failed |-> {}, error |-> FALSE,
          context |-> None, cache |-> {}, probed |-> NoScope, saved |-> 0,
          refreshed |-> "never", probing |-> FALSE, active |-> FALSE, timer |-> FALSE,
          draft |-> [timer |-> None, scheduled |-> None, seq |-> 0, last |-> None,
                     state |-> "idle"],
          calls |-> {}, destroyed |-> FALSE]
Init == client = Blank /\ page = [last |-> NoScope, editor |-> FALSE] /\ steps = 0

Call == [kind : {"chunk", "probe", "draft"}, epoch : Nat, number : Nat, keys : SUBSET Nat]
\* The module's one type invariant.
TypeOK ==
  /\ client.scope \in Scopes \cup {NoScope} /\ client.mode \in Modes
  /\ client.done \in Nat /\ client.refreshed \in {"never", "fresh", "stale"}
  /\ client.calls \subseteq Call
  /\ Cardinality({k \in client.calls : k.kind = "chunk"}) <= MaxConcurrent

-----------------------------------------------------------------------------
(* Drafts. *)
TimerCleared(d) == [d EXCEPT !.timer = None, !.scheduled = None]
SessionReset(d) == [TimerCleared(d) EXCEPT !.state = "idle"]
DraftHidden(d) == [SessionReset(d) EXCEPT !.last = None, !.seq = @ + 1]
InUse(d) == d.timer # None \/ d.scheduled # None

SetMode(c, mode) ==
  IF mode # "legacy" \/ c.mode = "legacy" THEN [c EXCEPT !.mode = mode]
  ELSE [c EXCEPT !.mode = mode, !.results = <<>>, !.failed = {}, !.error = FALSE,
                 !.draft = IF InUse(@) \/ @.last # None THEN DraftHidden(@) ELSE @]

\* A draft that the input check refuses is never sent.
Invalid(content) == content = "invalid"
EnqueueDraft(c, content) ==
  LET d == c.draft IN
  IF c.destroyed \/ c.scope = NoScope THEN c
  ELSE IF c.mode = "legacy"
  THEN [c EXCEPT !.draft = [TimerCleared(d) EXCEPT !.last = None, !.state = "idle"]]
  ELSE IF Invalid(content)
  THEN [c EXCEPT !.draft = [TimerCleared(d) EXCEPT !.last = None, !.seq = @ + 1, !.state = "error"]]
  ELSE IF d.scheduled = content THEN c
  ELSE [c EXCEPT !.draft = [timer |-> [epoch |-> c.epoch, seq |-> d.seq + 1],
                            scheduled |-> content, seq |-> d.seq + 1,
                            last |-> content, state |-> "pending"]]
RescheduleDrafts(c) ==
  IF c.draft.last = None THEN c
  ELSE EnqueueDraft([c EXCEPT !.draft.scheduled = None], c.draft.last)

-----------------------------------------------------------------------------
(* Batches of saved Teams. *)
ChunksOf(n) ==
  [i \in 1..((n + ChunkSize - 1) \div ChunkSize) |->
     {k \in 1..n : (k - 1) \div ChunkSize = i - 1}]

Running(c) == Cardinality({k \in c.calls : k.kind = "chunk"})
Pump(c) ==
  LET room == MaxConcurrent - Running(c)
      n == IF room < Len(c.chunks) THEN room ELSE Len(c.chunks)
      sent == {[kind |-> "chunk", epoch |-> c.epoch, number |-> c.batch, keys |-> c.chunks[i]] :
                 i \in 1..n}
      next == [c EXCEPT !.calls = @ \cup sent, !.chunks = SubSeq(@, n + 1, Len(@))]
  IN IF c.destroyed THEN c
     ELSE [next EXCEPT !.pending = Running(next) > 0 \/ next.chunks # <<>>]

\* What a host answers: its contract, the fingerprints it planned under, None when it
\* could not read its own facts and every plan says so, and the Teams that are planned.
\* A host of this version knows "v2" and plans all it is asked for; another may not.
Outputs(call) == [kind : {"plans"}, context : Snapshots \cup {None},
                  support : {"v2", "legacy"}, planned : SUBSET call.keys]
\* Or it does not know the method, or the transport fails.
Errors == [kind : {"missing", "lost"}]

\* A context that is not known drops nothing: the one before it is forgotten.
Changed(before, after) == None \notin {before, after} /\ before # after
ApplyOutput(c, call, output) ==
  IF call.number # c.batch \/ c.destroyed THEN c
  ELSE LET c1 == [c EXCEPT !.context = output.context,
                           !.cache = IF Changed(c.context, output.context) THEN {} ELSE @]
           c2 == SetMode(c1, output.support)
       IN [c2 EXCEPT !.results = [k \in DOMAIN @ \cup output.planned |->
                                    IF k \in output.planned THEN call.epoch ELSE @[k]],
                     !.failed = (@ \ output.planned) \cup (call.keys \ output.planned)]

Without(results, keys) == [k \in DOMAIN results \ keys |-> results[k]]
ChunkFailed(c, call) ==
  LET c1 == IF c.mode = "v2" THEN c ELSE SetMode(c, "unknown")
  IN [c1 EXCEPT !.error = TRUE, !.results = Without(@, call.keys), !.failed = @ \cup call.keys]

Count(c) == [c EXCEPT !.done = @ + 1]
CompleteChunk(before) ==
  LET c == Count(before) IN
  IF c.done < c.total THEN c
  ELSE [c EXCEPT !.pending = FALSE, !.inFlightKey = NoScope, !.refreshed = "fresh",
                 !.cacheKey = NoScope,
                 !.cache = IF ~c.error /\ c.failed = {} /\ c.cacheKey # NoScope
                           THEN {e \in @ : e.key # c.cacheKey}
                                  \cup {[key |-> c.cacheKey, results |-> c.results,
                                         context |-> c.context, old |-> FALSE]}
                           ELSE @]

\* A bug: only the number of the batch is compared.
OfThisBatch(c, call) == call.number = c.batch
Current(c, call) == call.epoch = c.epoch
ChunkAnswered(c, call, reply) ==
  LET c1 == IF ~Current(c, call) THEN c
            ELSE IF reply.kind = "plans" THEN ApplyOutput(c, call, reply)
            ELSE IF call.number # c.batch THEN c
            ELSE IF reply.kind = "missing" THEN SetMode(c, "legacy")
            ELSE ChunkFailed(c, call)
      c2 == [c1 EXCEPT !.calls = @ \ {call}]
  IN IF c.destroyed THEN c2
     ELSE Pump(IF call.number = c2.batch THEN CompleteChunk(c2) ELSE c2)

SendSaved(before, n) ==
  LET c == [before EXCEPT !.saved = n]
      cached == {e \in c.cache : e.key = c.scope /\ ~e.old}
  IN IF c.destroyed \/ c.scope = NoScope \/ n = 0 \/ c.mode = "legacy" THEN c
     ELSE IF c.inFlightKey = c.scope THEN c
     ELSE IF cached # {}
     THEN LET e == CHOOSE e \in cached : TRUE IN
          [c EXCEPT !.results = e.results, !.failed = {}, !.context = e.context, !.error = FALSE]
     ELSE Pump([c EXCEPT !.batch = @ + 1, !.results = <<>>, !.failed = {}, !.error = FALSE,
                         !.chunks = ChunksOf(n), !.total = Len(ChunksOf(n)), !.done = 0,
                         !.cacheKey = c.scope, !.inFlightKey = c.scope])

SendProbe(c) ==
  IF c.destroyed \/ c.scope = NoScope \/ c.probed = c.scope THEN c
  ELSE [c EXCEPT !.probed = c.scope, !.probing = TRUE,
                 !.calls = @ \cup {[kind |-> "probe", epoch |-> c.epoch, number |-> 0, keys |-> {}]}]

\* The flag is cleared whichever probe is answered, as in the code.
ProbeAnswered(before, call, reply) ==
  LET c == [before EXCEPT !.calls = @ \ {call}, !.probing = FALSE] IN
  IF ~Current(c, call) THEN c
  ELSE [CASE reply.kind = "plans" -> SetMode(c, reply.support)
          [] reply.kind = "missing" -> SetMode(c, "legacy")
          [] reply.kind = "lost" -> [SetMode(c, "unknown") EXCEPT !.error = TRUE, !.probed = NoScope]
        EXCEPT !.refreshed = "fresh"]

\* An answer without the draft's plan is treated like one that is lost.
SameDraft(c, call) == Current(c, call) /\ call.number = c.draft.seq
DraftAnswered(before, call, reply) ==
  LET c == [before EXCEPT !.calls = @ \ {call}] IN
  IF c.destroyed \/ ~SameDraft(c, call) THEN c
  ELSE CASE reply.kind = "plans" ->
              IF c.mode = "legacy" THEN [c EXCEPT !.draft.state = "idle"]
              ELSE SetMode([c EXCEPT !.draft.state = "result"], reply.support)
         [] reply.kind = "missing" -> [SetMode(c, "legacy") EXCEPT !.draft.state = "idle"]
         [] reply.kind = "lost" -> [c EXCEPT !.draft.state = "error"]

-----------------------------------------------------------------------------
(* What the hooks call. *)
Dropped(c) ==
  [c EXCEPT !.epoch = @ + 1, !.results = <<>>, !.failed = {}, !.cache = {}, !.error = FALSE,
            !.chunks = <<>>, !.pending = FALSE, !.total = 0, !.done = 0, !.inFlightKey = NoScope,
            !.context = None, !.probed = NoScope, !.probing = FALSE]
DraftsDropped(c) == IF InUse(c.draft) THEN [c EXCEPT !.draft = SessionReset(@)] ELSE c

Reload(c, renegotiate) ==
  LET c1 == [Dropped(c) EXCEPT !.cacheKey = NoScope,
                               !.mode = IF renegotiate THEN "unknown" ELSE @]
      c2 == DraftsDropped(c1)
      c3 == CASE c2.saved > 0 -> SendSaved(c2, c2.saved)
              [] c2.saved = 0 /\ c2.mode = "unknown" -> SendProbe(c2)
              [] OTHER -> c2
  IN RescheduleDrafts(c3)

ScheduleRefresh(c) == [c EXCEPT !.timer = c.active /\ ~c.destroyed]
Busy(c) == c.pending \/ c.inFlightKey # NoScope \/ c.probing
Refresh(c, renegotiate) == ScheduleRefresh(Reload(c, renegotiate))
RefreshIfStale(c) == IF Busy(c) \/ c.refreshed = "fresh" THEN c ELSE Refresh(c, FALSE)

CancelDraft(c) == [c EXCEPT !.draft = DraftHidden(@)]
SetScope(c, scope) ==
  LET c1 == [Dropped(c) EXCEPT !.scope = scope, !.refreshed = "never"] IN
  IF scope = c.scope THEN c
  ELSE IF c.scope # NoScope /\ c.scope.host # scope.host
  THEN CancelDraft([c1 EXCEPT !.mode = "unknown", !.saved = 0])
  ELSE RescheduleDrafts(DraftsDropped(c1))

SetActive(c, active) ==
  IF c.active = active THEN c
  ELSE IF active
  THEN LET c1 == [c EXCEPT !.active = TRUE]
       IN ScheduleRefresh(IF c.refreshed = "stale" THEN Reload(c1, FALSE) ELSE c1)
  ELSE [c EXCEPT !.active = FALSE, !.timer = FALSE]

-----------------------------------------------------------------------------
(* The page. *)
Bounded == steps < MaxSteps /\ steps' = steps + 1
Step(c) == client' = c /\ UNCHANGED page

\* The effect of useTeamPlans for a visible page: scope first, then the timer,
\* then the list, the probe, or a refresh.
Show(scope) ==
  LET c == SetActive(SetScope(client, scope), TRUE) IN
  /\ Bounded
  /\ page' = [page EXCEPT !.last = scope]
  /\ client' = CASE scope = page.last -> RefreshIfStale(c)
                 [] scope # page.last /\ scope.teams = 0 -> SendProbe(c)
                 [] OTHER -> SendSaved(c, scope.teams)
Hide == client.active /\ Bounded /\ Step(SetActive(client, FALSE))

\* retry of the list: a host that is not known to be v2 is asked anew.
Retry ==
  /\ Bounded /\ client.active
  /\ Step(CASE client.mode # "v2" -> Refresh(client, TRUE)
            [] client.mode = "v2" /\ client.scope.teams = 0 -> SendProbe(client)
            [] OTHER -> SendSaved(client, client.scope.teams))
\* invalidate after a change of the settings, and refresh.
Invalidate == Bounded /\ client.active /\ Step(Refresh(client, FALSE))

Edit(content) ==
  /\ Bounded /\ client.active
  /\ page' = [page EXCEPT !.editor = TRUE]
  /\ client' = IF client.mode = "legacy" THEN client ELSE EnqueueDraft(client, content)
CloseEditor ==
  /\ page.editor /\ Bounded
  /\ page' = [page EXCEPT !.editor = FALSE]
  /\ client' = CancelDraft(client)

\* createClientLifecycle: the page is gone and destroy runs.
Unmount ==
  /\ client.scope # NoScope /\ ~client.destroyed /\ Bounded
  /\ page' = [page EXCEPT !.editor = FALSE]
  /\ client' = [Dropped(SetActive(client, FALSE)) EXCEPT
                  !.destroyed = TRUE, !.batch = @ + 1, !.cacheKey = NoScope, !.draft.timer = None]

-----------------------------------------------------------------------------
(* Timers and answers. *)
\* A minute passes: a snapshot and a cached list are now too old.
TimePasses ==
  /\ client.refreshed = "fresh" /\ Bounded
  /\ Step([client EXCEPT !.refreshed = "stale", !.cache = {[e EXCEPT !.old = TRUE] : e \in @}])

RefreshTimer ==
  /\ client.timer /\ client.refreshed = "stale"
  /\ Bounded
  /\ Step(ScheduleRefresh(IF Busy(client) THEN client ELSE Reload(client, FALSE)))

DraftTimer ==
  /\ client.draft.timer # None
  /\ UNCHANGED steps
  /\ LET t == client.draft.timer
         c == [client EXCEPT !.draft.timer = None]
     IN Step(IF c.destroyed \/ t.epoch # c.epoch \/ t.seq # c.draft.seq THEN c
             ELSE IF c.mode = "legacy" THEN [c EXCEPT !.draft.state = "idle"]
             ELSE [c EXCEPT !.calls = @ \cup {[kind |-> "draft", epoch |-> c.epoch,
                                                number |-> t.seq, keys |-> {}]}])

Answer(call, reply) ==
  /\ UNCHANGED steps
  /\ Step(CASE call.kind = "chunk" -> ChunkAnswered(client, call, reply)
            [] call.kind = "probe" -> ProbeAnswered(client, call, reply)
            [] call.kind = "draft" -> DraftAnswered(client, call, reply))

Visible == ~client.destroyed
Next ==
  \/ Visible /\ \E s \in Scopes : Show(s)
  \/ Visible /\ Hide
  \/ Visible /\ Retry
  \/ Visible /\ Invalidate
  \/ Visible /\ \E content \in Drafts : Edit(content)
  \/ CloseEditor
  \/ Unmount
  \/ TimePasses
  \/ RefreshTimer
  \/ DraftTimer
  \/ \E call \in client.calls : \E reply \in Outputs(call) \cup Errors : Answer(call, reply)
Spec == Init /\ [][Next]_vars

-----------------------------------------------------------------------------
(* Properties. *)
\* What the page shows and what it keeps was asked in the scope it shows: an answer that
\* arrives after the host, the profiles or a revision changed leaves no trace.  And a kept
\* list that is young enough to be shown in place of a new one was kept under the very
\* context the page holds, whatever snapshots were answered since, and if none was known.
PlansAreCurrent ==
  /\ \A k \in DOMAIN client.results : client.results[k] = client.epoch /\ client.scope # NoScope
  /\ \A e \in client.cache :
       /\ \A k \in DOMAIN e.results : e.results[k] = client.epoch
       /\ e.key = client.scope /\ ~e.old => e.context = client.context

\* The draft the editor holds is planned, or has failed, or is under way: it waits
\* for its timer or for an answer that will be taken.  A change of scope, a
\* refresh or a late answer never leaves it behind.
DraftIsUnderWay ==
  client.draft.last # None /\ ~client.destroyed =>
    /\ client.draft.state # "idle"
    /\ client.draft.state = "pending" =>
         \/ client.draft.timer = [epoch |-> client.epoch, seq |-> client.draft.seq]
         \/ \E call \in client.calls : call.kind = "draft" /\ SameDraft(client, call)

\* The guard that keeps the page from asking twice never outlives what it
\* guards: otherwise no refresh would come any more.
RefreshIsOpen ==
  /\ client.inFlightKey # NoScope =>
       /\ client.done < client.total
       /\ \/ client.chunks # <<>>
          \/ \E call \in client.calls :
               call.kind = "chunk" /\ call.number = client.batch /\ Current(client, call)
  /\ client.chunks # <<>> => Running(client) = MaxConcurrent
  /\ client.active => client.timer
=============================================================================
