-------------------------------- MODULE Launch --------------------------------
(***************************************************************************)
(* The launch of a Team: the dialog that previews and confirms a plan      *)
(* (client/launch/LaunchDialog.tsx, launch-preview-state.ts), the service  *)
(* that plans again and starts a job (server/launch-service.ts,            *)
(* planning-context.ts), and the job that creates the agents               *)
(* (shared/domain/launch-team.ts), while the settings and the host change. *)
(*                                                                         *)
(* A request reads the settings first and the host after; a job goes on    *)
(* when the dialog has lost it.  The plan itself is TeamModel's.           *)
(***************************************************************************)
EXTENDS TeamModel

CONSTANTS
  Catalogs,   \* what the settings may hold: [team, roles, maxMembers, archive]
  Hosts,      \* what the host may be
  Tasks,      \* what the user may ask for: [text, project], project says a new workspace
  MaxJobs,    \* MAX_JOBS
  MaxStarts, MaxChanges, MaxTroubles   \* bounds

\* A Team's members are a list.
WellFormed ==
  \A s \in Catalogs : s.team # None => s.team.members \in Seq(RangeOf(s.team.members))
ASSUME LaunchAssumption == WellFormed

VARIABLES
  settings, host, \* as they are now
  dialog,     \* the dialog's state
  calls,      \* requests at the host: previews and starts
  launches,       \* every run ever started, in order
  listed,     \* the runs the service still remembers
  agents,     \* the agents on the host: [run, place, known, archived]
  used        \* how much of each bound is spent
launchVars == <<settings, host, dialog, calls, launches, listed, agents, used>>

\* The dialog opens with a task, as /team <team> <task> or the crew page do.
Opened(task) == [task |-> task, shown |-> None, fetching |-> TRUE, starting |-> FALSE,
                 job |-> None, error |-> FALSE]
PreviewCall(task) ==
  [kind |-> "preview", task |-> task, hash |-> None, seen |-> None, read |-> None]
LaunchInit ==
  /\ settings \in Catalogs /\ host \in Hosts
  /\ \E task \in Tasks : dialog = Opened(task) /\ calls = {PreviewCall(task)}
  /\ launches = <<>> /\ listed = {} /\ agents = {}
  /\ used = [changes |-> 0, troubles |-> 0]

Steps == {"workspace", "coordinator", "member", "archiving", "kickoff", "done"}
\* The module's one type invariant.
LaunchTypeOK ==
  /\ settings \in Catalogs /\ host \in Hosts /\ listed \subseteq DOMAIN launches
  /\ \A r \in DOMAIN launches :
       /\ launches[r].state \in {"running", "succeeded", "failed", "dead"}
       /\ launches[r].step \in Steps /\ launches[r].created <= Len(launches[r].plan)
  /\ \A a \in agents : a.run \in DOMAIN launches /\ a.place \in DOMAIN launches[a.run].plan
  /\ dialog.job # None => dialog.job.run \in DOMAIN launches

Trouble == used.troubles < MaxTroubles /\ used' = [used EXCEPT !.troubles = @ + 1]
Running == dialog.job # None /\ dialog.job.state = "running"

-----------------------------------------------------------------------------
(* The dialog. *)
\* The query of a key asks once, however often the user comes back to it.
Asked(task) ==
  calls \cup (IF \E c \in calls : c.kind = "preview" /\ c.task = task THEN {}
              ELSE {PreviewCall(task)})
FetchPlan(d) ==
  /\ dialog' = [d EXCEPT !.fetching = TRUE]
  /\ calls' = Asked(d.task)

\* Another task or target: another preview.
EditTask(task) ==
  /\ ~Running /\ ~dialog.starting /\ task # dialog.task /\ used.changes < MaxChanges
  /\ used' = [used EXCEPT !.changes = @ + 1]
  /\ FetchPlan([dialog EXCEPT !.task = task, !.shown = None, !.error = FALSE])
  /\ UNCHANGED <<settings, host, launches, listed, agents>>

\* launchGate: a completed preview of exactly these inputs, without blockers.
Gate ==
  /\ ~dialog.starting /\ ~Running /\ ~dialog.fetching /\ dialog.shown # None
  /\ dialog.shown.task = dialog.task /\ dialog.shown.blockers = {}

Press ==
  /\ Gate
  /\ Len(launches) + Cardinality({c \in calls : c.kind = "start"}) < MaxStarts
  /\ dialog' = [dialog EXCEPT !.starting = TRUE, !.error = FALSE, !.job = None]
  /\ calls' = calls \cup {[kind |-> "start", task |-> dialog.task, hash |-> dialog.shown.hash,
                           seen |-> dialog.shown.agents, read |-> None]}
  /\ UNCHANGED <<settings, host, launches, listed, agents, used>>

-----------------------------------------------------------------------------
(* The service. *)
\* The settings are read first.
ReadSettings(c) ==
  /\ c \in calls /\ c.read = None
  /\ calls' = (calls \ {c}) \cup {[c EXCEPT !.read = settings]}
  /\ UNCHANGED <<settings, host, dialog, launches, listed, agents, used>>

\* prepare, once the host has been read.
PlanAnswer(s, task, plan) ==
  [blockers |-> plan.blockers,
   hash |-> <<Fingerprint(plan, s.team, s.roles, host, s.maxMembers), task>>,
   agents |-> IF plan.blockers = {} THEN Agents(plan, s.team, s.roles, host) ELSE <<>>]
Prepared(c) ==
  LET s == c.read IN
  IF s.team = None THEN [blockers |-> {"no-team"}, hash |-> None, agents |-> <<>>]
  ELSE PlanAnswer(s, c.task, LaunchPlan(s.team, s.roles, host, s.maxMembers))

PreviewAnswered(c) ==
  /\ c \in calls /\ c.kind = "preview" /\ c.read # None
  /\ calls' = calls \ {c}
  /\ LET plan == Prepared(c) IN
     dialog' = IF c.task # dialog.task THEN dialog
               ELSE [dialog EXCEPT !.fetching = FALSE,
                       !.shown = [task |-> c.task, blockers |-> plan.blockers,
                                  hash |-> plan.hash, agents |-> plan.agents]]
  /\ UNCHANGED <<settings, host, launches, listed, agents, used>>

\* A preview that fails shows an error, which closes the gate.
PreviewLost(c) ==
  /\ c \in calls /\ c.kind = "preview" /\ Trouble
  /\ calls' = calls \ {c}
  /\ dialog' = IF c.task # dialog.task THEN dialog
               ELSE [dialog EXCEPT !.fetching = FALSE, !.shown = None, !.error = TRUE]
  /\ UNCHANGED <<settings, host, launches, listed, agents>>

NewLaunch(c, plan) ==
  [state |-> "running", step |-> IF c.task.project THEN "workspace" ELSE "coordinator",
   plan |-> plan.agents, seen |-> c.seen, archive |-> c.read.archive,
   created |-> 0, kept |-> {}, archived |-> FALSE, missed |-> {}]

\* prune: finished jobs that are old enough, then the oldest until 50 are left,
\* running or not.
Pruned(before, old) ==
  LET left == before \ old
      newest == {r \in left : Cardinality({q \in left : q > r}) < MaxJobs}
  IN newest

\* A bug: the plan is not compared with the one that was confirmed.
AnyPlan(c, plan) == plan.blockers = {}
Accepted(c, plan) == plan.blockers = {} /\ c.hash = plan.hash

\* start: the plan is made again and must have the hash that was confirmed.
\* The answer may be lost after the job has started.
Start(c, lost) ==
  /\ c \in calls /\ c.kind = "start" /\ c.read # None
  /\ IF lost THEN Trouble ELSE UNCHANGED used
  /\ LET failed == [dialog EXCEPT !.starting = FALSE, !.error = TRUE]
         plan == Prepared(c)
     IN
     IF Accepted(c, plan)
     THEN /\ launches' = Append(launches, NewLaunch(c, plan))
          /\ \E old \in SUBSET {r \in listed : launches[r].state # "running"} :
               listed' = Pruned(listed \cup {Len(launches) + 1}, old)
          /\ calls' = calls \ {c}
          /\ dialog' = IF lost THEN failed
                       ELSE [dialog EXCEPT !.starting = FALSE,
                               !.job = [run |-> Len(launches) + 1, state |-> "running"]]
     ELSE /\ UNCHANGED <<launches, listed>>
          /\ IF plan.blockers = {} /\ ~lost
             THEN /\ dialog' = [dialog EXCEPT !.starting = FALSE, !.fetching = TRUE]
                  /\ calls' = Asked(c.task) \ {c}
             ELSE /\ dialog' = IF lost THEN failed ELSE [dialog EXCEPT !.starting = FALSE]
                  /\ calls' = calls \ {c}
  /\ UNCHANGED <<settings, host, agents>>

\* A bug: a job the service does not know counts as one that still runs.
StatusOrRunning(r) == IF r \in listed THEN launches[r].state ELSE "running"
StatusOf(r) == IF r \in listed THEN launches[r].state ELSE "lost"
\* The dialog polls the job it shows; when the job is over it previews again.
PollLaunch ==
  /\ Running
  /\ LET r == dialog.job.run
         state == StatusOf(r)
     IN IF state = "running" THEN UNCHANGED <<dialog, calls>>
        ELSE FetchPlan([dialog EXCEPT
                           !.job = IF state = "lost" THEN None ELSE [@ EXCEPT !.state = state],
                           !.error = state = "lost"])
  /\ UNCHANGED <<settings, host, launches, listed, agents, used>>

-----------------------------------------------------------------------------
(* The job. *)
JobTo(r, changes) == launches' = [launches EXCEPT ![r] = changes]
Failed(job) == [job EXCEPT !.state = "failed"]
Works(r) == r \in DOMAIN launches /\ launches[r].state = "running"
Created(r) == {a \in agents : a.run = r /\ a.known}

MakeWorkspace(r, fails) ==
  /\ Works(r) /\ launches[r].step = "workspace"
  /\ IF fails THEN Trouble ELSE UNCHANGED used
  /\ JobTo(r, IF fails THEN Failed(launches[r]) ELSE [launches[r] EXCEPT !.step = "coordinator"])
  /\ UNCHANGED <<settings, host, dialog, calls, listed, agents>>

NextStep(job, made) == IF made = Len(job.plan) THEN "kickoff" ELSE "member"
NewAgent(r, known) ==
  [run |-> r, place |-> launches[r].created + 1, known |-> known, archived |-> FALSE]

CreateAgent(r) ==
  /\ Works(r) /\ launches[r].step \in {"coordinator", "member"}
  /\ agents' = agents \cup {NewAgent(r, TRUE)}
  /\ LET made == launches[r].created + 1
     IN JobTo(r, [launches[r] EXCEPT !.created = made, !.step = NextStep(launches[r], made)])
  /\ UNCHANGED <<settings, host, dialog, calls, listed, used>>

\* The request throws, before or after its effect: the job knows of no agent.
Kept(r) == {a.place : a \in Created(r)}
CreateFails(r, effect) ==
  /\ Works(r) /\ launches[r].step \in {"coordinator", "member"} /\ Trouble
  /\ agents' = IF effect THEN agents \cup {NewAgent(r, FALSE)} ELSE agents
  /\ JobTo(r, IF launches[r].step = "member" /\ launches[r].archive
              THEN [launches[r] EXCEPT !.step = "archiving"]
              ELSE [Failed(launches[r]) EXCEPT !.kept = Kept(r)])
  /\ UNCHANGED <<settings, host, dialog, calls, listed>>

\* archiveCreated: each agent in turn; one that cannot be archived is passed over.
Unarchived(r) == {a \in Created(r) : ~a.archived /\ a.place \notin launches[r].missed}
Archive(r, fails) ==
  /\ Works(r) /\ launches[r].step = "archiving" /\ Unarchived(r) # {}
  /\ IF fails THEN Trouble ELSE UNCHANGED used
  /\ LET a == CHOOSE x \in Unarchived(r) : \A y \in Unarchived(r) : x.place <= y.place IN
     /\ agents' = IF fails THEN agents ELSE (agents \ {a}) \cup {[a EXCEPT !.archived = TRUE]}
     /\ JobTo(r, IF fails THEN [launches[r] EXCEPT !.missed = @ \cup {a.place}] ELSE launches[r])
  /\ UNCHANGED <<settings, host, dialog, calls, listed>>
ArchiveEnds(r) ==
  /\ Works(r) /\ launches[r].step = "archiving" /\ Unarchived(r) = {}
  /\ JobTo(r, [Failed(launches[r]) EXCEPT !.archived = TRUE])
  /\ UNCHANGED <<settings, host, dialog, calls, listed, agents, used>>

Kickoff(r, fails) ==
  /\ Works(r) /\ launches[r].step = "kickoff"
  /\ IF fails THEN Trouble ELSE UNCHANGED used
  /\ JobTo(r, IF fails THEN [Failed(launches[r]) EXCEPT !.kept = Kept(r)]
              ELSE [launches[r] EXCEPT !.state = "succeeded", !.step = "done"])
  /\ UNCHANGED <<settings, host, dialog, calls, listed, agents>>

JobStep(r) ==
  \/ MakeWorkspace(r, FALSE)
  \/ CreateAgent(r)
  \/ Archive(r, FALSE)
  \/ ArchiveEnds(r)
  \/ Kickoff(r, FALSE)

-----------------------------------------------------------------------------
(* What happens around it. *)
Change(s, h) ==
  /\ used.changes < MaxChanges /\ <<s, h>> # <<settings, host>>
  /\ settings' = s /\ host' = h
  /\ used' = [used EXCEPT !.changes = @ + 1]
  /\ UNCHANGED <<dialog, calls, launches, listed, agents>>

\* The plugin restarts: jobs live in memory, and requests on their way fail.
Restart ==
  /\ Trouble
  /\ launches' = [r \in DOMAIN launches |->
                IF launches[r].state = "running" THEN [launches[r] EXCEPT !.state = "dead"]
                ELSE launches[r]]
  /\ listed' = {} /\ calls' = {}
  /\ dialog' = [dialog EXCEPT !.starting = FALSE, !.fetching = FALSE, !.error = @ \/ calls # {},
                              !.shown = IF dialog.fetching THEN None ELSE @]
  /\ UNCHANGED <<settings, host, agents>>

LaunchNext ==
  \/ \E task \in Tasks : EditTask(task)
  \/ Press
  \/ PollLaunch
  \/ \E c \in calls :
       \/ ReadSettings(c)
       \/ PreviewAnswered(c)
       \/ PreviewLost(c)
       \/ \E lost \in BOOLEAN : Start(c, lost)
  \/ \E r \in DOMAIN launches :
       \/ JobStep(r)
       \/ MakeWorkspace(r, TRUE)
       \/ \E effect \in BOOLEAN : CreateFails(r, effect)
       \/ Archive(r, TRUE)
       \/ Kickoff(r, TRUE)
  \/ \E s \in Catalogs : Change(s, host)
  \/ \E h \in Hosts : Change(settings, h)
  \/ Restart

\* The host answers each request of a job, and the dialog polls every 800 ms.
LaunchFairness ==
  WF_launchVars(PollLaunch) /\ \A r \in 1..MaxStarts : WF_launchVars(JobStep(r))
LaunchSpec == LaunchInit /\ [][LaunchNext]_launchVars /\ LaunchFairness

-----------------------------------------------------------------------------
(* Properties. *)
\* Every agent of a job is one the user saw in the plan they confirmed, with the
\* same Role, prompt sources and model, although settings and host may change
\* between the preview and the start and between the reads of one request.
ConfirmedIsLaunched == \A r \in DOMAIN launches : launches[r].plan = launches[r].seen

\* What a finished job says is what is on the host: a success has every agent, a
\* failure names each agent that is left, and "archived" leaves none but those
\* whose archive failed.  Agents of a create that failed after its effect are
\* excepted: no answer named them.
JobTellsTruth ==
  \A r \in DOMAIN launches :
    LET left == {a.place : a \in {x \in agents : x.run = r /\ x.known /\ ~x.archived}}
        job == launches[r]
    IN
    CASE job.state = "succeeded" -> left = DOMAIN job.plan
      [] job.state = "failed" -> left = IF job.archived THEN job.missed ELSE job.kept
      [] OTHER -> TRUE

\* What the user confirmed is what is started, and what the page is told of it is so.
LaunchSound == ConfirmedIsLaunched /\ JobTellsTruth

\* A dialog that shows a running job shows its end, or that the job is lost.
LaunchIsShown == Running ~> ~Running
=============================================================================
