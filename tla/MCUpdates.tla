------------------------------- MODULE MCUpdates -------------------------------
(***************************************************************************)
(* For TLC: the update of the plugin and the launch of a Team, the two     *)
(* parts whose ends somebody waits for.  They share no state: a behaviour  *)
(* is one of either, chosen at the start, and the other stays as it is.    *)
(***************************************************************************)
EXTENDS VersionUpdate, Launch

CONSTANTS r1, r2

VARIABLE part

updateVars == vars

-----------------------------------------------------------------------------
(* The update of the plugin. *)
Plain == [mode |-> "directory", starts |-> {r1}, boots |-> 3, gets |-> FALSE,
          edits |-> 0, inFlight |-> 0]
Shared == [Plain EXCEPT !.edits = 2, !.boots = 2]
MCSettings ==
  { \* Two starts that overlap in every way, and a restart of the plugin.
    [Plain EXCEPT !.starts = {r1, r2}, !.boots = 2],
    \* One update, followed by a panel whose answers may overtake each other;
    \* the reload of a directory install fails, that of a managed one does not.
    [Plain EXCEPT !.boots = 1, !.inFlight = 2],
    [Plain EXCEPT !.boots = 2, !.inFlight = 2, !.mode = "managed"],
    \* One update and its rollback, while version.get writes boot records too.
    [Plain EXCEPT !.gets = TRUE],
    \* One update in a checkout the user works in.
    Shared }

-----------------------------------------------------------------------------
(* The launch: one Team whose catalog or host may change under the dialog. *)
Member(role) == [role |-> role, seat |-> None, label |-> None, enabled |-> TRUE]
Role(p) == [preferred |-> <<p>>, fallback |-> <<"spare">>, enabled |-> TRUE, text |-> 1]
MCCatalog ==
  [team |-> [coordinator |-> "lead", members |-> <<Member("dev")>>, creation |-> None, text |-> 1],
   roles |-> [lead |-> Role("fast"), dev |-> Role("fast")], maxMembers |-> 4, archive |-> FALSE]
MCHost ==
  [ready |-> TRUE, available |-> [P |-> TRUE], tools |-> TRUE,
   profiles |-> [fast |-> [provider |-> "P", setup |-> 1], spare |-> [provider |-> "Q", setup |-> 1]]]
MCCatalogs == {MCCatalog, [MCCatalog EXCEPT !.roles.dev.text = 2, !.archive = TRUE]}
MCHosts ==
  {MCHost, [MCHost EXCEPT !.profiles["fast"].setup = 2], [MCHost EXCEPT !.available["P"] = FALSE]}
MCTasks == {[text |-> 1, project |-> FALSE], [text |-> 2, project |-> TRUE]}

-----------------------------------------------------------------------------
UpdatesInit ==
  /\ part \in {"update", "launch"}
  /\ Init /\ (part # "update" => setting = Shared)
  /\ LaunchInit
  /\ part # "launch" => settings = MCCatalog /\ host = MCHost /\ ~dialog.task.project

UpdatesNext ==
  /\ UNCHANGED part
  /\ \/ part = "update" /\ Next /\ UNCHANGED launchVars
     \/ part = "launch" /\ LaunchNext /\ UNCHANGED updateVars

\* The fairness of VersionUpdate and Launch, each for its own behaviours, and
\* of an update only where a panel follows it: nobody else waits for its end.
Followed == part = "update" /\ Panel

Updates ==
  /\ UpdatesInit /\ [][UpdatesNext]_<<part, updateVars, launchVars>>
  /\ \A s \in Starts : /\ WF_updateVars(Followed /\ RunnerMoves(s))
                       /\ WF_updateVars(Followed /\ Recover(s))
  /\ WF_updateVars(Followed /\ Poll)
  /\ WF_updateVars(Followed /\ Adopts)
  /\ WF_launchVars(part = "launch" /\ PollLaunch)
  /\ \A r \in 1..MaxStarts : WF_launchVars(part = "launch" /\ JobStep(r))

-----------------------------------------------------------------------------
\* Every part's variables have their types.
Typed == TypeOK /\ LaunchTypeOK
=============================================================================
