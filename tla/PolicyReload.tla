---------------------------- MODULE PolicyReload ----------------------------
(***************************************************************************)
(* Hot reload of the two policy files (crates/permission-engine/src/       *)
(* reload.rs, engine.rs).  A user edits the files while the supervisor     *)
(* runs; the notify thread turns file-system events into tokens of a       *)
(* bounded channel; the reload task takes one token, sleeps, drains the    *)
(* channel, reads the two files one after the other and replaces the       *)
(* engine's policy.  Calls are evaluated between any two of these steps.   *)
(***************************************************************************)
EXTENDS Policy

CONSTANTS GlobalFiles,   \* what the user may leave at the global path
          ProjectFiles,  \* what the user may leave at the project path
          Cap,           \* capacity of the notification channel (4 in the code)
          MaxEdits       \* bound: number of edits of a behaviour

ASSUME ReloadAssumption ==
  /\ GlobalFiles \subseteq FileContent
  /\ ProjectFiles \subseteq FileContent
  /\ Cap \in Nat \ {0}
  /\ MaxEdits \in Nat

VARIABLES globalFile,    \* contents of the user-global policy path
          projectFile,   \* contents of the project-local policy path
          edits,         \* edits made so far
          watched,       \* paths whose directory is being watched
          missed,        \* history: why edits went unnoticed, if any did
          unseen,        \* file-system events the notify callback has yet to send
          tokens,        \* tokens in the channel
          task,          \* where the reload task is
          readGlobal,    \* the global file as the running reload read it
          readProject,   \* the project file as the running reload read it
          policy,        \* PolicyEngine.inner.policy
          source         \* history: the files the policy was merged from

diskVars   == <<globalFile, projectFile, edits>>
watchVars  == <<watched, missed>>
notifyVars == <<unseen, tokens>>
engineVars == <<policy, source>>
vars == <<diskVars, watchVars, notifyVars, task, readGlobal, readProject, engineVars>>

Paths == {"global", "project"}

TaskState == {"waiting", "debouncing", "reading", "readGlobal", "readBoth"}

TypeOK ==
  /\ globalFile \in FileContent
  /\ projectFile \in FileContent
  /\ edits \in 0..MaxEdits
  /\ watched \in SUBSET Paths
  /\ missed \in SUBSET {"early", "unwatched"}
  /\ unseen \in Nat
  /\ tokens \in 0..Cap
  /\ task \in TaskState
  /\ readGlobal \in FileContent
  /\ readProject \in FileContent
  /\ policy \in PolicyFile
  /\ source \in [global : FileContent, project : FileContent]

\* PolicyEngine::load succeeded, or the supervisor would not have started.
Init ==
  /\ globalFile \in GlobalFiles
  /\ projectFile \in ProjectFiles
  /\ ~LoadError(globalFile, projectFile)
  /\ edits = 0
  /\ watched = {}
  /\ missed = {}
  /\ unseen = 0
  /\ tokens = 0
  /\ task = "waiting"
  /\ readGlobal = globalFile
  /\ readProject = projectFile
  /\ policy = Loaded(globalFile, projectFile)
  /\ source = [global |-> globalFile, project |-> projectFile]

-----------------------------------------------------------------------------
(* The user and the notify thread *)

\* An edit raises a file-system event only where the watcher is looking.
Touch(path) ==
  /\ edits < MaxEdits
  /\ edits' = edits + 1
  /\ unseen' = IF path \in watched THEN unseen + 1 ELSE unseen
  /\ missed' = missed \cup (IF path \in watched THEN {}
                            ELSE IF watched = {} THEN {"early"} ELSE {"unwatched"})
  /\ UNCHANGED <<watched, tokens, task, readGlobal, readProject, engineVars>>

EditGlobal ==
  /\ Touch("global")
  /\ globalFile' \in GlobalFiles
  /\ UNCHANGED projectFile

EditProject ==
  /\ Touch("project")
  /\ projectFile' \in ProjectFiles
  /\ UNCHANGED globalFile

\* Supervisor::run starts the watcher some time after Supervisor::new loaded
\* the policy, and skips a path whose directory does not exist by then.
StartWatcher ==
  /\ watched = {}
  /\ watched' \in SUBSET Paths \ {{}}
  /\ UNCHANGED <<diskVars, missed, notifyVars, task, readGlobal, readProject, engineVars>>

\* Mutant: the callback sends to a channel without a bound.
NotifyUnbounded ==
  /\ unseen > 0
  /\ unseen' = unseen - 1
  /\ tokens' = tokens + 1
  /\ UNCHANGED <<diskVars, watchVars, task, readGlobal, readProject, engineVars>>

\* blocking_send: the callback waits while the channel is full.
Notify ==
  /\ unseen > 0
  /\ tokens < Cap
  /\ unseen' = unseen - 1
  /\ tokens' = tokens + 1
  /\ UNCHANGED <<diskVars, watchVars, task, readGlobal, readProject, engineVars>>

-----------------------------------------------------------------------------
(* The reload task *)

Recv ==
  /\ task = "waiting"
  /\ tokens > 0
  /\ tokens' = tokens - 1
  /\ task' = "debouncing"
  /\ UNCHANGED <<diskVars, watchVars, unseen, readGlobal, readProject, engineVars>>

\* The end of the 200 ms sleep: drain the channel, then start reading.
Drain ==
  /\ task = "debouncing"
  /\ tokens' = 0
  /\ task' = "reading"
  /\ UNCHANGED <<diskVars, watchVars, unseen, readGlobal, readProject, engineVars>>

ReadGlobal ==
  /\ task = "reading"
  /\ readGlobal' = globalFile
  /\ task' = IF globalFile = Malformed THEN "waiting" ELSE "readGlobal"
  /\ UNCHANGED <<diskVars, watchVars, notifyVars, readProject, engineVars>>

\* Mutant: a failed reload ends the task (an error propagated, not logged).
ReadProjectGivesUp ==
  /\ task = "readGlobal"
  /\ readProject' = projectFile
  /\ task' = IF ProjectError(projectFile) THEN "ended" ELSE "readBoth"
  /\ UNCHANGED <<diskVars, watchVars, notifyVars, readGlobal, engineVars>>

ReadProject ==
  /\ task = "readGlobal"
  /\ readProject' = projectFile
  /\ task' = IF ProjectError(projectFile) THEN "waiting" ELSE "readBoth"
  /\ UNCHANGED <<diskVars, watchVars, notifyVars, readGlobal, engineVars>>

\* Mutant: the channel is drained after the reload, and a token sent while the
\* files were being read is thrown away with the rest.
InstallThenDrain ==
  /\ task = "readBoth"
  /\ policy' = Loaded(readGlobal, readProject)
  /\ source' = [global |-> readGlobal, project |-> readProject]
  /\ task' = "waiting"
  /\ tokens' = 0
  /\ UNCHANGED <<diskVars, watchVars, unseen, readGlobal, readProject>>

Install ==
  /\ task = "readBoth"
  /\ policy' = Loaded(readGlobal, readProject)
  /\ source' = [global |-> readGlobal, project |-> readProject]
  /\ task' = "waiting"
  /\ UNCHANGED <<diskVars, watchVars, notifyVars, readGlobal, readProject>>

ReloadStep == Notify \/ Recv \/ Drain \/ ReadGlobal \/ ReadProject \/ Install

Next == StartWatcher \/ EditGlobal \/ EditProject \/ ReloadStep

Spec == Init /\ [][Next]_vars

\* The runtime keeps polling its tasks; nothing obliges the user to edit.
FairSpec == Spec /\ WF_vars(ReloadStep)

-----------------------------------------------------------------------------
(* Properties *)

\* A project-local file never widens the policy to `allow`: whenever the
\* installed policy allows a call, the global file it came from allows it on
\* its own (validate_project_local, merge_policies, the phases of evaluate).
ProjectNeverGrants ==
  \A a \in Agent, t \in Tool, args \in Args :
     EvaluateAgainstPolicy(policy, a, t, args) = "allow"
       => EvaluateAgainstPolicy(GlobalOrDefault(source.global), a, t, args) = "allow"

\* A call an explicit global `deny` rule covers stays denied whatever the
\* project file adds (merge_policies keeps every global rule and deny is the
\* first phase).
GlobalDenyHolds ==
  \A a \in Agent, t \in Tool, args \in Args :
     HasMatch(GlobalOrDefault(source.global), "deny", a, t, args)
       => EvaluateAgainstPolicy(policy, a, t, args) = "deny"

\* The engine runs the policy of the files on disk, or a load of them fails and
\* it keeps the last policy that loaded.
UpToDate ==
  \/ LoadError(globalFile, projectFile)
  \/ policy = Loaded(globalFile, projectFile)

Idle == task = "waiting" /\ tokens = 0 /\ unseen = 0

\* No edit the watcher could see is lost: once no event, token or reload is
\* outstanding the engine is up to date.  This is what draining the channel
\* before reading the files, and not after, is for.
NoLostEdit == (Idle /\ missed = {}) => UpToDate

\* Once the user stops editing, the engine becomes and stays up to date
\* (watch_and_reload neither gives up after a failed reload nor loses the last
\* notification).
Converges == <>[](missed # {} \/ UpToDate)
=============================================================================
