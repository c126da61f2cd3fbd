----------------------------- MODULE AdminState -----------------------------
(***************************************************************************)
(* The projects, their members and their skills are one JSON value of the  *)
(* database (persistence/sqlite-admin-state-store.ts).  Every operation of *)
(* ProjectSetupService, IamService and PluginService reads the whole of    *)
(* it, awaits git, the file system or other tables, and writes the whole   *)
(* of what it read with its own change.  Nothing orders the operations, so *)
(* that the write of one undoes what others wrote since its read.          *)
(*                                                                         *)
(* A call is a request and the state it read.  Its checks are made on that *)
(* state, hence made here when it writes.  The installed skills are        *)
(* directories and change in place; an installation that also enables the  *)
(* skill for a project goes through stages, and its error path removes the *)
(* directory whatever the stages before it have done.                      *)
(*                                                                         *)
(* Abstractions.  The name, directory, branches and remote of a project    *)
(* are left out, so that an update of them, and the completion of missing  *)
(* ones at startup, writes back what it read.  An identifier is given once.*)
(***************************************************************************)
CONSTANTS
  Projects,   \* identifiers a project may be given
  Chats,      \* chats a project may be bound to
  Users,      \* members
  Skills,     \* names of skills
  Roles,      \* roles of a member
  Callers,    \* calls of the API
  Server,     \* the startup
  NoChat,     \* the project is not bound
  NoRole,     \* the user is no member
  Envs        \* environments: the hardships that may happen together, and the operations

Hardships == {"overlap",    \* a call reads before another one has written
              "reinstall",  \* a skill is installed under the name of another
              "sync"}       \* the skills of a project cannot be linked into its directories

Operations == {"setup", "bind", "unlink", "leave", "update", "toggle", "reactivate", "delete",
               "ensure", "role", "expel", "enable", "disable", "remove", "install"}

ASSUME AdminAssumption ==
  /\ Server \notin Callers /\ NoChat \notin Chats /\ NoRole \notin Roles
  /\ \A e \in Envs : e.hardships \subseteq Hardships /\ e.operations \subseteq Operations
  /\ "maintainer" \in Roles

VARIABLES
  store,      \* admin_state: projects, chat, status and skills of each, roles of the members
  used,       \* identifiers that have been given
  installed,  \* skills of the canonical store
  calls,      \* the request of each caller and the state it read
  env         \* the environment of this behaviour

vars == <<store, used, installed, calls, env>>

States == [projects : SUBSET Projects, chat : [Projects -> Chats \cup {NoChat}],
           status : [Projects -> {"active", "disabled"}],
           skills : [Projects -> SUBSET Skills],
           role : [Projects -> [Users -> Roles \cup {NoRole}]]]

Requests ==
  [op : {"setup"}, chat : Chats, user : Users]
  \cup [op : {"bind"}, project : Projects, chat : Chats, user : Users]
  \cup [op : {"leave"}, chat : Chats]
  \cup [op : {"unlink", "update", "toggle", "reactivate", "delete"}, project : Projects]
  \cup [op : {"ensure", "role"}, project : Projects, user : Users, role : Roles]
  \cup [op : {"expel"}, project : Projects, user : Users]
  \cup [op : {"enable", "disable"}, project : Projects, skill : Skills]
  \cup [op : {"remove"}, skill : Skills]

\* An installation has copied the skill and enables it for a project; has read
\* the state to do so; has written it and links the skills of the project.
Stages == [op : {"copied", "binding", "linking"}, project : Projects, skill : Skills]

Backfill == [op |-> "backfill"]
Clients == Callers \cup {Server}
Idle == [idle |-> TRUE]
Call == {Idle} \cup [req : Requests \cup Stages \cup {Backfill}, read : States]
Pending(c) == calls[c] # Idle
Without(hardships) == env.hardships \cap hardships = {}

\* Every variable has the kind of value the code keeps in it, and what a call
\* read is a state.
TypeOK ==
  /\ store \in States /\ used \subseteq Projects /\ store.projects \subseteq used
  /\ installed \subseteq Skills /\ env \in Envs
  /\ calls \in [Clients -> Call]

-----------------------------------------------------------------------------
(* Reading                                                                 *)

\* No call has begun that may not overlap with this one.
Free(c) == /\ ~ Pending(c)
           /\ "overlap" \notin env.hardships => \A d \in Clients : ~ Pending(d)

\* What is looked at before the state is read.
Checked(r) == r.op = "enable" => r.skill \in installed

Read(c) ==
  /\ Free(c)
  /\ \E r \in Requests : /\ r.op \in env.operations /\ Checked(r)
                         /\ calls' = [calls EXCEPT ![c] = [req |-> r, read |-> store]]
  /\ UNCHANGED <<store, used, installed, env>>

-----------------------------------------------------------------------------
(* Changes of a state s                                                    *)

Bound(s, chat) == \E p \in s.projects : s.chat[p] = chat

WithStatus(s, p, status) == [s EXCEPT !.status[p] = status]
WithSkills(s, p, skills) == [s EXCEPT !.skills[p] = skills]
WithRole(s, p, u, role)  == [s EXCEPT !.role[p][u] = role]

\* A user who is no member becomes one.
Joined(s, p, u, role) == IF s.role[p][u] = NoRole THEN WithRole(s, p, u, role) ELSE s

Attached(s, p, chat) ==
  [s EXCEPT !.projects = @ \cup {p}, !.chat[p] = chat, !.status[p] = "active"]

DisabledAndUnbound(s, p) == [s EXCEPT !.chat[p] = NoChat, !.status[p] = "disabled"]

\* Mutant: the members of a removed project are left.
DeletedAlone(s, p) ==
  [s EXCEPT !.projects = @ \ {p}, !.chat[p] = NoChat, !.status[p] = "disabled", !.skills[p] = {}]

\* A removed project leaves nothing but its identifier.
Deleted(s, p) ==
  [s EXCEPT !.projects = @ \ {p}, !.chat[p] = NoChat, !.status[p] = "disabled", !.skills[p] = {},
            !.role[p] = [u \in Users |-> NoRole]]

-----------------------------------------------------------------------------
(* Writing                                                                 *)

Op(c, op) == calls[c] # Idle /\ calls[c].req.op = op
Done(c) == calls' = [calls EXCEPT ![c] = Idle]
Goes(c, stage, s) ==
  calls' = [calls EXCEPT ![c] = [req |-> [op |-> stage, project |-> calls[c].req.project,
                                          skill |-> calls[c].req.skill], read |-> s]]
Write(c, s) == store' = s /\ Done(c) /\ UNCHANGED <<used, installed, env>>

\* A project is set up for a chat that has none.
SetupFromInitCard(c, p) ==
  /\ Op(c, "setup") /\ p \notin used /\ ~ Bound(calls[c].read, calls[c].req.chat)
  /\ used' = used \cup {p}
  /\ store' = Joined(Attached(calls[c].read, p, calls[c].req.chat), p, calls[c].req.user, "maintainer")
  /\ Done(c) /\ UNCHANGED <<installed, env>>

\* Mutant: another project of the chat is not looked for.
BindUnbound(c) ==
  /\ Op(c, "bind")
  /\ LET s == calls[c].read p == calls[c].req.project
     IN /\ p \in s.projects /\ s.chat[p] = NoChat
        /\ Write(c, Joined(Attached(s, p, calls[c].req.chat), p, calls[c].req.user, "maintainer"))

BindExistingProject(c) ==
  /\ Op(c, "bind")
  /\ LET s == calls[c].read p == calls[c].req.project
     IN /\ p \in s.projects /\ s.chat[p] = NoChat /\ ~ Bound(s, calls[c].req.chat)
        /\ Write(c, Joined(Attached(s, p, calls[c].req.chat), p, calls[c].req.user, "maintainer"))

DisableAndUnbindProjectById(c) ==
  /\ Op(c, "unlink") /\ calls[c].req.project \in calls[c].read.projects
  /\ Write(c, DisabledAndUnbound(calls[c].read, calls[c].req.project))

DisableAndUnbindProjectByChatId(c) ==
  /\ Op(c, "leave")
  /\ \E p \in calls[c].read.projects :
       /\ calls[c].read.chat[p] = calls[c].req.chat
       /\ Write(c, DisabledAndUnbound(calls[c].read, p))

\* Mutant: the record the caller has is stored, whether or not there still is one.
UpsertProject(c) ==
  /\ Op(c, "update") /\ calls[c].req.project \in used
  /\ Write(c, [calls[c].read EXCEPT !.projects = @ \cup {calls[c].req.project}])

UpdateProject(c) ==
  /\ Op(c, "update") /\ calls[c].req.project \in calls[c].read.projects
  /\ Write(c, calls[c].read)

ToggleProjectStatus(c) ==
  /\ Op(c, "toggle") /\ calls[c].req.project \in calls[c].read.projects
  /\ LET s == calls[c].read p == calls[c].req.project
     IN Write(c, WithStatus(s, p, IF s.status[p] = "active" THEN "disabled" ELSE "active"))

ReactivateProject(c) ==
  /\ Op(c, "reactivate") /\ calls[c].req.project \in calls[c].read.projects
  /\ calls[c].read.status[calls[c].req.project] = "disabled"
  /\ Write(c, WithStatus(calls[c].read, calls[c].req.project, "active"))

DeleteProjectById(c) ==
  /\ Op(c, "delete") /\ calls[c].req.project \in calls[c].read.projects
  /\ Write(c, Deleted(calls[c].read, calls[c].req.project))

EnsureProjectMember(c) ==
  /\ Op(c, "ensure")
  /\ LET s == calls[c].read r == calls[c].req
     IN /\ r.project \in s.projects /\ s.role[r.project][r.user] = NoRole
        /\ Write(c, Joined(s, r.project, r.user, r.role))

\* The role of somebody who is no member is not changed, but the rest is written back.
UpdateProjectMemberRole(c) ==
  /\ Op(c, "role")
  /\ LET s == calls[c].read r == calls[c].req
     IN Write(c, IF s.role[r.project][r.user] = NoRole THEN s
                 ELSE WithRole(s, r.project, r.user, r.role))

RemoveProjectMember(c) ==
  /\ Op(c, "expel")
  /\ Write(c, WithRole(calls[c].read, calls[c].req.project, calls[c].req.user, NoRole))

\* A skill is enabled, for itself or at the end of its installation.
BindToProject(c) ==
  /\ Op(c, "enable") \/ Op(c, "binding")
  /\ calls[c].req.project \in calls[c].read.projects
  /\ LET s == calls[c].read
         p == calls[c].req.project
         t == WithSkills(s, p, s.skills[p] \cup {calls[c].req.skill})
     IN /\ store' = t
        /\ IF calls[c].req.op = "enable" THEN Done(c) ELSE Goes(c, "linking", t)
  /\ UNCHANGED <<used, installed, env>>

UnbindFromProject(c) ==
  /\ Op(c, "disable") /\ calls[c].req.project \in calls[c].read.projects
  /\ LET s == calls[c].read p == calls[c].req.project
     IN Write(c, WithSkills(s, p, s.skills[p] \ {calls[c].req.skill}))

\* The startup completes the projects it read.
BackfillProjects ==
  /\ Op(Server, "backfill")
  /\ Write(Server, calls[Server].read)

\* The call is refused, finds nothing to do, or throws before it writes; an
\* installation is over, or fails that was not given a name to remove.
Refused(c) == Pending(c) /\ Done(c) /\ UNCHANGED <<store, used, installed, env>>

-----------------------------------------------------------------------------
(* Installed skills                                                        *)

\* The directory of the skill is copied, unless there is one: then the error path
\* removes that.
InstallFromLocalSource(c, k) ==
  /\ "install" \in env.operations /\ Free(c)
  /\ \/ /\ k \in installed /\ "reinstall" \in env.hardships
        /\ installed' = installed \ {k} /\ UNCHANGED calls
     \/ k \notin installed /\ installed' = installed \cup {k} /\ UNCHANGED calls
     \/ /\ k \notin installed /\ installed' = installed \cup {k}
        /\ \E p \in Projects :
             calls' = [calls EXCEPT ![c] =
                         [req |-> [op |-> "copied", project |-> p, skill |-> k], read |-> store]]
  /\ UNCHANGED <<store, used, env>>

\* What was copied is still there, and the state is read.
AutoEnable(c) ==
  /\ Op(c, "copied") /\ calls[c].req.skill \in installed
  /\ Goes(c, "binding", store)
  /\ UNCHANGED <<store, used, installed, env>>

\* The project is gone, or it has a skill enabled that is not installed.
CannotLink(p) == p \notin store.projects \/ ~ (store.skills[p] \subseteq installed)

\* A step of an installation throws, and the directory of the skill is removed.
InstallFails(c) ==
  /\ \/ Op(c, "copied") \/ Op(c, "binding")
     \/ Op(c, "linking") /\ ("sync" \in env.hardships \/ CannotLink(calls[c].req.project))
  /\ installed' = installed \ {calls[c].req.skill}
  /\ Done(c) /\ UNCHANGED <<store, used, env>>

\* Mutant: a skill is removed whoever uses it.
RemoveReferenced(c) ==
  /\ Op(c, "remove")
  /\ installed' = installed \ {calls[c].req.skill}
  /\ Done(c) /\ UNCHANGED <<store, used, env>>

\* A skill that no project of the state uses is removed.
RemoveSkill(c) ==
  /\ Op(c, "remove")
  /\ \A p \in calls[c].read.projects : calls[c].req.skill \notin calls[c].read.skills[p]
  /\ installed' = installed \ {calls[c].req.skill}
  /\ Done(c) /\ UNCHANGED <<store, used, env>>

-----------------------------------------------------------------------------

Starting == [c \in Clients |->
               IF c = Server THEN [req |-> Backfill, read |-> store] ELSE Idle]

\* The calls are cut off and the projects are completed.
Restart ==
  /\ calls' = Starting
  /\ UNCHANGED <<store, used, installed, env>>

Init ==
  /\ env \in Envs
  /\ store = [projects |-> {}, chat |-> [p \in Projects |-> NoChat],
              status |-> [p \in Projects |-> "disabled"], skills |-> [p \in Projects |-> {}],
              role |-> [p \in Projects |-> [u \in Users |-> NoRole]]]
  /\ used = {} /\ installed = {}
  /\ calls = Starting

Project(c) == \/ \E p \in Projects : SetupFromInitCard(c, p)
              \/ BindExistingProject(c) \/ DisableAndUnbindProjectById(c)
              \/ DisableAndUnbindProjectByChatId(c) \/ UpdateProject(c) \/ ToggleProjectStatus(c)
              \/ ReactivateProject(c) \/ DeleteProjectById(c)
Member(c) == EnsureProjectMember(c) \/ UpdateProjectMemberRole(c) \/ RemoveProjectMember(c)
Skill(c) == \/ BindToProject(c) \/ UnbindFromProject(c) \/ RemoveSkill(c)
            \/ \E k \in Skills : InstallFromLocalSource(c, k)
            \/ AutoEnable(c) \/ InstallFails(c)

Next == \/ \E c \in Callers : Read(c) \/ Refused(c) \/ Project(c) \/ Member(c) \/ Skill(c)
        \/ BackfillProjects \/ Refused(Server) \/ Restart

Spec == Init /\ [][Next]_vars

-----------------------------------------------------------------------------
(* Properties                                                              *)

\* A chat resolves to one project, however the calls overlap: the state a call
\* writes has the chats of the state its check was made on.
ChatOwned == \A p, q \in store.projects :
  p # q /\ store.chat[p] # NoChat => store.chat[p] # store.chat[q]

\* Nobody keeps a role in a project that is not there, however the calls overlap:
\* a call that read the state before the project was deleted may write the roles
\* back, but then it writes the project back with them.
MembersOwned == \A p \in Projects \ store.projects : \A u \in Users : store.role[p][u] = NoRole

\* Calls that do not overlap keep what was deleted deleted.
DeletedStays == [][Without({"overlap"}) =>
                     \A p \in used : p \notin store.projects => p \notin store'.projects]_vars

\* A skill a project has enabled is installed: every turn of the project links the
\* enabled skills first, and does not start if one is missing.  It holds through
\* enabling, removing and installing skills, with or without a project, and what
\* fails meanwhile, as long as no call overlaps, no name is installed twice and an
\* installation that has enabled its skill can link it.
SkillsInstalled == Without({"overlap", "reinstall", "sync"}) =>
  \A p \in store.projects : store.skills[p] \subseteq installed
=============================================================================
