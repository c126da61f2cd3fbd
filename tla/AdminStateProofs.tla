-------------------------- MODULE AdminStateProofs --------------------------
(***************************************************************************)
(* Proofs about AdminState, for any projects, chats, users, skills, calls  *)
(* and environments.  The stored state is always a whole that some call    *)
(* wrote, and every change keeps a good state good: that carries through   *)
(* the copies the calls hold, however stale, and is why ChatOwned and      *)
(* MembersOwned need no order of the calls.  What does need it is proved   *)
(* from Alone: without overlap a pending call holds the stored state.      *)
(***************************************************************************)
EXTENDS AdminState, TLAPS

\* What ChatOwned and MembersOwned say of the stored state, of any state; nor do
\* skills stay of a project that is not there.
Owned(s) == \A p, q \in s.projects : p # q /\ s.chat[p] # NoChat => s.chat[p] # s.chat[q]
Emptied(s) == \A p \in Projects \ s.projects :
  s.skills[p] = {} /\ \A u \in Users : s.role[p][u] = NoRole
Good(s) == s \in States /\ Owned(s) /\ Emptied(s)

\* The stored state and the copies the calls hold are good, and no copy knows a
\* project that was not created.
Copies == /\ Good(store)
          /\ \A c \in Clients : Pending(c) => Good(calls[c].read) /\ calls[c].read.projects \subseteq used

\* Without overlap there is one pending call, and its copy is the stored state.
Alone == Without({"overlap"}) =>
  /\ \A c, d \in Clients : Pending(c) /\ Pending(d) => c = d
  /\ \A c \in Clients : Pending(c) => calls[c].read = store

\* What a call checked before it read is still so: a skill to be enabled is there.
\* No project has the skill of an installation yet, and the project that gets it
\* is there while its skills are linked.
Orderly == Without({"overlap", "reinstall", "sync"})
Still == Orderly => \A c \in Clients :
  /\ Op(c, "enable") \/ Op(c, "binding") => calls[c].req.skill \in installed
  /\ Op(c, "copied") \/ Op(c, "binding") =>
       \A p \in store.projects : calls[c].req.skill \notin store.skills[p]
  /\ Op(c, "linking") => calls[c].req.project \in store.projects

IInv == TypeOK /\ Copies /\ Alone /\ Still /\ SkillsInstalled

-----------------------------------------------------------------------------
(* Changes keep a good state good.                                         *)

\* A chat that has no project gets one.
LEMMA AttachedGood ==
  ASSUME NEW s, Good(s), NEW p \in Projects, NEW g \in Chats, ~ Bound(s, g)
  PROVE  /\ Good(Attached(s, p, g)) /\ p \in Attached(s, p, g).projects
         /\ Attached(s, p, g).projects = s.projects \cup {p}
         /\ Attached(s, p, g).skills = s.skills
<1> DEFINE t == Attached(s, p, g)
<1>1. t \in States /\ t.projects = s.projects \cup {p} /\ t.role = s.role /\ t.skills = s.skills
      /\ t.chat = [s.chat EXCEPT ![p] = g]
  BY DEF Good, States, Attached
<1>2. Owned(t)
  BY <1>1 DEF Good, States, Owned, Bound
<1>3. Emptied(t)
  BY <1>1 DEF Good, Emptied
<1> QED BY <1>1, <1>2, <1>3 DEF Good

\* A role is given in a project of the state.
LEMMA JoinedGood ==
  ASSUME NEW s, Good(s), NEW p \in s.projects, NEW u \in Users, NEW r \in Roles
  PROVE  /\ Good(Joined(s, p, u, r)) /\ Joined(s, p, u, r).projects = s.projects
         /\ Joined(s, p, u, r).skills = s.skills
<1> DEFINE t == Joined(s, p, u, r)
<1>1. p \in Projects
  BY DEF Good, States
<1>2. t \in States /\ t.projects = s.projects /\ t.chat = s.chat /\ t.skills = s.skills
      /\ \A q \in Projects \ {p} : t.role[q] = s.role[q]
  BY <1>1 DEF Good, States, Joined, WithRole
<1>3. Owned(t) /\ Emptied(t)
  BY <1>2 DEF Good, Owned, Emptied
<1> QED BY <1>2, <1>3 DEF Good

\* A project gives its chat up.
LEMMA DisabledGood ==
  ASSUME NEW s, Good(s), NEW p \in Projects
  PROVE  /\ Good(DisabledAndUnbound(s, p)) /\ DisabledAndUnbound(s, p).projects = s.projects
         /\ DisabledAndUnbound(s, p).skills = s.skills
<1> DEFINE t == DisabledAndUnbound(s, p)
<1>1. t \in States /\ t.projects = s.projects /\ t.role = s.role /\ t.skills = s.skills
      /\ t.chat = [s.chat EXCEPT ![p] = NoChat]
  BY DEF Good, States, DisabledAndUnbound
<1>2. Owned(t) /\ Emptied(t)
  BY <1>1 DEF Good, States, Owned, Emptied
<1> QED BY <1>1, <1>2 DEF Good

\* A project goes, with its members.
LEMMA DeletedGood ==
  ASSUME NEW s, Good(s), NEW p \in Projects
  PROVE  /\ Good(Deleted(s, p)) /\ Deleted(s, p).projects = s.projects \ {p}
         /\ \A q \in Projects : Deleted(s, p).skills[q] \subseteq s.skills[q]
<1> DEFINE t == Deleted(s, p)
<1>1. t \in States /\ t.projects = s.projects \ {p}
      /\ t.chat = [s.chat EXCEPT ![p] = NoChat]
      /\ t.skills = [s.skills EXCEPT ![p] = {}]
      /\ t.role = [s.role EXCEPT ![p] = [u \in Users |-> NoRole]]
  BY DEF Good, States, Deleted
<1>2. Owned(t)
  BY <1>1 DEF Good, States, Owned
<1>3. Emptied(t)
  BY <1>1 DEF Good, States, Emptied
<1>4. \A q \in Projects : t.skills[q] \subseteq s.skills[q]
  BY <1>1 DEF Good, States
<1> QED BY <1>1, <1>2, <1>3, <1>4 DEF Good

\* A status or the skills of a project change.
LEMMA StatusGood ==
  ASSUME NEW s, Good(s), NEW p \in Projects, NEW a \in {"active", "disabled"}
  PROVE  /\ Good(WithStatus(s, p, a)) /\ WithStatus(s, p, a).projects = s.projects
         /\ WithStatus(s, p, a).skills = s.skills
<1> DEFINE t == WithStatus(s, p, a)
<1>1. t \in States /\ t.projects = s.projects /\ t.role = s.role /\ t.skills = s.skills /\ t.chat = s.chat
  BY DEF Good, States, WithStatus
<1> QED BY <1>1 DEF Good, Owned, Emptied

LEMMA SkillsGood ==
  ASSUME NEW s, Good(s), NEW p \in s.projects, NEW K \in SUBSET Skills
  PROVE  /\ Good(WithSkills(s, p, K)) /\ WithSkills(s, p, K).projects = s.projects
         /\ WithSkills(s, p, K).skills = [s.skills EXCEPT ![p] = K]
<1> DEFINE t == WithSkills(s, p, K)
<1>0. p \in Projects
  BY DEF Good, States
<1>1. t \in States /\ t.projects = s.projects /\ t.role = s.role /\ t.chat = s.chat
      /\ t.skills = [s.skills EXCEPT ![p] = K]
  BY <1>0 DEF Good, States, WithSkills
<1>2. Owned(t)
  BY <1>1 DEF Good, Owned
<1>3. Emptied(t)
  BY <1>0, <1>1 DEF Good, States, Emptied
<1> QED BY <1>1, <1>2, <1>3 DEF Good

\* A role of a member changes or is taken away.
LEMMA RoleGood ==
  ASSUME NEW s, Good(s), NEW p \in Projects, NEW u \in Users, NEW r \in Roles \cup {NoRole},
         s.role[p][u] # NoRole \/ r = NoRole
  PROVE  /\ Good(WithRole(s, p, u, r)) /\ WithRole(s, p, u, r).projects = s.projects
         /\ WithRole(s, p, u, r).skills = s.skills
<1> DEFINE t == WithRole(s, p, u, r)
<1>1. t \in States /\ t.projects = s.projects /\ t.chat = s.chat /\ t.skills = s.skills
      /\ t.role = [s.role EXCEPT ![p] = [s.role[p] EXCEPT ![u] = r]]
  BY DEF Good, States, WithRole
<1>2. Owned(t)
  BY <1>1 DEF Good, Owned
<1>3. Emptied(t)
  <2> SUFFICES ASSUME NEW q \in Projects \ t.projects, NEW v \in Users PROVE t.role[q][v] = NoRole
    BY <1>1 DEF Good, Emptied
  <2>1. s.role[q][v] = NoRole /\ s.role \in [Projects -> [Users -> Roles \cup {NoRole}]]
    BY <1>1 DEF Good, States, Emptied
  <2>2. t.role[q][v] = IF q = p /\ v = u THEN r ELSE s.role[q][v]
    BY <1>1, <2>1
  <2> QED BY <2>1, <2>2
<1> QED BY <1>1, <1>2, <1>3 DEF Good

-----------------------------------------------------------------------------
(* Calls                                                                   *)

\* No change of a state adds a project but the one that binds it.
LEMMA Projected ==
  ASSUME NEW s, Good(s)
  PROVE  /\ \A p, g : Attached(s, p, g).projects = s.projects \cup {p}
         /\ \A p : DisabledAndUnbound(s, p).projects = s.projects
         /\ \A p : Deleted(s, p).projects \subseteq s.projects
         /\ \A p, a : WithStatus(s, p, a).projects = s.projects
         /\ \A p, K : WithSkills(s, p, K).projects = s.projects
         /\ \A p, u, r : WithRole(s, p, u, r).projects = s.projects
         /\ \A p, u, r : Joined(s, p, u, r).projects = s.projects
         /\ \A p, g, u, r : Joined(Attached(s, p, g), p, u, r).projects = s.projects \cup {p}
  BY DEF Good, States, Attached, DisabledAndUnbound, Deleted, WithStatus, WithSkills, WithRole, Joined

\* The fields of each kind of request.
LEMMA Fields ==
  ASSUME NEW r \in Requests \cup Stages \cup {Backfill}
  PROVE  /\ r.op = "setup" => r.chat \in Chats /\ r.user \in Users
         /\ r.op = "bind" => r.project \in Projects /\ r.chat \in Chats /\ r.user \in Users
         /\ r.op \in {"unlink", "update", "toggle", "reactivate", "delete"} => r.project \in Projects
         /\ r.op \in {"ensure", "role"} => r.project \in Projects /\ r.user \in Users /\ r.role \in Roles
         /\ r.op = "expel" => r.project \in Projects /\ r.user \in Users
         /\ r.op \in {"enable", "disable", "copied", "binding", "linking"} => r.project \in Projects /\ r.skill \in Skills
         /\ r.op = "remove" => r.skill \in Skills
  BY DEF Requests, Stages, Backfill

\* The skills of the projects of a state are installed, where that is promised.
Loaded(s) == Orderly => \A p \in s.projects : s.skills[p] \subseteq installed

\* Where all goes well, calls do not overlap.
LEMMA Orders == (Orderly => Without({"overlap"})) /\ (Orderly' => Without({"overlap"})')
  BY DEF Orderly, Without

\* What a pending call knows.
LEMMA Pended ==
  ASSUME IInv, NEW c \in Clients, Pending(c)
  PROVE  /\ calls[c].req \in Requests \cup Stages \cup {Backfill}
         /\ Good(calls[c].read) /\ calls[c].read.projects \subseteq used
         /\ calls[c].read.projects \subseteq Projects
         /\ Loaded(calls[c].read)
<1>1. calls[c] \in Call /\ calls[c] # Idle
  BY DEF IInv, TypeOK, Pending
<1>2. calls[c].req \in Requests \cup Stages \cup {Backfill}
  BY <1>1 DEF Call
<1>3. Good(calls[c].read) /\ calls[c].read.projects \subseteq used
  BY DEF IInv, Copies
<1>4. Loaded(calls[c].read)
  BY Orders DEF Loaded, IInv, Alone, SkillsInstalled, Orderly
<1> QED BY <1>2, <1>3, <1>4 DEF Good, States

\* A call that is done takes nothing of the invariant away: where all goes well
\* no other is pending.
LEMMA DoneKeeps ==
  ASSUME IInv, NEW c \in Clients, Pending(c), Done(c), Good(store'), SkillsInstalled',
         store'.projects \subseteq used', used \subseteq used', used' \subseteq Projects,
         installed' \subseteq Skills, UNCHANGED env
  PROVE  IInv'
<1>1. calls' \in [Clients -> Call] /\ ~ Pending(c)'
      /\ \A d \in Clients : Pending(d)' => Pending(d) /\ d # c /\ calls'[d] = calls[d]
  BY DEF IInv, TypeOK, Done, Pending, Call
<1>2. TypeOK'
  BY <1>1 DEF IInv, TypeOK, Good
<1>3. Copies'
  BY <1>1 DEF IInv, Copies, Good, Owned, Emptied
<1>4. Without({"overlap"})' => \A d \in Clients : ~ Pending(d)'
  BY <1>1 DEF IInv, Alone, Without
<1>5. Alone' /\ Still'
  BY <1>4, Orders DEF Alone, Still, Op, Pending
<1> QED BY <1>2, <1>3, <1>5 DEF IInv

\* So does one that has written a good state,
LEMMA WrittenKeeps ==
  ASSUME IInv, NEW c \in Clients, Pending(c), Done(c), NEW s, store' = s, Good(s), Loaded(s),
         s.projects \subseteq used', used \subseteq used', used' \subseteq Projects,
         UNCHANGED <<installed, env>>
  PROVE  IInv'
<1>1. SkillsInstalled' /\ installed' \subseteq Skills
  BY DEF IInv, TypeOK, Loaded, SkillsInstalled, Orderly, Without
<1> QED BY <1>1, DoneKeeps

\* and one that writes it with its last step.
LEMMA WriteKeeps ==
  ASSUME IInv, NEW c \in Clients, Pending(c), NEW s, Good(s), Loaded(s), s.projects \subseteq used,
         Write(c, s)
  PROVE  IInv'
<1>1. Done(c) /\ store' = s /\ UNCHANGED <<used, installed, env>>
  BY DEF Write
<1>2. used \subseteq Projects
  BY DEF IInv, TypeOK
<1> QED BY <1>1, <1>2, WrittenKeeps

-----------------------------------------------------------------------------
(* The writes of projects                                                  *)

LEMMA SetupKeeps ==
  ASSUME IInv, NEW c \in Clients, NEW p \in Projects, SetupFromInitCard(c, p)
  PROVE  IInv'
<1> DEFINE s == calls[c].read
           t == Attached(s, p, calls[c].req.chat)
           v == Joined(t, p, calls[c].req.user, "maintainer")
<1>1. Pending(c) /\ calls[c].req.op = "setup" /\ p \notin used /\ ~ Bound(s, calls[c].req.chat)
      /\ used' = used \cup {p} /\ store' = v /\ Done(c) /\ UNCHANGED <<installed, env>>
  BY DEF SetupFromInitCard, Op, Pending
<1>2. Good(s) /\ Loaded(s) /\ s.projects \subseteq used
      /\ calls[c].req.chat \in Chats /\ calls[c].req.user \in Users
  BY <1>1, Pended, Fields
<1>3. Good(t) /\ p \in t.projects /\ t.projects = s.projects \cup {p} /\ t.skills = s.skills
  BY <1>1, <1>2, AttachedGood
<1>4. Good(v) /\ v.projects = t.projects /\ v.skills = t.skills
  BY <1>3, <1>2, JoinedGood, AdminAssumption
<1>5. Loaded(v)
  <2>1. s.skills[p] = {}
    BY <1>1, <1>2 DEF Good, Emptied
  <2> QED BY <2>1, <1>2, <1>3, <1>4 DEF Loaded
<1>6. used \subseteq Projects /\ v.projects \subseteq used'
  BY <1>1, <1>2, <1>3, <1>4 DEF IInv, TypeOK
<1> QED BY <1>1, <1>4, <1>5, <1>6, WrittenKeeps

LEMMA BindKeeps ==
  ASSUME IInv, NEW c \in Clients, BindExistingProject(c)
  PROVE  IInv'
<1> DEFINE s == calls[c].read
           p == calls[c].req.project
           t == Attached(s, p, calls[c].req.chat)
           v == Joined(t, p, calls[c].req.user, "maintainer")
<1>1. Pending(c) /\ calls[c].req.op = "bind" /\ p \in s.projects /\ ~ Bound(s, calls[c].req.chat)
      /\ Write(c, v)
  BY DEF BindExistingProject, Op, Pending
<1>2. Good(s) /\ Loaded(s) /\ s.projects \subseteq used /\ p \in Projects
      /\ calls[c].req.chat \in Chats /\ calls[c].req.user \in Users
  BY <1>1, Pended, Fields
<1>3. Good(t) /\ p \in t.projects /\ t.projects = s.projects /\ t.skills = s.skills
  <2>1. Good(t) /\ p \in t.projects /\ t.projects = s.projects \cup {p} /\ t.skills = s.skills
    BY <1>1, <1>2, AttachedGood
  <2>2. s.projects \cup {p} = s.projects
    BY <1>1
  <2> QED BY <2>1, <2>2
<1>4. Good(v) /\ v.projects = t.projects /\ v.skills = t.skills
  BY <1>3, <1>2, JoinedGood, AdminAssumption
<1>5. Loaded(v) /\ v.projects \subseteq used
  BY <1>2, <1>3, <1>4 DEF Loaded
<1> QED BY <1>1, <1>4, <1>5, WriteKeeps

LEMMA UnlinkKeeps ==
  ASSUME IInv, NEW c \in Clients, Pending(c), NEW p \in calls[c].read.projects,
         Write(c, DisabledAndUnbound(calls[c].read, p))
  PROVE  IInv'
<1> DEFINE s == calls[c].read
           t == DisabledAndUnbound(s, p)
<1>1. Good(s) /\ Loaded(s) /\ s.projects \subseteq used /\ p \in Projects
  BY Pended
<1>2. Good(t) /\ t.projects = s.projects /\ t.skills = s.skills
  BY <1>1, DisabledGood
<1>3. Loaded(t) /\ t.projects \subseteq used
  BY <1>1, <1>2 DEF Loaded
<1> QED BY <1>2, <1>3, WriteKeeps

LEMMA StatusKeeps ==
  ASSUME IInv, NEW c \in Clients, Pending(c), NEW p \in calls[c].read.projects,
         NEW a \in {"active", "disabled"}, Write(c, WithStatus(calls[c].read, p, a))
  PROVE  IInv'
<1> DEFINE s == calls[c].read
           t == WithStatus(s, p, a)
<1>1. Good(s) /\ Loaded(s) /\ s.projects \subseteq used /\ p \in Projects
  BY Pended
<1>2. Good(t) /\ t.projects = s.projects /\ t.skills = s.skills
  BY <1>1, StatusGood
<1>3. Loaded(t) /\ t.projects \subseteq used
  BY <1>1, <1>2 DEF Loaded
<1> QED BY <1>2, <1>3, WriteKeeps

LEMMA DeleteKeeps ==
  ASSUME IInv, NEW c \in Clients, DeleteProjectById(c)
  PROVE  IInv'
<1> DEFINE s == calls[c].read
           p == calls[c].req.project
           t == Deleted(s, p)
<1>1. Pending(c) /\ p \in s.projects /\ Write(c, t)
  BY DEF DeleteProjectById, Op, Pending
<1>2. Good(s) /\ Loaded(s) /\ s.projects \subseteq used /\ s.projects \subseteq Projects
  BY <1>1, Pended
<1>3. Good(t) /\ t.projects = s.projects \ {p} /\ \A q \in Projects : t.skills[q] \subseteq s.skills[q]
  BY <1>1, <1>2, DeletedGood
<1>4. Loaded(t) /\ t.projects \subseteq used
  BY <1>2, <1>3 DEF Loaded
<1> QED BY <1>1, <1>3, <1>4, WriteKeeps

\* A call that writes what it read, as an update or the startup does.
LEMMA SameKeeps ==
  ASSUME IInv, NEW c \in Clients, Pending(c), Write(c, calls[c].read)
  PROVE  IInv'
  BY Pended, WriteKeeps

LEMMA ProjectKeeps ==
  ASSUME IInv, NEW c \in Callers, Project(c)
  PROVE  IInv'
<1>0. c \in Clients
  BY DEF Clients
<1>1. ASSUME NEW p \in Projects, SetupFromInitCard(c, p) PROVE IInv'
  BY <1>0, <1>1, SetupKeeps
<1>2. CASE BindExistingProject(c)
  BY <1>0, <1>2, BindKeeps
<1>3. CASE DisableAndUnbindProjectById(c)
  BY <1>0, <1>3, UnlinkKeeps DEF DisableAndUnbindProjectById, Op, Pending
<1>4. CASE DisableAndUnbindProjectByChatId(c)
  BY <1>0, <1>4, UnlinkKeeps DEF DisableAndUnbindProjectByChatId, Op, Pending
<1>5. CASE UpdateProject(c)
  BY <1>0, <1>5, SameKeeps DEF UpdateProject, Op, Pending
<1>6. CASE ToggleProjectStatus(c)
  BY <1>0, <1>6, StatusKeeps DEF ToggleProjectStatus, Op, Pending
<1>7. CASE ReactivateProject(c)
  BY <1>0, <1>7, StatusKeeps DEF ReactivateProject, Op, Pending
<1>8. CASE DeleteProjectById(c)
  BY <1>0, <1>8, DeleteKeeps
<1> QED BY <1>1, <1>2, <1>3, <1>4, <1>5, <1>6, <1>7, <1>8 DEF Project

-----------------------------------------------------------------------------
(* The writes of members and skills                                        *)

LEMMA EnsureKeeps ==
  ASSUME IInv, NEW c \in Clients, EnsureProjectMember(c)
  PROVE  IInv'
<1> DEFINE s == calls[c].read
           r == calls[c].req
           t == Joined(s, r.project, r.user, r.role)
<1>1. Pending(c) /\ r.op = "ensure" /\ r.project \in s.projects /\ Write(c, t)
  BY DEF EnsureProjectMember, Op, Pending
<1>2. Good(s) /\ Loaded(s) /\ s.projects \subseteq used /\ r.user \in Users /\ r.role \in Roles
  BY <1>1, Pended, Fields
<1>3. Good(t) /\ t.projects = s.projects /\ t.skills = s.skills
  BY <1>1, <1>2, JoinedGood
<1>4. Loaded(t) /\ t.projects \subseteq used
  BY <1>2, <1>3 DEF Loaded
<1> QED BY <1>1, <1>3, <1>4, WriteKeeps

\* A role changes, of a member or to none.
LEMMA RoleKeeps ==
  ASSUME IInv, NEW c \in Clients, Pending(c), NEW p \in Projects, NEW u \in Users,
         NEW r \in Roles \cup {NoRole}, calls[c].read.role[p][u] # NoRole \/ r = NoRole,
         Write(c, WithRole(calls[c].read, p, u, r))
  PROVE  IInv'
<1> DEFINE s == calls[c].read
           t == WithRole(s, p, u, r)
<1>1. Good(s) /\ Loaded(s) /\ s.projects \subseteq used
  BY Pended
<1>2. Good(t) /\ t.projects = s.projects /\ t.skills = s.skills
  BY <1>1, RoleGood
<1>3. Loaded(t) /\ t.projects \subseteq used
  BY <1>1, <1>2 DEF Loaded
<1> QED BY <1>2, <1>3, WriteKeeps

LEMMA UpdateRoleKeeps ==
  ASSUME IInv, NEW c \in Clients, UpdateProjectMemberRole(c)
  PROVE  IInv'
<1> DEFINE s == calls[c].read
           r == calls[c].req
<1>1. Pending(c) /\ r.op = "role"
      /\ Write(c, IF s.role[r.project][r.user] = NoRole THEN s ELSE WithRole(s, r.project, r.user, r.role))
  BY DEF UpdateProjectMemberRole, Op, Pending
<1>2. r.project \in Projects /\ r.user \in Users /\ r.role \in Roles
  BY <1>1, Pended, Fields
<1>3. CASE s.role[r.project][r.user] = NoRole
  BY <1>1, <1>3, SameKeeps
<1>4. CASE s.role[r.project][r.user] # NoRole
  BY <1>1, <1>2, <1>4, RoleKeeps
<1> QED BY <1>3, <1>4

LEMMA ExpelKeeps ==
  ASSUME IInv, NEW c \in Clients, RemoveProjectMember(c)
  PROVE  IInv'
<1>1. Pending(c) /\ calls[c].req.op = "expel"
      /\ Write(c, WithRole(calls[c].read, calls[c].req.project, calls[c].req.user, NoRole))
  BY DEF RemoveProjectMember, Op, Pending
<1>2. calls[c].req.project \in Projects /\ calls[c].req.user \in Users
  BY <1>1, Pended, Fields
<1> QED BY <1>1, <1>2, RoleKeeps

\* The skills of a project change.
LEMMA SkillsKept ==
  ASSUME IInv, NEW c \in Clients, Pending(c), NEW p \in calls[c].read.projects, NEW K \in SUBSET Skills,
         Orderly => K \subseteq installed \cup calls[c].read.skills[p]
  PROVE  LET t == WithSkills(calls[c].read, p, K)
         IN Good(t) /\ Loaded(t) /\ t.projects \subseteq used /\ p \in t.projects
<1> DEFINE s == calls[c].read
           t == WithSkills(s, p, K)
<1>1. Good(s) /\ Loaded(s) /\ s.projects \subseteq used /\ s.projects \subseteq Projects
  BY Pended
<1>2. Good(t) /\ t.projects = s.projects /\ t.skills = [s.skills EXCEPT ![p] = K]
  BY <1>1, SkillsGood
<1>3. s.skills \in [Projects -> SUBSET Skills]
  BY <1>1 DEF Good, States
<1>4. Loaded(t)
  BY <1>1, <1>2, <1>3 DEF Loaded
<1> QED BY <1>1, <1>2, <1>4

\* A call goes on to its next stage.
LEMMA GoesKeeps ==
  ASSUME IInv, NEW c \in Clients, Pending(c), Op(c, "copied") \/ Op(c, "binding"),
         NEW stage \in {"binding", "linking"}, Goes(c, stage, store'), Good(store'), SkillsInstalled',
         store'.projects \subseteq used, UNCHANGED <<used, installed, env>>,
         Orderly /\ stage = "binding" =>
           /\ calls[c].req.skill \in installed
           /\ \A p \in store'.projects : calls[c].req.skill \notin store'.skills[p],
         stage = "linking" => calls[c].req.project \in store'.projects
  PROVE  IInv'
<1> DEFINE r == [op |-> stage, project |-> calls[c].req.project, skill |-> calls[c].req.skill]
<1>1. calls[c].req.project \in Projects /\ calls[c].req.skill \in Skills
  BY Pended, Fields DEF Op
<1>2. r \in Stages /\ r.op = stage /\ r.project = calls[c].req.project /\ r.skill = calls[c].req.skill
  BY <1>1 DEF Stages
<1>3. calls' = [calls EXCEPT ![c] = [req |-> r, read |-> store']]
  BY DEF Goes
<1>4. calls' \in [Clients -> Call] /\ calls'[c] = [req |-> r, read |-> store']
      /\ \A d \in Clients : d # c => calls'[d] = calls[d]
  BY <1>2, <1>3 DEF IInv, TypeOK, Call, Good
<1>5. TypeOK'
  BY <1>4 DEF IInv, TypeOK, Good
<1>6. Copies'
  <2>1. Good(store)' /\ store'.projects \subseteq used'
    BY DEF Good, Owned, Emptied
  <2>2. ASSUME NEW d \in Clients, Pending(d)'
        PROVE  Good(calls[d].read)' /\ calls'[d].read.projects \subseteq used'
    <3>1. CASE d = c
      BY <2>1, <3>1, <1>4 DEF Good, Owned, Emptied
    <3>2. CASE d # c
      BY <2>2, <3>2, <1>4 DEF IInv, Copies, Pending, Good, Owned, Emptied
    <3> QED BY <3>1, <3>2
  <2> QED BY <2>1, <2>2 DEF Copies
<1>7. Without({"overlap"})' => \A d \in Clients : Pending(d)' => d = c
  BY <1>4 DEF IInv, Alone, Pending, Without
<1>8. Alone'
  BY <1>4, <1>7 DEF Alone
<1>9. Still'
  <2> SUFFICES ASSUME Orderly', NEW d \in Clients
               PROVE  /\ (Op(d, "enable") \/ Op(d, "binding") => calls[d].req.skill \in installed)'
                      /\ (Op(d, "copied") \/ Op(d, "binding") =>
                            \A p \in store.projects : calls[d].req.skill \notin store.skills[p])'
                      /\ (Op(d, "linking") => calls[d].req.project \in store.projects)'
    BY DEF Still
  <2>1. Orderly
    BY DEF Orderly, Without
  <2>2. CASE d # c
    BY <2>2, <1>7, Orders DEF Op, Pending
  <2>3. CASE d = c
    BY <2>1, <2>3, <1>2, <1>4 DEF Op
  <2> QED BY <2>2, <2>3
<1> QED BY <1>5, <1>6, <1>8, <1>9 DEF IInv

\* A skill is enabled.
LEMMA EnableKeeps ==
  ASSUME IInv, NEW c \in Clients, BindToProject(c)
  PROVE  IInv'
<1> DEFINE s == calls[c].read
           p == calls[c].req.project
           k == calls[c].req.skill
           t == WithSkills(s, p, s.skills[p] \cup {k})
<1>1. Pending(c) /\ (Op(c, "enable") \/ Op(c, "binding")) /\ p \in s.projects /\ store' = t
      /\ UNCHANGED <<used, installed, env>>
      /\ (Op(c, "enable") => Done(c)) /\ (Op(c, "binding") => Goes(c, "linking", t))
  BY DEF BindToProject, Op, Pending
<1>2. k \in Skills /\ Good(s) /\ p \in Projects
  BY <1>1, Pended, Fields DEF Op
<1>3. s.skills[p] \cup {k} \in SUBSET Skills
  BY <1>2 DEF Good, States
<1>4. Orderly => k \in installed
  BY <1>1 DEF IInv, Still
<1>5. Good(t) /\ Loaded(t) /\ t.projects \subseteq used /\ p \in t.projects
  BY <1>1, <1>3, <1>4, SkillsKept
<1>6. SkillsInstalled'
  BY <1>1, <1>5 DEF Loaded, SkillsInstalled, Orderly, Without
<1>7. CASE Op(c, "enable")
  <2>1. used \subseteq Projects
    BY DEF IInv, TypeOK
  <2> QED BY <2>1, <1>1, <1>5, <1>7, WrittenKeeps
<1>8. CASE Op(c, "binding")
  BY <1>1, <1>5, <1>6, <1>8, GoesKeeps
<1> QED BY <1>1, <1>7, <1>8

LEMMA DisableKeeps ==
  ASSUME IInv, NEW c \in Clients, UnbindFromProject(c)
  PROVE  IInv'
<1> DEFINE s == calls[c].read
           p == calls[c].req.project
           K == s.skills[p] \ {calls[c].req.skill}
<1>1. Pending(c) /\ p \in s.projects /\ Write(c, WithSkills(s, p, K))
  BY DEF UnbindFromProject, Op, Pending
<1>2. Good(s) /\ p \in Projects
  BY <1>1, Pended
<1>3. K \in SUBSET Skills /\ K \subseteq s.skills[p]
  BY <1>2 DEF Good, States
<1>4. Good(WithSkills(s, p, K)) /\ Loaded(WithSkills(s, p, K)) /\ WithSkills(s, p, K).projects \subseteq used
  BY <1>1, <1>3, SkillsKept
<1> QED BY <1>1, <1>4, WriteKeeps

-----------------------------------------------------------------------------
(* Reads, skills, restarts                                                 *)

LEMMA ReadKeeps ==
  ASSUME IInv, NEW c \in Callers, Read(c)
  PROVE  IInv'
<1>1. PICK r \in Requests : Checked(r) /\ calls' = [calls EXCEPT ![c] = [req |-> r, read |-> store]]
  BY DEF Read
<1>2. c \in Clients /\ UNCHANGED <<store, used, installed, env>>
      /\ (Without({"overlap"}) => \A d \in Clients : ~ Pending(d))
  BY DEF Read, Free, Clients, Without
<1>3. calls' \in [Clients -> Call] /\ calls'[c] = [req |-> r, read |-> store]
      /\ \A d \in Clients : d # c => calls'[d] = calls[d]
  BY <1>1, <1>2 DEF IInv, TypeOK, Call
<1>4. TypeOK'
  BY <1>2, <1>3 DEF IInv, TypeOK
<1>5. Copies'
  BY <1>2, <1>3 DEF IInv, TypeOK, Copies, Pending, Good, Owned, Emptied
<1>6. Alone'
  BY <1>2, <1>3 DEF Alone, Pending, Without
<1>7. Still'
  <2>1. ASSUME Orderly', NEW d \in Clients, Pending(d)' PROVE d = c
    BY <2>1, <1>2, <1>3, Orders DEF Pending, Without
  <2>2. r.op = "enable" => r.skill \in installed
    BY <1>1 DEF Checked
  <2>3. r.op \notin {"copied", "binding", "linking"}
    BY DEF Requests
  <2> QED BY <2>1, <2>2, <2>3, <1>2, <1>3 DEF Still, Op, Pending
<1>8. SkillsInstalled'
  BY <1>2 DEF IInv, SkillsInstalled, Without
<1> QED BY <1>4, <1>5, <1>6, <1>7, <1>8 DEF IInv

LEMMA RefusedKeeps ==
  ASSUME IInv, NEW c \in Clients, Refused(c)
  PROVE  IInv'
<1>1. Pending(c) /\ Done(c) /\ store' = store /\ UNCHANGED <<used, installed, env>>
  BY DEF Refused
<1>2. Good(store) /\ store.projects \subseteq used /\ used \subseteq Projects
  BY DEF IInv, Copies, TypeOK
<1>3. Loaded(store)
  BY DEF IInv, SkillsInstalled, Loaded, Orderly
<1> QED BY <1>1, <1>2, <1>3, WrittenKeeps

\* A skill appears, perhaps to be enabled; one that was there goes only where a
\* name is installed twice.
LEMMA InstallKeeps ==
  ASSUME IInv, NEW c \in Callers, NEW k \in Skills, InstallFromLocalSource(c, k)
  PROVE  IInv'
<1>1. UNCHANGED <<store, used, env>> /\ installed' \subseteq Skills
      /\ (Orderly => k \notin installed /\ installed' = installed \cup {k})
      /\ c \in Clients /\ (Without({"overlap"}) => \A d \in Clients : ~ Pending(d))
  BY DEF InstallFromLocalSource, Free, Clients, IInv, TypeOK, Orderly, Without
<1>2. SkillsInstalled'
  BY <1>1 DEF IInv, SkillsInstalled, Orderly, Without
<1>3. CASE UNCHANGED calls
  <2>1. TypeOK'
    BY <1>1, <1>3 DEF IInv, TypeOK
  <2>2. Copies'
    BY <1>1, <1>3 DEF IInv, Copies, Pending, Good, Owned, Emptied
  <2>3. Alone' /\ Still'
    BY <1>1, <1>3, Orders DEF IInv, Alone, Still, Op, Pending, Without
  <2> QED BY <2>1, <2>2, <2>3, <1>2 DEF IInv
<1>4. ASSUME NEW p \in Projects,
             calls' = [calls EXCEPT ![c] =
                         [req |-> [op |-> "copied", project |-> p, skill |-> k], read |-> store]]
      PROVE  IInv'
  <2> DEFINE r == [op |-> "copied", project |-> p, skill |-> k]
  <2>1. r \in Stages /\ r.op = "copied" /\ r.skill = k
    BY DEF Stages
  <2>2. calls' \in [Clients -> Call] /\ calls'[c] = [req |-> r, read |-> store]
        /\ \A d \in Clients : d # c => calls'[d] = calls[d]
    BY <2>1, <1>1, <1>4 DEF IInv, TypeOK, Call
  <2>3. TypeOK'
    BY <2>2, <1>1 DEF IInv, TypeOK
  <2>4. Copies'
    BY <2>2, <1>1 DEF IInv, TypeOK, Copies, Pending, Good, Owned, Emptied
  <2>5. Alone'
    BY <2>2, <1>1 DEF Alone, Pending, Without
  <2>6. Still'
    <3>1. ASSUME Orderly', NEW d \in Clients, Pending(d)' PROVE d = c
      BY <3>1, <1>1, <2>2, Orders DEF Pending, Without
    <3>2. Orderly' => \A q \in store.projects : k \notin store.skills[q]
      BY <1>1 DEF IInv, SkillsInstalled, Orderly, Without
    <3> QED BY <3>1, <3>2, <1>1, <2>1, <2>2 DEF Still, Op, Pending
  <2> QED BY <2>3, <2>4, <2>5, <2>6, <1>2 DEF IInv
<1> QED BY <1>3, <1>4 DEF InstallFromLocalSource

\* An installation reads the state to enable its skill.
LEMMA AutoEnableKeeps ==
  ASSUME IInv, NEW c \in Clients, AutoEnable(c)
  PROVE  IInv'
<1>1. Op(c, "copied") /\ Pending(c) /\ calls[c].req.skill \in installed /\ Goes(c, "binding", store)
      /\ UNCHANGED <<store, used, installed, env>>
  BY DEF AutoEnable, Op, Pending
<1>2. Good(store') /\ store'.projects \subseteq used
  BY <1>1 DEF IInv, TypeOK, Copies, Good, Owned, Emptied
<1>3. SkillsInstalled'
  BY <1>1 DEF IInv, SkillsInstalled, Without
<1>4. Orderly => \A p \in store'.projects : calls[c].req.skill \notin store'.skills[p]
  BY <1>1 DEF IInv, Still
<1> QED BY <1>1, <1>2, <1>3, <1>4, GoesKeeps

\* A skill goes that no project has enabled.
LEMMA RemovedKeeps ==
  ASSUME IInv, NEW c \in Clients, Pending(c), Done(c), UNCHANGED <<store, used, env>>,
         installed' = installed \ {calls[c].req.skill},
         Orderly => \A p \in store.projects : calls[c].req.skill \notin store.skills[p]
  PROVE  IInv'
<1>1. Good(store') /\ store'.projects \subseteq used' /\ used' \subseteq Projects /\ installed' \subseteq Skills
  BY DEF IInv, Copies, TypeOK
<1>2. SkillsInstalled'
  BY DEF IInv, SkillsInstalled, Orderly, Without
<1> QED BY <1>1, <1>2, DoneKeeps

LEMMA RemoveSkillKeeps ==
  ASSUME IInv, NEW c \in Clients, RemoveSkill(c)
  PROVE  IInv'
<1>1. Pending(c) /\ Done(c) /\ UNCHANGED <<store, used, env>>
      /\ installed' = installed \ {calls[c].req.skill}
      /\ \A p \in calls[c].read.projects : calls[c].req.skill \notin calls[c].read.skills[p]
  BY DEF RemoveSkill, Op, Pending
<1>2. Orderly => calls[c].read = store
  BY <1>1, Orders DEF IInv, Alone
<1> QED BY <1>1, <1>2, RemovedKeeps

\* Where all goes well an installation fails before its skill is enabled.
LEMMA InstallFailsKeeps ==
  ASSUME IInv, NEW c \in Clients, InstallFails(c)
  PROVE  IInv'
<1>1. Pending(c) /\ Done(c) /\ UNCHANGED <<store, used, env>>
      /\ installed' = installed \ {calls[c].req.skill}
  BY DEF InstallFails, Op, Pending
<1>2. ASSUME Orderly PROVE ~ Op(c, "linking") \/ ~ CannotLink(calls[c].req.project)
  BY <1>2 DEF IInv, Still, SkillsInstalled, Orderly, CannotLink
<1>3. ASSUME Orderly PROVE Op(c, "copied") \/ Op(c, "binding")
  BY <1>2, <1>3 DEF InstallFails, Orderly, Without
<1>4. Orderly => \A p \in store.projects : calls[c].req.skill \notin store.skills[p]
  BY <1>3 DEF IInv, Still
<1> QED BY <1>1, <1>4, RemovedKeeps

LEMMA StartingGood ==
  ASSUME Good(store), store.projects \subseteq used, calls' = Starting, UNCHANGED <<store, used, env>>
  PROVE  calls' \in [Clients -> Call] /\ Copies' /\ Alone' /\ Still'
<1>1. calls' \in [Clients -> Call]
      /\ \A c \in Clients : IF c = Server THEN calls'[c] = [req |-> Backfill, read |-> store]
                             ELSE calls'[c] = Idle
  BY DEF Starting, Good, Call
<1>2. \A c \in Clients : calls'[c] # Idle => c = Server /\ calls'[c].read = store /\ calls'[c].req = Backfill
  BY <1>1
<1>3. Copies' /\ Alone'
  BY <1>2 DEF Copies, Alone, Pending, Good, Owned, Emptied
<1>4. Still'
  BY <1>2 DEF Still, Op, Backfill
<1> QED BY <1>1, <1>3, <1>4

LEMMA RestartKeeps ==
  ASSUME IInv, Restart
  PROVE  IInv'
<1>1. calls' = Starting /\ UNCHANGED <<store, used, installed, env>>
  BY DEF Restart
<1>2. calls' \in [Clients -> Call] /\ Copies' /\ Alone' /\ Still'
  BY <1>1, StartingGood DEF IInv, Copies, TypeOK
<1>3. TypeOK' /\ SkillsInstalled'
  BY <1>1, <1>2 DEF IInv, TypeOK, SkillsInstalled, Without
<1> QED BY <1>2, <1>3 DEF IInv

-----------------------------------------------------------------------------
(* The theorems                                                            *)

LEMMA Initially == Init => IInv
<1> SUFFICES ASSUME Init PROVE IInv
  OBVIOUS
<1>1. Good(store) /\ store.projects = {} /\ \A p \in Projects : store.skills[p] = {}
  BY DEF Init, Good, States, Owned, Emptied
<1>2. calls \in [Clients -> Call]
      /\ \A c \in Clients : calls[c] # Idle => c = Server /\ calls[c].read = store /\ calls[c].req = Backfill
  BY <1>1 DEF Init, Starting, Call, Good
<1>4. TypeOK
  BY <1>1, <1>2 DEF Init, TypeOK, Good
<1>5. Copies /\ Alone
  BY <1>1, <1>2 DEF Copies, Alone, Pending, Init
<1>6. Still
  BY <1>2 DEF Still, Op, Backfill
<1>7. SkillsInstalled
  BY <1>1 DEF SkillsInstalled
<1> QED BY <1>4, <1>5, <1>6, <1>7 DEF IInv

LEMMA Inductive == IInv /\ [Next]_vars => IInv'
<1> SUFFICES ASSUME IInv, [Next]_vars PROVE IInv'
  OBVIOUS
<1>0. Server \in Clients /\ \A c \in Callers : c \in Clients
  BY DEF Clients
<1>1. ASSUME NEW c \in Callers, Read(c) PROVE IInv'
  BY <1>1, ReadKeeps
<1>2. ASSUME NEW c \in Clients, Refused(c) PROVE IInv'
  BY <1>2, RefusedKeeps
<1>3. ASSUME NEW c \in Callers, Project(c) PROVE IInv'
  BY <1>3, ProjectKeeps
<1>4. ASSUME NEW c \in Callers, Member(c) PROVE IInv'
  BY <1>0, <1>4, EnsureKeeps, UpdateRoleKeeps, ExpelKeeps DEF Member
<1>5. ASSUME NEW c \in Callers, Skill(c) PROVE IInv'
  BY <1>0, <1>5, EnableKeeps, DisableKeeps, RemoveSkillKeeps, InstallKeeps, AutoEnableKeeps,
     InstallFailsKeeps DEF Skill
<1>6. CASE BackfillProjects
  BY <1>0, <1>6, SameKeeps DEF BackfillProjects, Op, Pending
<1>7. CASE Restart
  BY <1>7, RestartKeeps
<1>8. CASE UNCHANGED vars
  BY <1>8 DEF vars, IInv, TypeOK, Copies, Alone, Still, SkillsInstalled, Orderly, Pending, Op,
              Without, Good, Owned, Emptied
<1> QED BY <1>0, <1>1, <1>2, <1>3, <1>4, <1>5, <1>6, <1>7, <1>8 DEF Next

\* The invariant holds of every behaviour of the state of administration: what a
\* call holds is a good state, however old.
THEOREM Invariant == Spec => []IInv
  BY Initially, Inductive, PTL DEF Spec

\* Every variable keeps the kind of value the code gives it.
THEOREM TypeCorrect == Spec => []TypeOK
<1>1. IInv => TypeOK
  BY DEF IInv
<1> QED BY <1>1, Invariant, PTL

\* Whichever calls overlap, a chat is bound to one project at most.
THEOREM OneProject == Spec => []ChatOwned
<1>1. IInv => ChatOwned
  BY DEF IInv, Copies, Good, Owned, ChatOwned
<1> QED BY <1>1, Invariant, PTL

\* Whichever calls overlap, nobody is left a member of a project that is gone.
THEOREM NoMemberLeft == Spec => []MembersOwned
<1>1. IInv => MembersOwned
  BY DEF IInv, Copies, Good, Emptied, MembersOwned
<1> QED BY <1>1, Invariant, PTL

\* Without overlapping calls, names installed twice and skills that cannot be
\* linked, what a project enables is installed, also when an installation that is
\* to enable its skill fails.
THEOREM Loadable == Spec => []SkillsInstalled
<1>1. IInv => SkillsInstalled
  BY DEF IInv
<1> QED BY <1>1, Invariant, PTL

\* Without overlapping calls a deleted project does not come back.
THEOREM DeletedGone == Spec => DeletedStays
<1> DEFINE Stays(p) == p \notin store.projects => p \notin store'.projects
<1>1. ASSUME IInv, [Next]_vars, Without({"overlap"}), NEW p \in used PROVE Stays(p)
  <2>1. ASSUME NEW c \in Clients, Pending(c)
        PROVE  calls[c].read = store /\ Good(store) /\ store.projects \subseteq Projects
               /\ calls[c].req \in Requests \cup Stages \cup {Backfill}
    BY <1>1, <2>1, Pended DEF IInv, Alone
  <2>2. Server \in Clients /\ \A c \in Callers : c \in Clients
    BY DEF Clients
  <2>3. ASSUME NEW c \in Callers, Project(c) PROVE Stays(p)
    <3>1. ASSUME NEW q \in Projects, SetupFromInitCard(c, q) PROVE Stays(p)
      BY <1>1, <2>1, <2>2, <3>1, Projected DEF SetupFromInitCard, Op, Pending
    <3>2. CASE BindExistingProject(c)
      BY <2>1, <2>2, <3>2, Projected DEF BindExistingProject, Write, Op, Pending
    <3>3. CASE DisableAndUnbindProjectById(c)
      BY <2>1, <2>2, <3>3, Projected DEF DisableAndUnbindProjectById, Write, Op, Pending
    <3>4. CASE DisableAndUnbindProjectByChatId(c)
      BY <2>1, <2>2, <3>4, Projected DEF DisableAndUnbindProjectByChatId, Write, Op, Pending
    <3>5. CASE UpdateProject(c)
      BY <2>1, <2>2, <3>5 DEF UpdateProject, Write, Op, Pending
    <3>6. CASE ToggleProjectStatus(c)
      BY <2>1, <2>2, <3>6, Projected DEF ToggleProjectStatus, Write, Op, Pending
    <3>7. CASE ReactivateProject(c)
      BY <2>1, <2>2, <3>7, Projected DEF ReactivateProject, Write, Op, Pending
    <3>8. CASE DeleteProjectById(c)
      BY <2>1, <2>2, <3>8, Projected DEF DeleteProjectById, Write, Op, Pending
    <3> QED BY <2>3, <3>1, <3>2, <3>3, <3>4, <3>5, <3>6, <3>7, <3>8 DEF Project
  <2>4. ASSUME NEW c \in Callers, Member(c) PROVE Stays(p)
    <3>1. CASE EnsureProjectMember(c)
      BY <2>1, <2>2, <3>1, Projected DEF EnsureProjectMember, Write, Op, Pending
    <3>2. CASE UpdateProjectMemberRole(c)
      BY <2>1, <2>2, <3>2, Projected DEF UpdateProjectMemberRole, Write, Op, Pending
    <3>3. CASE RemoveProjectMember(c)
      BY <2>1, <2>2, <3>3, Projected DEF RemoveProjectMember, Write, Op, Pending
    <3> QED BY <2>4, <3>1, <3>2, <3>3 DEF Member
  <2>5. ASSUME NEW c \in Callers, Skill(c) PROVE Stays(p)
    <3>1. CASE BindToProject(c)
      BY <2>1, <2>2, <3>1, Projected DEF BindToProject, Op, Pending
    <3>2. CASE UnbindFromProject(c)
      BY <2>1, <2>2, <3>2, Projected DEF UnbindFromProject, Write, Op, Pending
    <3>3. CASE UNCHANGED store
      BY <3>3
    <3> QED BY <2>5, <3>1, <3>2, <3>3
            DEF Skill, RemoveSkill, InstallFromLocalSource, AutoEnable, InstallFails
  <2>6. CASE BackfillProjects
    BY <2>1, <2>2, <2>6 DEF BackfillProjects, Write, Op, Pending
  <2>7. CASE UNCHANGED store
    BY <2>7
  <2> QED BY <1>1, <2>2, <2>3, <2>4, <2>5, <2>6, <2>7
          DEF Next, vars, Read, Refused, Restart
<1>2. IInv /\ [Next]_vars =>
        [Without({"overlap"}) => \A p \in used : p \notin store.projects => p \notin store'.projects]_vars
  BY <1>1
<1> QED BY <1>2, Invariant, PTL DEF Spec, DeletedStays
=============================================================================
