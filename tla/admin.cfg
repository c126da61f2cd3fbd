SPECIFICATION Spec
CONSTANTS
  Projects = {p1, p2}
  Chats = {g1}
  p1 = p1
  p2 = p2
  c1 = c1
  c2 = c2
  Users = {u1}
  Skills = {k1}
  Roles = {"maintainer"}
  Callers = {c1, c2}
  Server = server
  NoChat = none
  NoRole = nobody
  Envs <- EnvsAdmin
SYMMETRY Symmetric
INVARIANTS
  ChatOwned
  MembersOwned
  SkillsInstalled
PROPERTIES
  DeletedStays
CHECK_DEADLOCK FALSE
