CONSTANTS
  r1 = r1
  r2 = r2
  u1 = u1
  Request = {r1, r2}
  User = {u1}
  Owners = {u1, u2}
  Role = {admin, member}
  admin = admin
  member = member
  None = None
  Fails = Fails
  Programs <- MCPrograms
  Paths <- MCPaths
  Writes = 2
  MaxReloads = 1
  MaxChanges = 2
  Cap = 1
  Key = {k1}
  Caller = {c1, c2}
  Burst = 2
  TokenTicks = 2
  IdleTicks = 6
  MaxWait = 1
  MaxTime = 9
  Absent = Absent
  Sender = {k1}
  Never = Never
  MaxClock = 9
  Max = 2
  Window = 3
SPECIFICATION MCSpec
INVARIANTS Authorised AnswerFitsEffects CountersAndLog AdmittedBound WindowBound
