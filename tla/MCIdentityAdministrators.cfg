SPECIFICATION Spec
CONSTANTS
  Parts = {"accounts"}
  None = None
  Tokens = {t1, t2}  Users = {u1, u2}  Calls = {c1, c2, c3}
  AbsoluteTtl = 2  IdleTtl = 1  Horizon = 2
  t1 = t1  t2 = t2  u1 = u1  u2 = u2  c1 = c1  c2 = c2  c3 = c3
  Ids = {"ada", "bob", "cyd"}  Names = {"anna", "bert", "carl"}  Passwords = {"old", "new"}
  Cookies = {"ta", "tb", "tc", "td"}  Askers = {r1, r2}
  Instances <- MCInstances  Asked <- MCAsked  AskedFirst <- MCAskedFirst
  Readers = {ann, ben}  Writes = {"request", "fetch"}
  MaxSessions = 3  MaxReads = 2  MaxWrites = 1  MaxFailures = 1
INVARIANTS
  AlwaysAnAdministrator
CHECK_DEADLOCK FALSE
