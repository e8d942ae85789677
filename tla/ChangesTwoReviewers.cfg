SPECIFICATION BoundedSpec
CONSTANTS
  r1 = r1
  r2 = r2
  ann = ann
  dev = dev
  s1 = s1
  s2 = s2
  Requests = {r1}
  Users = {ann, dev}
  Admins = {ann}
  Nobody = Nobody
  Sessions = {s1, s2}
  MaxTime = 1
  MaxCrashes = 0
  Payloads = {"good"}
  Births = {"PENDING"}
CHECK_DEADLOCK FALSE
INVARIANT AppliedOnce
