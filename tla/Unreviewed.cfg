SPECIFICATION BoundedSpec
CONSTANTS
  r1 = r1
  ann = ann
  dev = dev
  s1 = s1
  Requests = {r1}
  Users = {ann, dev}
  Admins = {ann}
  Nobody = Nobody
  Sessions = {s1}
  MaxTime = 1
  MaxCrashes = 0
  Payloads = {"good"}
  Births = {"DRAFT", "PENDING", "APPROVED", "REJECTED", "APPLIED", "CANCELLED"}
CHECK_DEADLOCK FALSE
INVARIANT FourEyes
