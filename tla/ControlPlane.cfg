SPECIFICATION ControlSpec
CONSTANTS
  r1 = r1
  r2 = r2
  ann = ann
  dev = dev
  s1 = s1
  w1 = w1
  w2 = w2
  p1 = p1
  p2 = p2
  e1 = e1
  e2 = e2
  Requests = {r1, r2}
  Users = {ann, dev}
  Admins = {ann}
  Nobody = Nobody
  Sessions = {s1}
  MaxTime = 2
  MaxCrashes = 1
  Payloads = {"good"}
  Births = {"PENDING", "APPROVED"}
  Writers = {w1, w2}
  Keys = {"A", "B"}
  Trees = {"plain", "toA", "toB", "toBoth"}
  Refs <- MCRefs
  RuleSets <- MCRuleSets
  Plain = "plain"
  FirstSegments <- MCFirstSegments
  MaxEdits = 4
  Handlers = {w1, w2}
  People = {"ann", "bob"}
  FirstRows <- MCFirstRows
  FirstMembers <- MCFirstMembers
  MaxHandled = 2
  Clients = {w1, w2}
  Emails = {"a@x", "b@x"}
  MaxCalls = 5
  Production = {e1, e2}
  stale_days = 10
  Jumps = {7}
  MaxDay = 14
  Temporary = TRUE
  Changers = {p1, p2}
  Envs = {e1, e2}
  MaxChanges = 3
CHECK_DEADLOCK FALSE
INVARIANTS
  AppliedOnce
  ControlTypesOK
  RulesOfOneRequest
  SettingsCoherent
  SettingsComplete
  RotationNeedsOverlap
  LogoutHolds
  StaleWasRolledOut
  EveryEnvironmentBumped
PROPERTIES
  DueApplied
  CyclesNeedOverlap
  EveryEditEnds
  OwnersNeedOverlap
  ChangesByMembers
  OnlyAgeing
