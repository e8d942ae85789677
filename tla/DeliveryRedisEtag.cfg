SPECIFICATION Spec
CONSTANTS
  c1 = c1
  h1 = h1
  h2 = h2
  Clients = {c1}
  ServerClients = {c1}
  Handlers = {h1, h2}
  NoHandler = NoHandler
  NumQueries = 1
  RedisEnabled = TRUE
  MaxVersion = 2
  MaxSilent = 0
  MaxFaults = 0
SYMMETRY Symmetry
INVARIANT EtagFresh
