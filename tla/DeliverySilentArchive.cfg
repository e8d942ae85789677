SPECIFICATION FairSpec
CONSTANTS
  c1 = c1
  h1 = h1
  h2 = h2
  Clients = {c1}
  ServerClients = {c1}
  Handlers = {h1, h2}
  NoHandler = NoHandler
  NumQueries = 1
  RedisEnabled = FALSE
  MaxVersion = 1
  MaxSilent = 1
  MaxFaults = 0
PROPERTY Convergence
