SPECIFICATION Spec
CONSTANTS
  c1 = c1
  c2 = c2
  Clients = {c1, c2}
  ClientConfigs <- MCClients
  ServerConfigs <- MCServers
  MaxWin = 2
  SynRetries = 2
INVARIANTS TypeOK OptionsAgree EcnIsMutual WindowNotOverstated
CHECK_DEADLOCK FALSE
