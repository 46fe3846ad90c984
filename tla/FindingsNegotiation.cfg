SPECIFICATION Spec
CONSTANTS
  c1 = c1
  c2 = c2
  Clients = {c1, c2}
  ClientConfigs <- MCClients
  ServerConfigs <- MCServers
  MaxWin = 2
  SynRetries = 2
\* TLC stops at the first it finds violated: keep one line.
PROPERTY DuplicateSynIgnored
INVARIANT EcnAgreed
INVARIANT OptionsOfBothEnds
INVARIANT ForkWindowNotOverstated
CHECK_DEADLOCK FALSE
