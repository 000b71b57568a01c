SPECIFICATION Spec
CONSTANTS
  c1 = c1
  c2 = c2
  c3 = c3
  v1 = v1
  v2 = v2
  v3 = v3
  None = None
  Clients <- MCClients
  Convs <- MCConvs
  KnownConvs <- MCKnownConvs
  Capacity = 2
  MaxRestarts = 1
INVARIANTS
  OneWriterPerConversation
