SPECIFICATION Spec
CONSTANTS
  s1 = s1
  s2 = s2
  m1 = m1
  m2 = m2
  a1 = a1
  a2 = a2
  a3 = a3
  None = None
  Senders <- MCSenders
  Messages <- MCMessages
  Attempts <- MCAttempts
  MaxHeight = 2
SYMMETRY Symm
INVARIANTS
  TypeOK
  SingleUnresolved
  AtMostOnce
  ReceiptsTruthful
PROPERTIES
  NoBlindClick
  OutboxSpec
