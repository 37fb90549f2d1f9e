CONSTANTS
  c1 = c1
  c2 = c2
  p1 = p1
  p2 = p2
  Nobody = Nobody
  Callers = {c1, c2}
  Players = {p1}
  Tasks = {c1, c2, p1}
  MaxSends = 2
  MaxChanges = 2
  MaxResets = 1
  HandshakeAttempts = 2
SPECIFICATION FairSpec
INVARIANTS TypeOK OneWorker LockIsServed OwnAnswer AtMostTwice AddressIsOwn
PROPERTIES SendsEnd
