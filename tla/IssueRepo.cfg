\* Two wristbands, two seats, up to four issues: a wristband can be issued, returned and issued again.
CONSTANTS
  w1 = w1
  w2 = w2
  s1 = s1
  s2 = s2
  free = free
  Wristbands <- MCWristbands
  Seats <- MCSeats
  Free <- free
  MaxRows = 4
SPECIFICATION Spec
INVARIANTS TypeOK OneActiveIssue
PROPERTIES LedgerKept ImplementsRegistry
