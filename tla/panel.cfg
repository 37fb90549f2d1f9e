CONSTANTS
  a1 = a1
  a2 = a2
  t1 = t1
  blink = blink
  NoPattern = NoPattern
  Consoles = {a1, a2}
  Tablets = {t1}
  MaxPlayers = 2
  Patterns = {blink}
  MaxCommands = 3
  MaxDrops = 1
SPECIFICATION FairSpec
INVARIANTS TypeOK OnePlayer BusyIsServed
PROPERTIES PortKept ClosedLeaves CommandsEnd
