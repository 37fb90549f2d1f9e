CONSTANTS
  i1 = i1
  e1 = e1
  Blank = Blank
  Console = Console
  Nobody = Nobody
  Issues = {i1}
  Entries = {e1}
  Values = {i1}
  Chunks = 2
  MaxFaults = 1
  MaxCancels = 1
  MaxToggles = 1
SPECIFICATION FairSpec
INVARIANTS TypeOK OneEntryPerWake ReadWhole QuietIsClosed NotifyIsTimed
PROPERTIES NotThrownOut BandReturns
