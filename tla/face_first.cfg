CONSTANTS
  a1 = a1
  a2 = a2
  t1 = t1
  t2 = t2
  b1 = b1
  b2 = b2
  f1 = f1
  f2 = f2
  s1 = s1
  s2 = s2
  NoBand = NoBand
  NoSeat = NoSeat
  NoEmb = NoEmb
  Zero = Zero
  NotNumber = NotNumber
  Torn = Torn
  Admins = {a1}
  Tablets = {t1}
  Bands = {b1}
  Faces = {f1}
  Seats = {s1}
  MaxSessions = 2
  MaxCancels = 1
  MaxRestarts = 0
  MaxArmed = 1
  MaxRows = 4
  MaxRaises = 0
SPECIFICATION Spec
SYMMETRY Interchangeable
INVARIANT FaceAfterTag
