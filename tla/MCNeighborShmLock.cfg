SPECIFICATION Spec
CONSTANTS
  p1 = p1
  p2 = p2
  p3 = p3
  near = near
  far = far
  None = None
  Ip = {p1, p2, p3}
  Geo = {near, far}
  Zone = {near}
  MaxDwell = 2
  Capacity = 2
  MacLen = 2
  MaxRestarts = 1

PROPERTY AccessOnlyWhenUnlocked
