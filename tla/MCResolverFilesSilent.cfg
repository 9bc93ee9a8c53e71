SPECIFICATION Spec
CONSTANTS
  work = work
  home = home
  t1 = t1
  t2 = t2
  r1 = r1
  r2 = r2
  z1 = z1
  z2 = z2
  Sessions = {t1, t2}
  Recoveries = {r1, r2}
  Instances = {work, home}
  Zones = {z1, z2}
  Split <- MCSplit
  Portal = {z1}
  Beginnings <- MCBeginnings
  MaxFaults = 1

PROPERTY SuccessMeansThorough
CHECK_DEADLOCK FALSE
