SPECIFICATION Spec
CONSTANTS
  work = work
  home = home
  Sessions = {t1, t2}
  Recoveries = {r1}
  Rands = {a}
  MaxFaults = 1
  Segments = {work, home}
  Names <- NamesNested
PROPERTY InstancesSideBySide
CHECK_DEADLOCK FALSE
