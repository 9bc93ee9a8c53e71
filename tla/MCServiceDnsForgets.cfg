SPECIFICATION Spec
CONSTANTS
  s1 = s1
  s2 = s2
  s3 = s3
  x1 = x1
  work = work
  wifi = wifi
  Sessions = {s1, s2, s3}
  Recoveries = {x1}
  Instances = {work}
  Services = {wifi}
  InstanceOf <- MCInstanceOf
  Pushed <- MCPushed
  PushedSearch <- MCSearch
  UserLists = {"dhcp", "manual"}
  UserSearch = "lan"
  MaxEdits = 1
  MaxFaults = 2
INVARIANT NeverForgotten
CHECK_DEADLOCK FALSE
