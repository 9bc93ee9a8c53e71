SPECIFICATION Spec
CONSTANTS
  p1 = p1
  p2 = p2
  v6 = v6
  V4 = {p1, p2}
  Lists <- MCLists
  Policies = {"takeover", "fail", "skip"}
INVARIANT AllOrNothing
