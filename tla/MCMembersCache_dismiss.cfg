CONSTANTS
  u1 = u1
  u2 = u2
  p1 = p1
  p2 = p2
  i1 = i1
  Group = TRUE
  User = {u1, u2}
  Owner = u1
  Writer = {w1}
  Call = {p1}
  Inst = {i1}
  InstOf <- OneCall
  SenderOf <- OwnerSends
  Unknown = Unknown
  None = None
  MaxChanges = 2
  MaxFaults = 0
SPECIFICATION Spec
INVARIANT DismissedRejects
