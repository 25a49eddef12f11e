SPECIFICATION Spec
CONSTANTS
  Requests = {q1, q2}
  Sids = {s1}
  Horizon = 3
  Capacity = 1
  Window = 1
  IdleTtl = 2
  AbsoluteTtl = 3
INVARIANT LogoutRevokes
