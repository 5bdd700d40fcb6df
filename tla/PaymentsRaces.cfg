SPECIFICATION Spec
CONSTANTS
  u1 = u1
  u2 = u2
  o1 = o1
  o2 = o2
  w1 = w1
  w2 = w2
  k1 = k1
  k2 = k2
  Users = {u1}
  Orders = {o1, o2}
  Owner <- OneOwner
  Workers = {w1, w2}
  Keys = {k1, k2}
  Requests = {"notify", "refund", "membership"}
  NoOrder = NoOrder
SYMMETRY Symmetry
INVARIANTS
  PaidBacked
  NoLostEntitlement
PROPERTIES
  ImplementsEntitlement
CHECK_DEADLOCK FALSE
