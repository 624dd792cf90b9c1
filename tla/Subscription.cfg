\* Two organisations, two payments with up to two notifications each.
SPECIFICATION Spec
CONSTANTS
  o1 = o1
  o2 = o2
  p1 = p1
  p2 = p2
  w1 = w1
  w2 = w2
  Orgs = {o1, o2}
  Payments = {p1, p2}
  Workers = {w1, w2}
  Trial = 0
  Month = 2
  MaxNotices = 2
  MaxCrashes = 1
  None = None
SYMMETRY Symmetric
INVARIANTS
  ProIsPaidFor
  CreditLastsAMonth
  
