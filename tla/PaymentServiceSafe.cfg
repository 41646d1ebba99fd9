SPECIFICATION Spec
CONSTANTS
  p1 = p1
  p2 = p2
  p3 = p3
  t1 = t1
  o1 = o1
  o2 = o2
  o3 = o3
  Proc = {p1, p2, p3}
  Token = {t1}
  RawData = {o1, o2, o3}
  MaxPay = 2
  MaxInit = 2
SYMMETRY Symmetry
INVARIANTS
  TypeOK
  ChargedToACard
  ConfirmedStaysCanceled
  OneStaleAndCanceled
  HeldResultIsRight
PROPERTY ImplementsLedger
