SPECIFICATION Spec
CONSTANTS
  p1 = p1
  p2 = p2
  p3 = p3
  r1 = r1
  r2 = r2
  Proc = {p1, p2, p3}
  Resv = {r1, r2}
  MaxPay = 2
CHECK_DEADLOCK FALSE
SYMMETRY Symmetry
INVARIANTS
  TypeOK
  DoneIsCharged
  PaidHasLivePayment
  RefundedWhenCanceled
  ChargedAsRecorded
