SPECIFICATION FailureFreeSpec
CONSTANTS
  p1 = p1
  p2 = p2
  r1 = r1
  Proc = {p1, p2}
  Resv = {r1}
  MaxPay = 2
CHECK_DEADLOCK FALSE
INVARIANT ChargedAtMostOnce
