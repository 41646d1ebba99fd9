SPECIFICATION Spec
CONSTANTS
  p1 = p1
  p2 = p2
  t1 = t1
  o1 = o1
  o2 = o2
  Proc = {p1, p2}
  Token = {t1}
  RawData = {o1, o2}
  MaxPay = 2
  MaxInit = 0
SYMMETRY Symmetry
INVARIANT AnswerIsRight
