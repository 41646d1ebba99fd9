SPECIFICATION Spec
CONSTANTS
  p1 = p1
  p2 = p2
  p3 = p3
  Proc = {p1, p2, p3}
  TrainOf <- MCTrainOf
  Station <- MCStation
  Seat <- MCSeat
  NumCars = 2
  CarSeats <- MCCarSeats
  ColumnOf <- MCColumnOf
  AnyColumn = "any"
  Request <- MCContended
  NoRequest = NoRequest
  MaxId = 3
SYMMETRY Symmetry
INVARIANTS
  TypeOK
  NoDoubleBooking
  CheckStaysValid
  LockInv
  LeakBlocksNoStatement
CHECK_DEADLOCK FALSE
