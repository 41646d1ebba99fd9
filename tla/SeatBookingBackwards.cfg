SPECIFICATION Spec
CONSTANTS
  p1 = p1
  p2 = p2
  Proc = {p1, p2}
  TrainOf <- MCTrainOf
  Station <- MCStation
  Seat <- MCSeat
  NumCars = 2
  CarSeats <- MCCarSeats
  ColumnOf <- MCColumnOf
  AnyColumn = "any"
  NoRequest = NoRequest
  MaxId = 2
CHECK_DEADLOCK FALSE
CONSTANT Request <- MCBackwards
INVARIANT NoSharedSegment
