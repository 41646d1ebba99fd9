SPECIFICATION MCSpec
CONSTANTS
  expressTrain = expressTrain
  morrowTrain = morrowTrain
  lateTrain = lateTrain
  localTrain = localTrain
  upTrain = upTrain
  AnyClass = AnyClass
  NoTrain = NoTrain
  NoQuote = NoQuote
  TrainOf <- MCTrainOf
  Departure <- MCDeparture
  PlacesOf <- MCPlacesOf
  CarPlaces <- MCCarPlaces
  Journey <- MCJourney
  Searches <- MCSearches
  Maps <- MCMaps
  Reader = {r1}
  LocalOffset = 9
  PriceQuestions <- MCPriceQuestions
  AvailableDays = 3
  MaxResults = 2
  FewSeats = 2
  MaxReservations = 3
INVARIANTS SearchTypeOK FoundTrainsAreAccepted NoTrainIsForgotten MapTellsHolding FareIsOfItsStep ChargeIsExpected ShownIsCharged
PROPERTY SignsTellSeats
