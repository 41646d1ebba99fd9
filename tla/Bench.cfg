SPECIFICATION WorkerSpec
CONSTANTS
  Load = {l1, l2}
  driver = driver
  tester = tester
  Trip <- MCTrip
  PretestTrip <- MCPretestTrip
  VagueTrip <- MCVagueTrip
  TesterTrip <- MCTesterTrip
  CarsOf <- MCCarsOf
  TesterSeats = 3
  TesterFew = 1
  FewSeats = 2
  Racers = 2
  Many = 1
  AppLimit = 2
  AvailableDays = 210
  MaxBusy = 2
  Job = {j1}
  Retries = 2
CHECK_DEADLOCK FALSE
INVARIANTS BenchTypeOK CriticalErrorsAreExplained VerdictsMatchTheBooks ExitLeavesNothing
PROPERTIES EveryJobIsAnswered StopIsObeyed
