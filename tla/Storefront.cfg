SPECIFICATION Spec
CONSTANTS
  Account = {alice, bob}
  Browser = {browser}
  Proc = {p1, p2}
  SeatCounts = {2}
  NoAccount = NoAccount
  AskedIds = {1}
  MaxBookings = 2
  MaxViews = 1
  MaxInits = 1
INVARIANTS TypeOK SessionsKeepTheirAccount SeatRowsBelong ViewsAreWhole ViewsShowOwnBookings
PROPERTIES PanicsOnlyWhenGoneOrCut InitializeEnds
