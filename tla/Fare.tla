-------------------------------- MODULE Fare --------------------------------
(***************************************************************************)
(* What a journey costs: the web application's calculation over its price  *)
(* tables, the price the search shows, the price a reservation is charged, *)
(* and the benchmark's own calculation of the same amounts.  Products are  *)
(* exact here: the floating-point products of these factors differ from    *)
(* them by far less than the truncation of int() can see.                  *)
(***************************************************************************)
EXTENDS Railway, FiniteSetsExt

CONSTANTS LocalOffset,  \* hours the server's local time is ahead of UTC
          PriceQuestions, \* the journeys whose price is asked
          NoQuote       \* no price has been asked for yet

VARIABLE quote          \* the last price question and its three answers

(* A journey to price, of any party, between two stations of the line.     *)
PriceQuestion ==
  [day : Nat, from : LineStation, to : LineStation, class : TrainClass,
   seatClass : SeatClass, adult : Nat, child : Nat]

ASSUME FareAssumption ==
  /\ LocalOffset \in -12 .. 14
  /\ PriceQuestions \subseteq PriceQuestion

Gap(from, to) == IF from < to THEN Position[to] - Position[from]
                              ELSE Position[from] - Position[to]

-----------------------------------------------------------------------------
(* The web application.                                                    *)

LastDistance(steps, i) == IF i = 1 THEN 0 ELSE steps[i - 1].distance

(* The test that ends the loop over the steps at step i.                   *)
StopsAtStep(steps, d, i) == LastDistance(steps, i) < d /\ d < steps[i].distance

StepFareOfEnd(steps, d) ==
  LET ends == {i \in DOMAIN steps : StopsAtStep(steps, d, i)}
  IN  IF ends = {} THEN steps[Len(steps)].fare ELSE steps[Min(ends)].fare

(* The loop keeps the fare of the step before the one it ends at, and of   *)
(* the last step when it never ends early.                                 *)
StepFare(steps, d) ==
  LET ends == {i \in DOMAIN steps : StopsAtStep(steps, d, i)}
  IN  IF ends = {} THEN steps[Len(steps)].fare
      ELSE IF Min(ends) = 1 THEN 0 ELSE steps[Min(ends) - 1].fare

DistanceFare(d) == StepFare(FareSteps, d)

(* start_date is read in the server's local time, the day of travel is     *)
(* compared as midnight UTC.                                               *)
SeasonBegun(day, i) == day * 24 >= SeasonStart[i] * 24 - LocalOffset

SelectedSeason(day) ==
  LET begun == {i \in DOMAIN SeasonStart : SeasonBegun(day, i)}
  IN  IF begun = {} THEN 1 ELSE Max(begun)

FareCalc(day, from, to, class, seatClass) ==
  (DistanceFare(Gap(from, to)) * ClassFactor(class, seatClass)
     * SeasonFactor[SelectedSeason(day)]) \div 1000

ShownUndiscounted(fare, adult, child) == fare * adult + fare * child

(* The price in a search result: half of the fare is rounded per child.    *)
ShownPrice(fare, adult, child) == fare * adult + (fare \div 2) * child

ChargedPerPair(fare, adult, child) == adult * fare + (child \div 2) * fare

(* The amount of a reservation: the children's half is rounded once.       *)
ChargedPrice(fare, adult, child) == adult * fare + (child * fare) \div 2

-----------------------------------------------------------------------------
(* The benchmark.                                                          *)

Unknown == -1

(* A distance of zero, and one that equals a step, has no fare.            *)
BenchDistanceFare(from, to) ==
  LET d == Gap(from, to)
      bounds == <<0, 50, 75, 100, 150, 200, 300, 400, 500, 1000>>
      fares == <<2500, 3000, 3700, 4500, 5200, 6000, 7200, 8300, 12000, 20000>>
      fits == {i \in DOMAIN bounds : /\ Km(bounds[i]) < d
                                     /\ i < Len(bounds) => d < Km(bounds[i + 1])}
  IN  IF fits = {} THEN Unknown ELSE fares[Max(fits)]

BenchSeason(day) ==
  LET in == {i \in DOMAIN SeasonStart : /\ SeasonStart[i] <= day
                                        /\ i < Len(SeasonStart) => day < SeasonStart[i + 1]}
  IN  IF in = {} THEN 0 ELSE SeasonFactor[Max(in)]

BenchFare(day, from, to, class, seatClass) ==
  IF BenchDistanceFare(from, to) = Unknown THEN Unknown
  ELSE (BenchDistanceFare(from, to) * ClassFactor(class, seatClass) * BenchSeason(day)) \div 1000

BenchAmount(day, from, to, class, seatClass, adult, child) ==
  LET fare == BenchFare(day, from, to, class, seatClass)
  IN  IF fare = Unknown THEN Unknown ELSE fare * adult + (fare * child) \div 2

-----------------------------------------------------------------------------
(* A client asks the price of a journey and then reserves it: what the     *)
(* search shows, what the reservation is charged, what the benchmark       *)
(* expects.  Prices depend on nothing that changes.                        *)
AskPrice(j) ==
  LET fare == FareCalc(j.day, j.from, j.to, j.class, j.seatClass)
  IN  quote' = [journey |-> j,
                shown |-> ShownPrice(fare, j.adult, j.child),
                charged |-> ChargedPrice(fare, j.adult, j.child),
                expected |-> BenchAmount(j.day, j.from, j.to, j.class, j.seatClass,
                                         j.adult, j.child)]

(* The answers have been used.                                             *)
PriceGiven == quote # NoQuote /\ quote' = NoQuote

FareInit == quote = NoQuote
FareNext == (quote = NoQuote /\ \E j \in PriceQuestions : AskPrice(j)) \/ PriceGiven
FareSpec == FareInit /\ [][FareNext]_quote

-----------------------------------------------------------------------------
(* Properties.                                                             *)

(* getDistanceFare gives two stations of the line the fare of the longest  *)
(* step that is not longer than their distance.  (A station and itself get *)
(* the fare of the last step: no handler compares the two.)                *)
FareIsOfItsStep ==
  quote # NoQuote /\ quote.journey.from # quote.journey.to =>
    LET d == Gap(quote.journey.from, quote.journey.to)
        fare == DistanceFare(d)
    IN  \E i \in DOMAIN FareSteps :
          /\ FareSteps[i].fare = fare /\ FareSteps[i].distance <= d
          /\ \A k \in DOMAIN FareSteps : FareSteps[k].distance <= d => k <= i

(* A reservation is charged what the benchmark's cache expects, whatever   *)
(* the stations, the class, the party and the side of a season's first day *)
(* (fareCalc and the reserve handler against GetFare and Amount).          *)
ChargeIsExpected ==
  quote # NoQuote /\ quote.journey.from # quote.journey.to /\ LocalOffset >= 0 =>
    quote.charged = quote.expected

(* What the search shows is never more than what the reservation is then   *)
(* charged, and falls short by at most half a yen per child: odd fares are *)
(* halved per child in one and after multiplying in the other.             *)
ShownIsCharged ==
  quote # NoQuote =>
    /\ quote.shown <= quote.charged
    /\ 2 * (quote.charged - quote.shown) <= quote.journey.child
=============================================================================
