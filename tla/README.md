# Isutrain: a verification development

TLA+ modules for the train booking service of this repository: its Go web
application (`src/webapp/go/main.go`) over MySQL, the payment service it calls
(`src/blackbox/payment/server/server.go`), and the benchmark that judges both
(`src/bench`) with the worker that runs it. TLC checks small instances; TLAPS
proves every safety property the passing runs check, for any number of requests,
seats, stations, trains, accounts, reservations, scenarios and jobs.

## 1. Inventory

| Component | State | Operations | What makes it correct |
|---|---|---|---|
| **Reserve API** `trainReservationHandler` (main.go:905) | tables `reservations`, `seat_reservations`; one transaction per request; InnoDB locks | section check, vague seat search, locking scan, duplicate check, two kinds of INSERT, COMMIT | a seat is sold once per segment; what was checked is still true at COMMIT; every request ends |
| **Cancel API** `userReservationCancelHandler` (main.go:1954) | the same tables; a payment | read the row, cancel its payment, delete the row and its seats | the whole reservation goes, and with it the charge |
| **Commit API** `reservationPaymentHandler` (main.go:1553) | `reservations.status`, `payment_id`; a payment | read the row, charge the card, update the row | one charge per reservation, row and charge agree |
| **Payment service** `Server` (server.go) | maps of cards and payments under `mu`, `cancelLock` | RegistCard, ExecutePayment, CancelPayment, BulkCancelPayment, Get, Initialize, GetResult | a payment is charged once, stays canceled once canceled, is reported as it is |
| **Reservation views** `makeReservationResponse` (main.go:1809) | none; several autocommit reads | list, show | an answer describes one reservation as it was at one time |
| **Initialize API** (main.go:2076) | truncates `seat_reservations`, `reservations`, `users` | initialize | it ends; nothing of the former run gets mixed into the next |
| **Search, seat map** (main.go:430, 714, utils.go:51) | none; several autocommit reads | search trains, list seats | agrees with the reserve API on what can be reserved |
| **Fare** (main.go:322, 347) | none | fare of a distance, date and class | search, reserve and benchmark name one price |
| **Accounts, sessions** (main.go:1714) | `users`; a signed cookie in the client | sign up, log in and out | a cookie stands for whoever logged in with it |
| **Benchmark cache and final check** (reservation_cache.go, core_finalcheck.go) | reservations added, committed, canceled | Add, Commit, Cancel, CanReserve, final check | agrees with the application at the end |
| **Benchmark driver and scenarios** (`src/bench`) | phase, deadline, error counters, one goroutine per scenario | pretest, load, background tester, final check | a correct application is not disqualified |
| **Benchmark worker** (`src/bench/cmd/benchworker`) | a job, reports under way | dequeue, run, report, stop at a signal | every job is answered, the last one too |
| Ports (perl, php, python, ruby), frontend, ansible | | | not modelled: the Go code is the reference |

Interactions. Clients call the APIs concurrently; each request is a goroutine
with its own transaction. The handlers meet in the two tables (through row and
gap locks) and in the payment service (through HTTP calls made inside an open
transaction, so two stores change without one commit). The benchmark calls the
APIs and at the end compares its cache with the payment service. Initialize
truncates the tables under all of them, and its TRUNCATEs wait for every open
transaction on a table while every new statement on it waits for them.

What is hard here: the seats of a vague request are chosen outside of the
transaction; the locks that protect a booking are implied by statements and
missing indexes, never stated; deadlocks are the normal outcome of two
concurrent bookings; errors of COMMIT are dropped; some paths return, or panic,
with the transaction open; payment and table are kept together by nothing but
the order of calls, some of which time out and are executed later; views and
seat maps are put together from statements between which anything may commit;
ids start again after a TRUNCATE while cookies and requests still carry old
ones; the benchmark draws its conclusions from answers that may be late, lost or
cut off by its own deadline.
`PROJECT.json` lists each hazard at its line with the properties that cover it.

## 2. Modules

| Module | Models |
|---|---|
| `Sections` | station arithmetic: the section check and the duplicate-section test; the reference notions (direction, segments, overlap) they are judged by |
| `VagueSeats` | the choice of seats inside one car |
| `SeatLedger` | abstract: what booking promises, a ledger of journeys, each entered and released in one step |
| `SeatBooking` | reserve and cancel handlers over InnoDB |
| `SeatBookingMC` | instances of it |
| `Checkout` | commit and cancel handlers over the table and the payment service |
| `CheckoutMC` | instances of it, and the behaviours without failures |
| `PaymentLedger` | abstract: what the payment service promises, a ledger of payments |
| `PaymentService` | the payment service, one step per critical section of its map lock |
| `PaymentServiceMC` | instances of it |
| `Railway` | stations, stops and price tables: the read-only data |
| `Fare` | the price calculations of search, reserve handler and benchmark |
| `TrainSearch` | search and seat map handlers over the `SeatLedger` |
| `SearchMC` | an instance of `TrainSearch` and `Fare` |
| `Storefront` | accounts, sessions, list, show and initialize beside reserve and cancel |
| `BenchCache` | the benchmark's cache, its double-sale check and final check |
| `Benchmark` | one run of the benchmark against an application that keeps its promises |
| `BenchWorker` | the worker around it |
| `BenchMC` | an instance of `BenchWorker` |
| `SectionsProofs`, `SeatBookingProofs`, `CheckoutProofs`, `PaymentServiceProofs`, `SearchProofs`, `StorefrontProofs`, `BenchmarkProofs`, `BenchWorkerProofs` | theorems and proofs |

`SeatBooking` EXTENDS `Sections` and `VagueSeats`, and implements `SeatLedger`
by INSTANCE. The cancel handler is in both `SeatBooking` (its locks and its
effect on the seats) and `Checkout` (its dealings with the payment service).
The payment service is in `PaymentService` in full, implementing `PaymentLedger`
by INSTANCE, and in `Checkout` as its callers see it: `CheckoutUsesTheLedger` ties the
two together, both are a `PaymentLedger`. `TrainSearch` EXTENDS
`SeatLedger`: what its readers read changes by the ledger's steps, which
`SeatBooking` implements. `BenchWorker` EXTENDS `Benchmark` EXTENDS `BenchCache`.

An operator whose comment names something the code does *not* do (`SeatsOfAll`,
`ReserveUserOpen`, `BreaksSelect`, ...) is a plausible slip of the operator after
it. No specification uses one; replacing the original by it must break a property, which
shows that the property depends on that line. `PROJECT.json` lists the pairs under `mutants`.

### SeatBooking

A member of `Proc` is a request slot; `pc` says which statement of the handler
is next, and each statement is one action. `TrainOf` stands for
`train_master`: a train is one (date, class, name).

*Tables.* `reservations` holds the committed rows of both tables, joined on
`reservation_id`. They change together, in `tx.Commit`, so one function is
enough. Uncommitted changes follow from `pc` and `rid`: a row inserted or
deleted by an open transaction is locked, so no statement of another
transaction that takes locks sees past it.

*Locks.* Neither table has an index but the primary key of `reservations`
(`src/webapp/sql/01_schema.sql`). Under MySQL's default isolation:

- `SELECT ... FROM reservations WHERE date.. FOR UPDATE` locks every row of the
  table and the gap after the last one, whichever the train (`ScanReservations`);
- `SELECT`/`DELETE` on `seat_reservations` by an unindexed column likewise;
- gap locks do not exclude each other; an INSERT waits for the other holders of
  the gap (`Blockers`, cases "insert" and "seats");
- a DELETE by primary key locks the row, or, when the row is gone, the gap where
  it was (`CancelRow`, `LastGap`). The gap is the last one only when no higher
  row, committed or locked, exists;
- a FOR UPDATE in autocommit (the vague search) waits for locks and holds none
  when it is done.

A statement completes when it waits for nobody (`Runs`). Waiting cycles are
found by `Deadlocked`; the detector picks any member of one. This is external
code and is modelled from what the handlers' statements rely on. `rowLock` and
`seatLock` are kept per reservation id; locks a waiting statement already holds
on part of the table are not tracked. A DELETE or scan is one step.

*Vague search.* `VagueQuery` and `VagueFetch` are the two queries per seat. The
first is a cross join (it lacks `s.reservation_id = r.reservation_id`): once the
train has any reservation, the seat rows of *all* trains for the place come
back. The second panics on any error without a Rollback (main.go:1172): on a row
canceled between the two queries (`VaguePanic`), and on a lost connection or a lock wait
timeout (`FetchFails`). The transaction then stays open (`pc = "leaked"`) for the rest
of the behaviour. The lookups of two stations that follow roll back before they panic
(`LookupFails`).

*Errors.* Every other error branch but that of COMMIT ends in `tx.Rollback()`; they change
nothing else and are one action, `Abort`, possible at every other statement (`RollsBack`).
`CommitReserveLost`/`CancelCommitLost` are a failed `tx.Commit()`, whose error
the code drops.

*Leaks.* `LeakBlocksNoStatement` says that a leaked transaction is waited for by no lock
request of the reserve and cancel handlers. It is not harmless: it keeps a connection, and
the metadata locks that stop initialize and, behind it, everybody (`Storefront`).

*Double tickets.* `src/docs/MANUAL.md:334` lists among the known problems that the initial
implementation's locks are poor and a seat may be ticketed twice. For the Go implementation
over this schema the locks are not at fault: the locking scan finds no index to use and
takes the whole table and its last gap, which is slow and safe (`NoDoubleBooking`, proved in
`SeatsAreSoldOnce`). This rests on the default isolation level, which no configuration in
`src/webapp` changes, and on `01_schema.sql`: with an index on `reservations` the
scan would lock less, and the proof would have to be done again. The double ticket there is
comes from one request alone, whose stations are named backwards and pass the section check
(`booking_backwards`, `NoSharedSegment`); no lock prevents it. The initial implementations
in other languages, of which the manual speaks as well, are not modelled.

*Left out.* Parties of negative size, amounts, names, smoking flag, adult/child split (only the sum
matters), payment (in `Checkout`), TRUNCATE by initialize.

### Checkout

Rows exist at the start, unpaid. `payments` is the map of the payment service;
its operations are single steps since it handles each under its own lock.
`pc` follows a handler: "post" → "charged" → "updated" for a commit, "delete" →
"refunded" → "removed" for a cancel of a paid row, "remove" → "removed" for an
unpaid one. The plain SELECT takes no lock and happens in the same step as BEGIN;
between it and the UPDATE or DELETE anything may happen to the row. The UPDATE
and the DELETE wait for the row lock and do not look at the status again.

A call a handler gives up on may or may not be executed later: `latePay` and
`lateCancel` keep such calls, `LatePay` and `LateCancel` execute them. A service
that refuses a cancel (unknown id after a reset) has the effect of a late call
that never comes. Two history variables serve the properties only:
`cancelAsked`, and `disturbed`, the reservations for which a payment overlapped
another request or stopped half way, or a COMMIT failed. They appear in no guard.

### PaymentService

A member of `Proc` is an RPC. The two maps are read and written under `mu` only,
so each critical section is one step: `PayCheck` and `PayStore` are the two of
`ExecutePayment`, `CancelLookup` and `CancelStore` the two of `CancelPayment`,
one second apart, during which `paydata` is its copy of the entry. `cancelLock`
is held by every cancel from beginning to end (`MayCancel`); `Initialize` does
not ask for it, so it may run while a cancel sleeps.

`GetResult` takes one object per payment out of `rawDataPool` and fills it in.
Its goroutine gives the objects back when it ends (`ResultRelease`); the answer
that consists of them is marshalled by gRPC after that, or before, when nobody
can tell (`ResultSent`). An object's content is a payment's id and entry: a
raw-data object has no id, but its time and reservation tell payments apart.
Copied card data, wiped together with the cards, is left out.

Histories for the properties: `tokens` and `issued` (what was ever handed out),
`born` (the epoch, that is the number of calls of `Initialize`, a payment was made
in), `confirmed` (cancels answered 200), `seen` (what a `GetResult` found in the
map). They appear in no guard except for the bound on `issued` and the freshness
of tokens and ids, which `uuid` and `xid` provide.

### TrainSearch, Fare and Railway

`desk` holds one request per reader; each statement of a handler is a step, and
between two steps the ledger may book or release. The search goes through the
trains of the day (`NextTrain`: the SELECT states no order), tests the route, and
counts one kind of seat per statement (`CountSeats`); the seat map reads the
rows of a place (`ReadPlace`) and then each row's reservation (`ReadRow`).

What the code does and the model keeps: `getAvailableSeats` looks at the bookings
of *all* trains and days, so a sign may be too low; its overlap condition misses
a booking that lies strictly inside the asked journey and counts one that begins
where the journey ends, so a sign may be too high or too low. `SignsTellSeats`
says what a sign can be trusted for all the same. A search from a station to itself finds
trains the reserve handler will refuse. The seat map panics when a reservation
is released between its two statements (main.go:838).

Prices are whole yen. The search halves the fare of one child and rounds, the
reserve handler halves that of all of them: `ShownIsCharged` bounds the difference. A
distance equal to a step of the table falls through the `<` on both sides to the
last fare; no two stations of the fixture are that far apart, so
`FareIsOfItsStep` is a statement about this line and this table, in which only the
journey is arbitrary. `LocalOffset` is the server's time zone: west of UTC the first day of
a season still has the old price, hence `ChargeIsExpected` asks for
`LocalOffset >= 0`.

### Storefront

One SQL statement per step. Row locks and seats in dispute are the subject of
`SeatBooking`; here a transaction matters for the *metadata locks* it keeps on
the tables it has touched (`holds`). TRUNCATE waits for all of them
(`MayTruncate`), and while it waits no other transaction gets to the table
(`MayUse`): the queue is external code, modelled from what the handlers rely on.
A plain SELECT outside of a transaction waits as well but keeps nothing. A DELETE of
a transaction that has only read, with a TRUNCATE already waiting for it, is the victim of the
deadlock (`CancelRow`).

Each TRUNCATE is its own statement and resets AUTO_INCREMENT, so user and
reservation ids are used again. A cookie is never told. `users` can be truncated
under anybody, as no transaction keeps a lock on it. Histories (`booking`, `made`,
`epoch`, `wipes`, `stray`) tell apart what the ids no longer do; they appear in no guard
but for `MaxBookings`.

`CancelLeak` is the early return with the transaction open (main.go:2041). It holds no
row lock, but it does keep its metadata locks, so initialize then waits for ever and every
later statement on the table behind it.

The reserve handler touches `reservations` in its scan (`ReserveScan`) and
`seat_reservations` in the check of the overlapping ones (`ReserveCheck`); either may end in a
refusal or an error with Rollback (`Fails`). A list or show answer is put together by
`Respond` from the seat rows its SELECT returned. The error of that SELECT is dropped
(main.go:1844), so it may have returned some of the rows or none (`ViewSeatsFails`), and
`Seats[0]` of none panics. `PanicsOnlyWhenGoneOrCut` is about the reservation whose seats
were empty: its own SELECT was cut off, or that very reservation is no longer the one that
was found, is being truncated, or never had a seat.

`Login` is dated at its SELECT of the account (main.go:1764): the SELECT and the
`session.Save` after it are one step, and no step between them could change the id the
cookie gets.

Left out: TRUNCATEs that fail (their errors are dropped), the commit handler (its POST has
no time limit inside its transaction, so it can hold up an initialize as long as the payment
service does not answer; `InitializeEnds` is about the other handlers), passwords
beyond whose they are, prices and times of the answers. A booking of no seats, which the
reserve handler accepts, is in the model (`SeatCounts`) and the proofs but not in the run.

### BenchCache and Benchmark

The application in `Benchmark` is a good one: it gives no seat twice and shows
what it holds. The question is what such an application can be blamed for.
`booked` is its table; a goroutine's `slot` holds the calls it has left, as blocks
that an error ends. A call that changes state is two steps, served and heard,
since the cache hears of it only in between or never: `LosesAnswer` loses any
answer at any time, and after `TimeIsUp` every call in flight is lost. What a lost answer
counts as depends on how it is lost (`KindsOfLoss`): late, a timeout; refused or cut off while
it is decoded, an error of the application (session.go:91); temporary errors, which are
counted apart and decide nothing, stand with the timeouts. A lost look inside an assertion
and any failure to register a card are critical (assert.go:123, 197, payment/client.go:87);
the deadline does not reach the registration, which is sent without the context
(`AsksRegardless`). The driver's phases
follow `bench run`; `WithError` is what becomes of an error in which phase;
`LoadEnds` is the moment the list of errors is closed.

`CriticalErrorsAreExplained` names, for each critical error, the situation a
good application gets it in, one conjunct each. All come from the benchmark:

- `TakenSeatHadBeenCanceled`: `CanReserve` never forgets a canceled reservation
  (reservation_cache.go:179). It also compares departure times to the second
  (188), so it is nearly blind for the load's random times; seat maps are old when
  used (normal.go:70).
- `TooFewWereAskedFor`: with one free seat left the request asks for one, and the
  assertion wants two (assert.go:126).
- `RacersAskedVaguely`: the race scenario on a full car turns into vague requests
  that all succeed (attack.go:255).
- `UnshownIsHeld`: a reservation said not to be shown, or whose card was not registered, is
  one the application does hold, and whose passenger will never pay for it.
- `StillShownIsGone`: a reservation said to be shown after its cancel is gone, and the
  cache will count it as paid for ever (so that the final check would blame it, too).
- `TesterWasNotAlone`: the tester does not count what others take (bgtester.go:105).
- `PretestTrainWasFull`: with fewer than two free seats the wrong-seat scenario
  indexes out of range and the process panics (abnormal.go:148).

A run fails for other reasons as well, of which the property says nothing: `AppLimit` errors of the
application, which refusals of full trains, journeys from a station to itself and answers
cut off add up to, and any error before the load or in fetching the payments.

A journey from a station to itself is possible: `GetRandomSectionWithTokyo` cuts Tokyo out
of the shared list of stations in place, which leaves the last of them, Osaka, in it twice
(random.go:67), and the reserve handler refuses Osaka to Osaka (main.go:1095). `Served` are the
journeys that are not refused. `GetTokaiRandomSection` shuffles a shared list
in place, too; what a data race between two such shuffles makes of it is not modelled.

`VerdictsMatchTheBooks` says the final check blames a good application only for a cancel
that was served at the deadline and never reached the cache (client.go:693).

Left out: scores, penalties and bonus, static files, `AttackSearch` and
`AttackLogin` (the load never starts them), counters of trivial errors, an application that
misbehaves, several passengers per scenario at golden week. The ten racers of `AttackRace`
(attack.go:259) make their requests one after another, beside other scenarios: the
application serves one at a time anyhow, but answers of two racers do not cross. `AvailableDays` decides
which scenarios a load has (`LoadPlan`), with the code's own arithmetic: 366 gives
month 1. The application's initialize answers that number: 10 in this repository,
more once it is made faster. 1 makes `rand.Intn(0)` panic (xrandom/random.go:56).

### BenchWorker

`Reports(r)` is one attempt of the background retrier; the portal may have stored
a result the worker never hears about. `BreaksLoop` is the labelled break at a
signal, `Exits` the `reportWg.Wait`. A dequeue whose answer is lost (the portal
then believes in a running job nobody runs) is not modelled: the portal is not in
the repository.

## 3. Runs

| Run | Instance | Distinct states | Question |
|---|---|---|---|
| `booking_safe` | 3 slots, 2 requests for neighbouring or equal seats, 3 ids, symmetric slots | 68 967 | are seats sold once, do the locks give what the handler relies on? |
| `booking_live` | 2 slots, 6 kinds of request on 2 trains in 2 directions, 2 ids | 20 525 | is it the ledger, are vague seats together, does every request end? |
| `booking_backwards` | 2 slots, one forward and one backward request | – | violated: stations named backwards |
| `booking_durable` | as `booking_safe`, 2 slots | – | violated: COMMIT fails, answer 200 |
| `checkout_safe` | 3 slots, 2 reservations, 2 POSTs, symmetric slots and reservations | 179 957 | do row, answers and service agree? |
| `checkout_twice` | 2 slots, 1 reservation, no failures | – | violated: two commits charge twice |
| `checkout_orphan` | 2 slots, 1 reservation, no failures | – | violated: cancel overlaps commit |
| `payment_safe` | 3 RPCs, 1 card, 2 payments, 2 calls of Initialize, 3 result objects, symmetric | 424 825 | is it the ledger, do cancels last, what survives Initialize? |
| `payment_result` | 2 RPCs, 1 card, 2 payments, 2 result objects | – | violated: the second GetResult writes into the answer of the first |
| `search` | 1 reader, 5 trains of 3 classes, 2 directions and 2 days, 8 journeys, up to 3 reservations, 10 searches, 6 maps; prices between every pair of stations | 689 575 | do search and map agree with the reserve handler, and the three price calculations with each other? |
| `views` | 2 slots, 2 accounts, 1 browser, 2 bookings of two seats, 1 view at a time, 1 initialize | 839 401 | whose reservations does an answer show, are they whole, when does it panic, does initialize end? |
| `bench` | worker, 1 job, 2 load slots, driver, tester, 2 scenarios per run, cars of 3, 2 and 2 seats | 381 895 | what is a good application blamed for, is every job answered? |

Bounds. `MaxId` ids and `MaxPay` charges are handed out in one behaviour, by
guards of `Begin` and `PayFind`. Two bookings already conflict; with three slots
there is a cancel besides, or a third transaction that queues behind a deadlock,
and three ids give the last gap a row in front of it and one behind. Two cars with
two and one seats make the vague search reject a car, split a wanted column
from the other seats, and run out of cars. Two charges give a double commit and
a repeat after a lost one; two reservations show that nothing leaks from one to
the other. Two payments of the service are one to be left behind by Initialize and
one more that must not be; three RPCs are two cancels and a payment, or two
results and a cancel, and three objects let two results differ in size. The
proofs need none of these bounds; `MaxId`, `MaxPay` and `MaxInit` are arbitrary.

In `search`, readers do not affect one another, so one is enough; three reservations make a
train full, half full and released again, and a booking inside, around, beside and
against the asked journey. `MaxResults` is 2 of up to 3 trains, so that answers get cut;
`FewSeats` is 2, so that each sign occurs. In `views`, two bookings and one
initialize reuse an id; one browser serves both accounts one after the other; an account's
second login and the id the other had before make cookies point at strangers; a view changes
nothing, so one at a time (`MaxViews`) is enough, and of two seats a statement that
fails may have returned one. In
`bench`, one journey of the load is from a station to itself, as the benchmark may ask for, `MaxBusy` 2 scenarios (the tester counts as one) already meet on a seat,
three seats of the tester's car make it see all three signs, `Racers` and `Many` are 2 and 1
where the code has 10 and up to 36, and `AppLimit` is 2 instead of 1000: one error more or less must be
distinguishable. `AvailableDays` 210 starts every scenario the load has. One job
never has its report run beside the next job; `NothingIsLeft` is proved for any number.

`CHECK_DEADLOCK FALSE` for `SeatBooking` and `Checkout`: when the ids are used up and slots have
leaked, a behaviour really ends. So it does in `bench`, when the worker process has exited.

Symmetry only permutes values that no constant or property names, and is not used
in the run with a liveness property.

Fairness (`FairSpec`, used by `booking_live`). `SF` for each slot's `Advance`:
its goroutine runs, and InnoDB serves the waiters of a lock first come, first
served, so a statement that can be granted again and again is granted. `WF` for
`DeadlockVictim`: the detector looks at every wait. Nothing is assumed of
clients, of `Abort`, or of the panics.

`Storefront`: `WF` for what a slot's goroutine does once it has a request. A
statement that can go on goes on; since a waiting TRUNCATE keeps newcomers from
its table, nothing it waits for comes back for ever, and weak fairness is enough.
Clients and `CancelLeak` get none.

`BenchWorker`: `WF` for the worker's own steps, its reports, the main goroutine
and the pretest's passenger. The client of the application gives every call up
after some seconds, the load ends after sixty, the retrier after its last
attempt. Two calls have no limit of their own: the payment client uses
`http.DefaultClient` and the worker runs the benchmark under
`context.Background()`, so its `StatusTimeout` never happens
(bench-worker.go:101). For these the fairness assumes that the payment service answers or the
connection fails. Scenarios of the load and the tester need none: the deadline comes without them.

### Properties

- `NoDoubleBooking`, `CheckStaysValid`, `LockInv` (`RowsApart`,
  `PastScanHoldsAll`, `InsertedIsAlone`), `VagueSeatsTogether`,
  `LeakBlocksNoStatement`, `ImplementsLedger`, `EveryRequestEnds` (`SeatBooking`).
- `DoneIsCharged`, `PaidHasLivePayment`, `RefundedWhenCanceled`,
  `ChargedAsRecorded` (`Checkout`). The second and third are what the final
  check of the benchmark asks, with the provisos under which the code keeps it.
- `ChargedToACard`, `ConfirmedStaysCanceled`, `OneStaleAndCanceled`,
  `HeldResultIsRight`, `ImplementsLedger` (`PaymentService`).
- `FoundTrainsAreAccepted`, `NoTrainIsForgotten`, `MapTellsHolding`,
  `SignsTellSeats` (`TrainSearch`): what a passenger is told against what the
  reserve handler would do at that moment. `FareIsOfItsStep`, `ChargeIsExpected`, `ShownIsCharged` (`Fare`).
- `SessionsKeepTheirAccount`, `SeatRowsBelong`, `ViewsAreWhole`,
  `ViewsShowOwnBookings`, `PanicsOnlyWhenGoneOrCut`, `InitializeEnds` (`Storefront`). Their
  provisos are what the code does not keep: after `users` is truncated an old
  cookie acts for whoever gets its id; a booking between the first two TRUNCATEs leaves seat
  rows behind that the next owner of the id is shown as theirs.
- `CriticalErrorsAreExplained`, `VerdictsMatchTheBooks` (`Benchmark`),
  `ExitLeavesNothing`, `EveryJobIsAnswered`, `StopIsObeyed` (`BenchWorker`).
- Violated, each with a finding in `PROJECT.json`: `NoSharedSegment`,
  `AckedIsDurable`, `ChargedAtMostOnce`, `CanceledIsRefunded`, `AnswerIsRight`. Those
  two of `Checkout` are checked over `FailureFreeSpec`, so that the order of steps alone is at fault,
  and only at rest (`Quiet`), so that no pending step could put it right.

`NoDoubleBooking` is about sections in the direction of the train and holds;
`NoSharedSegment` says the same of all sections the handler accepts and fails. `VagueSeatsTogether` covers the number of seats, the
car and the column; that the seats are free is `CheckStaysValid`.

## 4. Theorems

All for arbitrary constants under these assumptions, which TLC evaluates in the runs:

- `BookingAssumption`: master data is typed, cars are finite, place 0 is no seat, a request
  names no dummy seat;
- `CheckoutAssumption`, `ServiceAssumption`: the bounds are natural numbers;
- `SearchAssumption`: timetable and requests are typed, each kind of seat has finitely many;
- `FareAssumption`: the server is in some time zone, prices are asked between stations
  of the line, from 2020 on, for any party;
- `StorefrontAssumption`: seat counts and bounds are natural numbers, nobody is not an account;
- `BenchAssumption`: the journeys of the pretest and the tester are not from a station to itself
  (those of the load may be), cars are finite, and of the
  background tester what its code takes for granted: the car it looks at has `TesterSeats`
  seats, an odd number (65 in the code), the application starts to show a triangle
  (`FewSeats`) no later than the tester expects one (`TesterFew`), and what the pretest
  reserves vaguely is on another train. The worker's own theorem, `NothingIsLeft`, does without.

| Theorem | Says |
|---|---|
| `SectionsProofs!SectionDupExact` | for forward sections the duplicate test is exactly "shares a segment" |
| `SeatBookingProofs!Typing` | `TypeOK` |
| `SeatBookingProofs!Locking` | `LockInv` |
| `SeatBookingProofs!CheckNeverStale` | `CheckStaysValid` |
| `SeatBookingProofs!SeatsAreSoldOnce` | `NoDoubleBooking` |
| `SeatBookingProofs!VagueSeatsAreTogether` | `VagueSeatsTogether` |
| `SeatBookingProofs!LeaksBlockNoStatement` | `LeakBlocksNoStatement` |
| `SeatBookingProofs!BookingImplementsLedger` | `ImplementsLedger` |
| `CheckoutProofs!Typing` | `TypeOK` |
| `CheckoutProofs!PaidRowsAreCharged` | `DoneIsCharged` |
| `CheckoutProofs!AcknowledgedPaymentsAreLive` | `PaidHasLivePayment` |
| `CheckoutProofs!CanceledMeansRefunded` | `RefundedWhenCanceled` |
| `CheckoutProofs!ChargesAreRecorded` | `ChargedAsRecorded` |
| `CheckoutProofs!CheckoutUsesTheLedger` | the service's side of `Checkout` is a `PaymentLedger` |
| `PaymentServiceProofs!Typing` | `TypeOK` |
| `PaymentServiceProofs!ChargesAreToCards` | `ChargedToACard` |
| `PaymentServiceProofs!CancelsStayDone` | `ConfirmedStaysCanceled` |
| `PaymentServiceProofs!InitializeLeavesOne` | `OneStaleAndCanceled` |
| `PaymentServiceProofs!ServiceImplementsLedger` | `ImplementsLedger` |
| `PaymentServiceProofs!HeldResultsAreRight` | `HeldResultIsRight` |
| `SearchProofs!SearchTyping` | `SearchTypeOK` |
| `SearchProofs!SearchResultsAreBookable` | `FoundTrainsAreAccepted` |
| `SearchProofs!SearchIsComplete` | `NoTrainIsForgotten` |
| `SearchProofs!SeatMapsTellHolding` | `MapTellsHolding` |
| `SearchProofs!SignsCanBeTrusted` | `SignsTellSeats` |
| `SearchProofs!FaresAreOfTheirStep` | `FareIsOfItsStep` |
| `SearchProofs!ChargesAreExpected` | `ChargeIsExpected` |
| `SearchProofs!ShownPricesAreCharged` | `ShownIsCharged` |
| `StorefrontProofs!StoreTypeOK` | `TypeOK` |
| `StorefrontProofs!SessionsAreKept` | `SessionsKeepTheirAccount` |
| `StorefrontProofs!SeatsBelong` | `SeatRowsBelong` |
| `StorefrontProofs!ViewsWhole` | `ViewsAreWhole` |
| `StorefrontProofs!ViewsOwn` | `ViewsShowOwnBookings` |
| `StorefrontProofs!PanicsExplained` | `PanicsOnlyWhenGoneOrCut` |
| `BenchmarkProofs!OverwrapsExact` | the cache's overlap test, for journeys of one direction, is exactly "shares a segment" |
| `BenchmarkProofs!CanReserveExact` | what `CanReserve` compares, said in segments and seats |
| `BenchWorkerProofs!NothingIsLeft` | `ExitLeavesNothing` |
| `BenchWorkerProofs!BenchIsTyped` | `BenchTypeOK` |
| `BenchWorkerProofs!VerdictsCanBeTrusted` | `VerdictsMatchTheBooks` |
| `BenchWorkerProofs!CriticalErrorsHaveCauses` | `CriticalErrorsAreExplained` |
| `BenchWorkerProofs!ApplicationIsHonest` | the application of `Benchmark` never sells a seat twice: what it is blamed for is not its fault |

*Booking.* The argument is the one the code leaves unsaid. A transaction that
has scanned holds all rows and the last gap (`PastScanHoldsAll`). To insert it
needs the gap for itself, and from then on it is alone in it (`InsertedIsAlone`):
nobody else is past a scan, and a late DELETE cannot take the gap behind the new
row, since its id is the newest. So between check and COMMIT only cancels commit,
which take rows away: the check stays true (`CheckStaysValid`), and at COMMIT
`SectionDupExact` turns the handler's test into segments (`NoDoubleBooking`). The
ledger needs the same fact as the guard of `Book`.

*Vague seats.* It does not matter what the two queries return, only that the car has
enough seats left: `PickSeatsExact` counts the choice (one seat of the wanted column and
the lowest of the others, which are disjoint, or the lowest of all), and no later step
of the slot touches `seats` (`NextTogether`).

*Checkout.* `DoneIsCharged` and `PaidHasLivePayment` need two facts more: a
refund is only under way for a reservation a cancel was asked for
(`RefundsAsked`), and every payment id in a handler belongs to its reservation
(`IdsMatch`); together `Books`. `RefundedWhenCanceled` and `ChargedAsRecorded`
come from `BooksAgree`: for each undisturbed reservation the row and the service
agree, but for what the one request that is paying it, or the ones canceling
it, are about to make right. Every call, a late one too, is a `Charge` or a `Cancel` of the
ledger, so the handlers take the service for no more than it promises.

*Payment service.* `cancelLock` admits one cancel (`OneCanceler`), so one copy at
most is asleep when Initialize runs. `StaleInv` adds that while an old payment is
in the map, a cancel asleep is one of it or of a payment of this epoch; hence the
next copy written back never makes a second old payment. For the ledger the copy
must say what the map says as long as the payment is there (`CopyAgrees`) and be
made with a known card (`TokensKnown`).

*Search.* `SearchIInv` is `LedgerOK` with, per reader, `DeskOK`: what a request
has gathered so far came from trains that accept the section, what is
not gathered is still to be looked at or cannot be reserved; and the map of a car says of each place read what the ledger said
when it was read. The ledger's steps leave a desk alone, so answers are
judged at the moment they were read.

*Fares.* An answer is the answer to a question (`Quoted`), so it is enough to
look at one question. No two stations are a step's distance apart: the table of
positions says so, pair by pair. Then both loops stop at the same step and both ways to
choose a season at the same season, and what is left is arithmetic (`Halves`).

*Storefront.* `StoreIInv` conjoins `TablesTyped`, `RowsAgree`, `CookiesAgree`,
`SlotsOK` and `SeatsOK`. A booking number names one row, whoever holds a copy
(`RowsAgree`). Until `users` is truncated a user id stands for one account in all
cookies, requests and rows (`CookiesAgree`). An open reserve transaction keeps the
lock on `reservations`, and on `seat_reservations` once it has inserted there, so
no TRUNCATE passes a half-made reservation; whatever commits between the two
TRUNCATEs has stray seats or none (`SlotsOK`). The seat rows of a booking are all
of it or none (`SeatsOK`). What a view still has to read has not changed hands
since it was found, unless it was wiped. `PanicsOnlyWhenGoneOrCut` follows: the same
booking is the same row, which has its seats unless a truncation is under way, and a SELECT
that was not cut off returns them.

*Worker.* `WorkerIInv`: every job is in the queue, executing, being reported, or
answered; a report carries its job's own outcome; a finished process has a
verdict, through every step of `BenchNext`; after the exit no report is pending.

*Benchmark.* `RunIInv` is built in layers, each of which is inductive given those before it.

- `BenchIInv`: `Owners` says that each reservation belongs to at most one
  passenger (the one it is busy with, and those paid for and still to cancel), whose
  place in its scenario tells the row's status; `Books` that the cache knows
  only what the application has, and nothing committed and canceled; `Stages`
  types the rest. A scenario is a list of blocks of calls; what the proofs need of it
  (`ScenarioOK`: a commit is preceded by a reservation, a cancel by a commit, a block
  is not empty) is a statement about the positions of its calls, which stays true of
  every rest of it, and is proved of each scenario the benchmark starts. Calls taken
  together are found by the least index (`PlainRow`, from `LeastNumber`), not by
  induction.
- `VerdictsMatchTheBooks` is kept because only the owner of a reservation moves it, and each
  time the cache misses a step, it misses the cancel of a served call.
- `Sold`: the application sells no seat twice and the cache has what was asked for;
  hence an earlier holder of a taken seat has canceled. A racer's win is a reservation
  nobody owns any more, so nobody cancels it, and a second winner has the same request:
  either they share a seat, which `SoldOnce` excludes, or they name none. Every step of a
  goroutine lets the books only grow, apart from what is its own (`Grows`), so a cause stays.
- `Watched`: for a wrong sign. The pretest leaves nothing on the tester's train
  (`Pretested`: what is not canceled is the one reservation that the rest of its script
  cancels), passengers of the load reserve for the load's trips only
  (`LoadTrips`, `OnlyFor`), and so a tester that lost nothing and met nobody knows the number
  of free seats, and asks for them two at a time from an odd number, which is one
  at last and so passes every sign (`TesterKnows`).
- `Explained`: the conjuncts themselves, with `Marked`. `Marked` ties the passengers' notes to the
  marks of the cache: whatever is still to be committed has been added, whatever is to be
  canceled is committed. So the reservation a lost look or a refused card was about has the
  right marks when its passenger gives up, and from then on it belongs to nobody
  (`LeavesBehind`): `UnshownForGood` and `StillForGood` add that to the two conjuncts,
  and what belongs to nobody keeps its status and its marks (`MarksOwn`).

Every invariant a passing run checks, the action properties `SignsTellSeats` and
`PanicsOnlyWhenGoneOrCut` and both
refinements are theorems; a third refinement, `CheckoutUsesTheLedger`, is proved and in no
run. Model-checked only: the liveness properties
`EveryRequestEnds`, `InitializeEnds`, `EveryJobIsAnswered` and `StopIsObeyed`,
which are out of this prover's reach, and the five violated properties, which have
counterexamples instead.

## 5. Not modelled, and the plan

Left to do, in order:

1. Larger instances of `Benchmark`: three scenarios in flight, two jobs, other values of
   `AvailableDays`.
2. TRUNCATEs that fail, whose errors initialize drops (main.go:2081), and the commit handler,
   in `Storefront`.
3. The racers of `AttackRace` as goroutines of their own.

Not planned, with the reason:

- the ports to other languages and the frontend: copies of the same handlers and
  a single-page client; deployment files: no behaviour;
- scores, penalties and bonus of the benchmark: arithmetic on counters that no
  step of a run depends on;
- an application that misbehaves: the benchmark is judged by what it says of a
  good one, and the findings say where this one is not;
- `len()` of both payment maps read without the lock (server.go:252): a data race
  on a number that is only logged;
- limits of the database (`max_connections` against leaked transactions, main.go:1174).
