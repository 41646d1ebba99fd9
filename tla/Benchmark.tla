------------------------------ MODULE Benchmark -----------------------------
(***************************************************************************)
(* One run of the benchmark against an application that keeps its          *)
(* promises: preparation, pretest, sixty seconds of load beside a          *)
(* background tester, final check, verdict.  Every answer may be lost, and *)
(* at the deadline every call still in flight is given up; the application *)
(* may have done its work all the same.  What such an application can      *)
(* still be blamed for is what the properties are about.                   *)
(***************************************************************************)
EXTENDS BenchCache, FiniteSets, Sequences

CONSTANTS Load,         \* slots for scenarios that run at once
          driver,       \* the main goroutine, which runs the pretest itself
          tester,       \* the background tester
          Trip,         \* set of [train, day, time, from, to] passengers ask for
          PretestTrip,  \* the trip the pretest reserves, 2020-01-01 10:00
          VagueTrip,    \* the trip it reserves vaguely
          TesterTrip,   \* the trip the background tester fills up
          CarsOf,       \* function: train -> its cars, each a set of places; the
                        \* passengers look at the map of the first
          TesterSeats,  \* remainSeats at the start (65)
          TesterFew,    \* the tester expects a triangle from here on (10)
          FewSeats,     \* the application shows one below this many (10)
          Racers,       \* requests of the race condition scenario (10)
          Many,         \* reservations of the many-... scenarios (month * 3)
          AppLimit,     \* application errors that disqualify (1000)
          AvailableDays,\* what the application's initialize answered
          MaxBusy       \* bound: scenarios of a run, the background tester
                        \* included, that get past their first call

People == 2             \* adults and children of every request

AnyTrip == Trip \cup {PretestTrip, VagueTrip, TesterTrip}

(* Passengers may ask for a journey from Osaka to Osaka: each time a       *)
(* section with Tokyo is drawn, Tokyo is cut out of the stations in place  *)
(* and Osaka stands there once more (random.go:67).                        *)
Served == {trip \in AnyTrip : trip.from # trip.to}

(* The tester's car has an odd number of seats, fills up two at a time and *)
(* shows a triangle when the tester comes to expect one; what the pretest  *)
(* reserves vaguely is on another train (bgtester.go, core_pretest.go).    *)
ASSUME BenchAssumption ==
  /\ driver \notin Load /\ tester \notin Load /\ driver # tester
  /\ \A trip \in AnyTrip : /\ trip.from \in Int /\ trip.to \in Int
                           /\ trip.train \in DOMAIN CarsOf
  /\ {PretestTrip, VagueTrip, TesterTrip} \subseteq Served
  /\ \A t \in DOMAIN CarsOf : /\ DOMAIN CarsOf[t] \subseteq Nat /\ 1 \in DOMAIN CarsOf[t]
                              /\ \A c \in DOMAIN CarsOf[t] : /\ CarsOf[t][c] \subseteq Nat
                                                             /\ IsFiniteSet(CarsOf[t][c])
  /\ Racers \in Nat /\ Many \in Nat \ {0} /\ AppLimit \in Nat /\ MaxBusy \in Nat
  /\ TesterSeats \in Nat /\ TesterSeats % 2 = 1
  /\ Cardinality(CarsOf[TesterTrip.train][1]) = TesterSeats
  /\ FewSeats \in 1 .. TesterSeats
  /\ TesterFew \in 1 .. FewSeats /\ (FewSeats % 2 = 1 => TesterFew < FewSeats)
  /\ <<VagueTrip.train, VagueTrip.day>> # <<TesterTrip.train, TesterTrip.day>>

VARIABLES phase,        \* how far bench run has come
          deadline,     \* benchCtx is done
          errs,         \* PreTestErrs, BenchmarkErrs and FinalCheckErrs
          cache,        \* ReservationCache
          booked,       \* the application's bookings; an id is an index
          slot,         \* function: goroutine -> the calls it has left, etc.
          busy,         \* scenarios begun, for MaxBusy
          hurt,         \* history: did the tester, or the main goroutine, lose an answer
          verdict       \* what the process ends with

benchVars == <<phase, deadline, errs, cache, booked, slot, busy, hurt, verdict>>

Goroutine == Load \cup {driver, tester}
Critical == {"taken seat sold", "too few seats", "not shown", "still shown", "sold twice", "sign", "card"}

-----------------------------------------------------------------------------
(* Scenarios: blocks of calls.  An error ends the block, and the scenario  *)
(* with it when the block is fatal; it is added to the errors `adds` times.*)
(* The racers of AttackRace, ten goroutines at once in attack.go:259, make  *)
(* their requests one after another; those of other slots come between.    *)

Block(calls) == [calls |-> calls, fatal |-> TRUE, adds |-> 1]
Try(calls) == [calls |-> calls, fatal |-> FALSE, adds |-> 1]
Times(n, block) == [i \in 1 .. n |-> block]

Register == <<"signup", "login">>
Stations == Register \o <<"stations">>
Simple == <<"stations", "search", "vague", "card", "commit">>
Specified == <<"stations", "search", "map", "reserve", "card", "commit">>

Normal == <<Block(Register \o Specified \o <<"list", "show", "logout">>)>>
NormalCancel == <<Block(Register \o Specified \o <<"list", "show", "cancel", "logout">>)>>
NormalVague == <<Block(Register \o Register \o <<"vague">>)>>
NormalManyCancel == <<Block(Stations)>> \o Times(Many, Try(Simple))
                      \o Times(Many, Try(<<"cancel">>)) \o <<Try(<<"logout">>)>>
NormalManySearch == [i \in 1 .. 2 * Many |-> IF i % 2 = 1 THEN Block(Stations) ELSE Try(Simple)]
AttackOther == <<Block(Register \o Simple \o <<"logout">> \o Register \o <<"foreignCancel">>)>>
AttackRace == <<Block(Stations \o <<"search", "map">>)>> \o Times(Racers, Try(<<"racer">>))
                \o <<Block(<<"count">>)>>
WrongSection == <<Block(Stations \o <<"search", "map", "refused">>)>>
WrongSeat == <<Block(Register \o <<"search", "map", "wrongSeat">>)>>
SeasonVague == <<Block(Stations \o Simple)>>
SeasonSpecified == <<Block(Stations), [calls |-> Specified, fatal |-> TRUE, adds |-> 2]>>
PretestNormal == Block(Stations \o <<"search", "map", "reserve", "show", "list", "card", "commit", "cancel">>)
PretestReserveVague == Block(Register \o <<"vague", "logout">>)

(* The month of ReservationEndDate; the 366th day is New Year's Day.       *)
MonthStart == <<0, 31, 60, 91, 121, 152, 182, 213, 244, 274, 305, 335>>
Month == IF AvailableDays = 366 THEN 1
         ELSE Cardinality({m \in 1 .. 12 : MonthStart[m] <= AvailableDays})

(* The scenarios of one load, in order.  One whose first answer is lost    *)
(* leaves nothing behind, and a load that is done makes room for the next: *)
(* any scenario may follow any other.                                      *)
LoadPlan ==
  <<Normal, NormalCancel, AttackOther, AttackRace, WrongSection, WrongSeat>>
  \o (IF Month > 3 THEN <<NormalManySearch, NormalManyCancel>> ELSE << >>)
  \o <<NormalVague>>
  \o (IF AvailableDays >= 119 THEN <<SeasonVague>> ELSE << >>)
  \o (IF AvailableDays >= 127 THEN <<SeasonVague>> ELSE << >>)
  \o (IF AvailableDays >= 205 THEN <<SeasonSpecified, SeasonVague>> ELSE << >>)

TripsOf(blocks) == CASE blocks = WrongSeat -> {PretestTrip}
                     [] blocks = NormalVague -> {VagueTrip}
                     [] OTHER -> Trip

-----------------------------------------------------------------------------
(* The application: it gives no seat twice and shows what it holds.        *)

RequestOf(trip, seats) ==
  [train |-> trip.train, day |-> trip.day, time |-> trip.time,
   from |-> trip.from, to |-> trip.to, seats |-> seats]

SameRun(a, b) == a.train = b.train /\ a.day = b.day

Free(trip, car) ==
  car \ UNION {booked[i].seats : i \in {k \in DOMAIN booked :
                 /\ booked[k].status # "gone" /\ SameRun(booked[k].trip, trip)
                 /\ Overlap(trip.from, trip.to, booked[k].trip.from, booked[k].trip.to)}}

FirstOf(places, n) == {x \in places : Cardinality({y \in places : y < x}) < n}

(* FilterTrainSeats: the first free seats of the map, two if there are two. *)
FilterTrainSeats(trip) == FirstOf(Free(trip, CarsOf[trip.train][1]), 2)

(* Seats a vague request gets: of the first car that has enough.           *)
VagueSeats(trip) ==
  LET roomy == {c \in DOMAIN CarsOf[trip.train] : Cardinality(Free(trip, CarsOf[trip.train][c])) >= People}
  IN  IF roomy = {} THEN {}
      ELSE FirstOf(Free(trip, CarsOf[trip.train][CHOOSE c \in roomy : \A d \in roomy : c <= d]), People)

(* None for a journey that goes nowhere.                                   *)
GivenSeats(trip, asked) ==
  IF trip \notin Served THEN {}
  ELSE IF asked = {} THEN VagueSeats(trip)
  ELSE IF \E c \in DOMAIN CarsOf[trip.train] : asked \subseteq Free(trip, CarsOf[trip.train][c])
         THEN asked ELSE {}

(* seatAvailability of the reserved seats.                                 *)
Sign(trip) == LET n == Cardinality(Free(trip, CarsOf[trip.train][1]))
              IN  IF n = 0 THEN "none" ELSE IF n < FewSeats THEN "few" ELSE "plenty"

(* The payment service's result: whether each payment still stands.        *)
Paid == [i \in {k \in DOMAIN booked : booked[k].status # "held"} |-> booked[i].status = "paid"]

-----------------------------------------------------------------------------
(* Errors.                                                                 *)

IsFailure == errs.msgs # {} \/ errs.application >= AppLimit

(* AddError: the pretest's errors are its own; once the load is over, the  *)
(* benchmark's errors are dropped.  Timeouts, and the errors of the        *)
(* network that call themselves temporary, only cost points.               *)
WithError(g, kind, adds) ==
  CASE g = driver -> [errs EXCEPT !.pretest = TRUE]
    [] g # driver /\ phase # "load" -> errs
    [] g # driver /\ phase = "load" /\ kind = "timeout" -> errs
    [] g # driver /\ phase = "load" /\ kind = "application" ->
         [errs EXCEPT !.application = IF @ + adds > AppLimit THEN AppLimit ELSE @ + adds]
    [] g # driver /\ phase = "load" /\ kind \in Critical -> [errs EXCEPT !.msgs = @ \cup {kind}]

-----------------------------------------------------------------------------
(* Passengers: goroutines that run a scenario, and the pretest.            *)

Done == [pc |-> "done"]
Start(blocks, trip) == [pc |-> "calling", todo |-> blocks, trip |-> trip, asked |-> {},
                        id |-> 0, kept |-> {}, won |-> 0]

Awake(g) == IF g = driver THEN phase \in {"pretest", "pretest vague"} ELSE phase \in {"load", "final"}

On(g, pc, calls) ==
  Awake(g) /\ slot[g].pc = pc /\ g # tester /\ Head(Head(slot[g].todo).calls) \in calls

Settled(s, todo) == IF todo = << >> THEN Done ELSE [s EXCEPT !.pc = "calling", !.todo = todo]

(* The first n calls of the block went well.                               *)
Past(s, n) ==
  LET calls == Head(s.todo).calls
  IN  Settled(s, IF n = Len(calls) THEN Tail(s.todo)
                 ELSE [s.todo EXCEPT ![1].calls = SubSeq(@, n + 1, Len(@))])

Next1(g) == slot' = [slot EXCEPT ![g] = Past(@, 1)]

(* The call failed: the block is over.                                     *)
Fails(g, kind) ==
  LET block == Head(slot[g].todo)
  IN  /\ slot' = [slot EXCEPT ![g] = Settled(@, IF block.fatal THEN << >> ELSE Tail(@.todo))]
      /\ errs' = WithError(g, kind, block.adds)

(* Calls of the client that make one request, look at the status and parse *)
(* the answer, and keep nothing the properties tell apart.                 *)
AccountCalls == {"signup", "login", "logout"}
TimetableCalls == {"stations", "search"}
ViewCalls == {"list", "show"}
Plain == AccountCalls \cup TimetableCalls \cup ViewCalls \cup {"refused"}

(* How many plain calls come in a row.                                     *)
PlainCalls(calls) ==
  CHOOSE k \in 1 .. Len(calls) : /\ \A i \in 1 .. k : calls[i] \in Plain
                                 /\ k < Len(calls) => calls[k + 1] \notin Plain

(* Calls that change nothing modelled here, as many as come in a row: the  *)
(* "refused" one is a request the application turns down, as the scenario  *)
(* wants it to.                                                            *)
Asks(g) ==
  /\ On(g, "calling", Plain) /\ ~deadline
  /\ slot' = [slot EXCEPT ![g] = Past(@, PlainCalls(Head(@.todo).calls))]
  /\ UNCHANGED <<phase, deadline, errs, cache, booked, busy, hurt, verdict>>

(* Two calls the deadline does not end: a card is registered without the   *)
(* context, and any error of the cancel of another's reservation passes    *)
(* for the refusal it should be.                                           *)
AsksRegardless(g) ==
  /\ On(g, "calling", {"card", "foreignCancel"})
  /\ Next1(g)
  /\ UNCHANGED <<phase, deadline, errs, cache, booked, busy, hurt, verdict>>

(* The seat map; by the time of the reservation it may be old.             *)
Maps(g) ==
  /\ On(g, "calling", {"map"}) /\ ~deadline
  /\ slot' = [slot EXCEPT ![g] = Past([@ EXCEPT !.asked = FilterTrainSeats(slot[g].trip)], 1)]
  /\ UNCHANGED <<phase, deadline, errs, cache, booked, busy, hurt, verdict>>

Asked(g) == IF Head(Head(slot[g].todo).calls) = "vague" THEN {} ELSE slot[g].asked

(* The application serves a reserve request.  A map without free seats     *)
(* made it a vague one.                                                    *)
Reserves(g) ==
  /\ On(g, "calling", {"reserve", "vague", "racer"}) /\ ~deadline
  /\ LET s == slot[g]
         given == GivenSeats(s.trip, Asked(g))
     IN  /\ booked' = IF given = {} THEN booked
                      ELSE Append(booked, [trip |-> s.trip, seats |-> given, status |-> "held"])
         /\ slot' = [slot EXCEPT ![g].pc = "served",
                                 ![g].id = IF given = {} THEN 0 ELSE Len(booked) + 1]
  /\ UNCHANGED <<phase, deadline, errs, cache, busy, hurt, verdict>>

Request(g) == RequestOf(slot[g].trip, Asked(g))

(* A racer whose request was refused is counted as a winner too.           *)
HearsReserveOfLosers(g) ==
  /\ On(g, "served", {"reserve", "vague", "racer"}) /\ ~deadline
  /\ IF slot[g].id = 0 /\ ~On(g, "served", {"racer"})
       THEN Fails(g, "application")
       ELSE slot' = [slot EXCEPT ![g].pc = "approved"] /\ UNCHANGED errs
  /\ UNCHANGED <<phase, deadline, cache, booked, busy, hurt, verdict>>

(* The answer arrives: a refusal, or a success that assertCanReserve looks *)
(* at (not for the racers).                                                *)
HearsReserve(g) ==
  /\ On(g, "served", {"reserve", "vague", "racer"}) /\ ~deadline
  /\ LET racing == On(g, "served", {"racer"})
     IN  CASE slot[g].id = 0 /\ racing -> Next1(g) /\ UNCHANGED errs
           [] slot[g].id = 0 /\ ~racing -> Fails(g, "application")
           [] slot[g].id # 0 /\ (racing \/ CanReserve(cache, Request(g))) ->
                slot' = [slot EXCEPT ![g].pc = "approved"] /\ UNCHANGED errs
           [] slot[g].id # 0 /\ ~racing /\ ~CanReserve(cache, Request(g)) ->
                Fails(g, "taken seat sold")
  /\ UNCHANGED <<phase, deadline, cache, booked, busy, hurt, verdict>>

(* ReservationCache.Add, under a lock of its own.                          *)
Adds(g) ==
  /\ On(g, "approved", {"reserve", "vague", "racer"})
  /\ cache' = CacheAdd(cache, slot[g].id, Request(g))
  /\ slot' = [slot EXCEPT ![g] = IF On(g, "approved", {"racer"})
                                   THEN Past([slot[g] EXCEPT !.won = slot[g].won + 1], 1)
                                   ELSE [@ EXCEPT !.pc = "added"]]
  /\ UNCHANGED <<phase, deadline, errs, booked, busy, hurt, verdict>>

(* assertReserve: the list and the reservation are fetched.                *)
AssertsReserve(g) ==
  /\ On(g, "added", {"reserve", "vague"}) /\ ~deadline
  /\ IF Cardinality(booked[slot[g].id].seats) = People
       THEN Next1(g) /\ UNCHANGED errs
       ELSE Fails(g, "too few seats")
  /\ UNCHANGED <<phase, deadline, cache, booked, busy, hurt, verdict>>

(* The application takes the payment and confirms the reservation.         *)
Commits(g) ==
  /\ On(g, "calling", {"commit"}) /\ ~deadline
  /\ booked' = [booked EXCEPT ![slot[g].id].status = "paid"]
  /\ slot' = [slot EXCEPT ![g].pc = "served"]
  /\ UNCHANGED <<phase, deadline, errs, cache, busy, hurt, verdict>>

HearsCommit(g) ==
  /\ On(g, "served", {"commit"}) /\ ~deadline
  /\ cache' = CacheCommit(cache, slot[g].id)
  /\ slot' = [slot EXCEPT ![g] = Past([slot[g] EXCEPT !.kept = slot[g].kept \cup {slot[g].id}], 1)]
  /\ UNCHANGED <<phase, deadline, errs, booked, busy, hurt, verdict>>

NextKept(g) == CHOOSE i \in slot[g].kept : \A j \in slot[g].kept : i <= j

(* The application cancels reservation and payment.                        *)
Cancels(g) ==
  /\ On(g, "calling", {"cancel"}) /\ ~deadline /\ slot[g].kept # {}
  /\ booked' = [booked EXCEPT ![NextKept(g)].status = "gone"]
  /\ slot' = [slot EXCEPT ![g].pc = "served", ![g].id = NextKept(g),
                          ![g].kept = @ \ {NextKept(g)}]
  /\ UNCHANGED <<phase, deadline, errs, cache, busy, hurt, verdict>>

(* assertCancelReservation finds the reservation neither listed nor shown; *)
(* only then does the cache hear of the cancel.                            *)
HearsCancel(g) ==
  /\ On(g, "served", {"cancel"}) /\ ~deadline
  /\ cache' = CacheCancel(cache, slot[g].id)
  /\ Next1(g)
  /\ UNCHANGED <<phase, deadline, errs, booked, busy, hurt, verdict>>

(* NormalManyCancelScenario has fewer reservations than it tried for.      *)
NothingToCancel(g) ==
  /\ On(g, "calling", {"cancel"}) /\ slot[g].kept = {}
  /\ Next1(g)
  /\ UNCHANGED <<phase, deadline, errs, cache, booked, busy, hurt, verdict>>

Counts(g) ==
  /\ On(g, "calling", {"count"})
  /\ CASE slot[g].won = 0 -> Fails(g, "application")
       [] slot[g].won = 1 -> Next1(g) /\ UNCHANGED errs
       [] slot[g].won > 1 -> Fails(g, "sold twice")
  /\ UNCHANGED <<phase, deadline, cache, booked, busy, hurt, verdict>>

(* The scenario spoils two of the seats it found; with fewer than two the  *)
(* index is out of range, and the panic takes the whole process with it.   *)
AsksForWrongSeat(g) ==
  /\ On(g, "calling", {"wrongSeat"})
  /\ \/ /\ Cardinality(slot[g].asked) < 2
        /\ phase' = "over" /\ verdict' = "crash" /\ UNCHANGED slot
     \/ /\ ~ (Cardinality(slot[g].asked) < 2) /\ ~deadline
        /\ Next1(g) /\ UNCHANGED <<phase, verdict>>
  /\ UNCHANGED <<deadline, errs, cache, booked, busy, hurt>>

(* What a lost answer counts as: a timeout or, when the connection is      *)
(* refused or the body cut off, an error of the application; an error of   *)
(* the look at one reservation inside an assertion is critical, and so is  *)
(* whatever befalls the registration of a card.                            *)
KindsOfLoss(g) ==
  IF On(g, "calling", {"card"}) THEN {"card"}
  ELSE {"timeout", "application"}
         \cup (IF slot[g].pc = "added" THEN {"not shown"} ELSE {})
         \cup (IF On(g, "served", {"cancel"}) THEN {"still shown"} ELSE {})

(* The answer of the call is lost, late, or the deadline has passed.       *)
LosesAnswer(g) ==
  /\ \/ On(g, "calling", Plain \cup {"card", "map", "reserve", "vague", "racer", "commit"})
     \/ On(g, "calling", {"wrongSeat"}) /\ ~ (Cardinality(slot[g].asked) < 2)
     \/ On(g, "calling", {"cancel"}) /\ slot[g].kept # {}
     \/ On(g, "served", {"reserve", "vague", "racer", "commit", "cancel"})
     \/ On(g, "added", {"reserve", "vague"})
  /\ IF On(g, slot[g].pc, {"racer"})
       THEN Next1(g) /\ UNCHANGED errs
       ELSE \E kind \in KindsOfLoss(g) : Fails(g, kind)
  /\ hurt' = hurt \cup (IF g = driver THEN {"main"} ELSE {})
  /\ UNCHANGED <<phase, deadline, cache, booked, busy, verdict>>

Passenger(g) ==
  \/ Asks(g) \/ AsksRegardless(g) \/ Maps(g) \/ Reserves(g) \/ HearsReserve(g) \/ Adds(g) \/ AssertsReserve(g)
  \/ Commits(g) \/ HearsCommit(g) \/ Cancels(g) \/ HearsCancel(g) \/ NothingToCancel(g)
  \/ Counts(g) \/ AsksForWrongSeat(g) \/ LosesAnswer(g)

(* The next scenario of some load, on any slot that is free: goroutines    *)
(* have no names.                                                          *)
FreeSlot == CHOOSE g \in Load : slot[g] = Done

StartScenario ==
  /\ phase = "load" /\ ~deadline /\ busy < MaxBusy /\ \E g \in Load : slot[g] = Done
  /\ \E n \in DOMAIN LoadPlan : \E trip \in TripsOf(LoadPlan[n]) :
       slot' = [slot EXCEPT ![FreeSlot] = Start(LoadPlan[n], trip)]
  /\ busy' = busy + 1
  /\ UNCHANGED <<phase, deadline, errs, cache, booked, hurt, verdict>>

-----------------------------------------------------------------------------
(* The background tester fills a train two seats at a time and watches the *)
(* sign; its own errors do not stop it, except that of a sign.             *)

TesterIdle == [pc |-> "look", want |-> "plenty", remain |-> TesterSeats]

(* What it does next, by the seats it believes are left.                   *)
TesterTurn(s) ==
  IF (s.want = "few" /\ s.remain > TesterFew) \/ (s.want = "none" /\ s.remain > 0)
    THEN [s EXCEPT !.pc = "map"] ELSE [s EXCEPT !.pc = "look"]

TesterOver == [TesterIdle EXCEPT !.pc = "over"]
TesterOn(pc) == phase = "load" /\ slot[tester].pc = pc

TesterStarts ==
  /\ TesterOn("look") /\ slot[tester].want = "plenty" /\ busy < MaxBusy
  /\ slot' = [slot EXCEPT ![tester].pc = "looking"]
  /\ busy' = busy + 1
  /\ UNCHANGED <<phase, deadline, errs, cache, booked, hurt, verdict>>

AfterSign(s) == CASE s.want = "plenty" -> TesterTurn([s EXCEPT !.want = "few"])
                  [] s.want = "few" -> TesterTurn([s EXCEPT !.want = "none"])
                  [] s.want = "none" -> TesterOver

TesterLooks ==
  /\ \/ TesterOn("looking")
     \/ TesterOn("look") /\ slot[tester].want # "plenty"
  /\ IF Sign(TesterTrip) = slot[tester].want
       THEN slot' = [slot EXCEPT ![tester] = AfterSign(@)] /\ UNCHANGED errs
       ELSE /\ slot' = [slot EXCEPT ![tester] = TesterOver]
            /\ errs' = WithError(tester, "sign", 1)
  /\ UNCHANGED <<phase, deadline, cache, booked, busy, hurt, verdict>>

TesterMaps ==
  /\ TesterOn("map")
  /\ slot' = [slot EXCEPT ![tester] = [pc |-> "reserve", want |-> @.want, remain |-> @.remain,
                                       asked |-> FilterTrainSeats(TesterTrip)]]
  /\ UNCHANGED <<phase, deadline, errs, cache, booked, busy, hurt, verdict>>

(* Without assertions; an empty list of seats makes it a vague request.    *)
TesterReserves ==
  /\ TesterOn("reserve")
  /\ LET s == slot[tester]
         given == GivenSeats(TesterTrip, s.asked)
     IN  /\ booked' = IF given = {} THEN booked
                      ELSE Append(booked, [trip |-> TesterTrip, seats |-> given, status |-> "held"])
         /\ \E heard \in BOOLEAN :
              /\ hurt' = IF heard THEN hurt ELSE hurt \cup {"tester"}
              /\ cache' = IF heard /\ given # {}
                            THEN CacheAdd(cache, Len(booked'), RequestOf(TesterTrip, s.asked))
                            ELSE cache
              /\ slot' = [slot EXCEPT ![tester] =
                   TesterTurn([pc |-> "map", want |-> s.want,
                               remain |-> IF heard /\ given # {}
                                            THEN s.remain - Cardinality(s.asked) ELSE s.remain])]
  /\ UNCHANGED <<phase, deadline, errs, busy, verdict>>

(* A search whose answer is lost ends it; a map or a request that is lost  *)
(* is tried again.                                                         *)
TesterLosesAnswer ==
  /\ TesterOn("looking") \/ (TesterOn("look") /\ slot[tester].want # "plenty")
  /\ slot' = [slot EXCEPT ![tester] = TesterOver]
  /\ hurt' = hurt \cup {"tester"}
  /\ UNCHANGED <<phase, deadline, errs, cache, booked, busy, verdict>>

Tester == TesterStarts \/ TesterLooks \/ TesterMaps \/ TesterReserves \/ TesterLosesAnswer

-----------------------------------------------------------------------------
(* The main goroutine.                                                     *)

(* Before it starts them, and when the process exits with a verdict (those *)
(* a panic leaves behind never move again either: phase is "over").        *)
NoGoroutines == [g \in Goroutine |-> IF g = tester THEN TesterIdle ELSE Done]

BenchInit ==
  /\ phase = "off" /\ deadline = FALSE
  /\ errs = [pretest |-> FALSE, msgs |-> {}, application |-> 0, final |-> "none"]
  /\ cache = NoCache /\ booked = << >>
  /\ slot = NoGoroutines
  /\ busy = 0 /\ hurt = {} /\ verdict = "none"

Ends(v) == phase' = "over" /\ verdict' = v

(* A stage made of requests: a lost answer is an error like any other, and *)
(* ends the run.                                                           *)
Stage(from, to) ==
  /\ phase = from
  /\ \/ Ends("fail") /\ hurt' = hurt \cup {"main"}
     \/ phase' = to /\ UNCHANGED <<verdict, hurt>>
  /\ UNCHANGED <<deadline, errs, cache, booked, busy>>

InitializePayment == Stage("payment", "initialize") /\ UNCHANGED slot
InitializeApplication == Stage("initialize", "reads") /\ UNCHANGED slot

(* The four checks that read, and after them the four that want refusals.  *)
PretestReads == Stage("reads", "refusals") /\ UNCHANGED slot
PretestRefusals ==
  /\ Stage("refusals", "pretest")
  /\ slot' = IF phase' = "pretest"
               THEN [slot EXCEPT ![driver] = Start(<<PretestNormal>>, PretestTrip)] ELSE slot

(* The background tester signs up and logs in.                             *)
NewTester == Stage("account", "load") /\ UNCHANGED slot

PretestGoesOn ==
  /\ phase \in {"pretest", "pretest vague"} /\ slot[driver] = Done
  /\ CASE errs.pretest -> Ends("fail") /\ UNCHANGED slot
       [] ~errs.pretest /\ phase = "pretest" ->
            /\ phase' = "pretest vague"
            /\ slot' = [slot EXCEPT ![driver] = Start(<<PretestReserveVague>>, VagueTrip)]
            /\ UNCHANGED verdict
       [] ~errs.pretest /\ phase = "pretest vague" ->
            phase' = "account" /\ UNCHANGED <<slot, verdict>>
  /\ UNCHANGED <<deadline, errs, cache, booked, busy, hurt>>

TimeIsUp ==
  /\ phase = "load" /\ ~deadline
  /\ deadline' = TRUE
  /\ UNCHANGED <<phase, errs, cache, booked, slot, busy, hurt, verdict>>

(* benchmarker.run returns, DumpCounters closes the list of errors, and    *)
(* with it the question whether the load was a failure.                    *)
LoadEnds ==
  /\ phase = "load" /\ (deadline \/ IsFailure)
  /\ IF IsFailure THEN Ends("fail") /\ slot' = NoGoroutines
                   ELSE phase' = "final" /\ UNCHANGED <<verdict, slot>>
  /\ UNCHANGED <<deadline, errs, cache, booked, busy, hurt>>

FinalChecks ==
  /\ phase = "final"
  /\ \/ /\ errs' = [errs EXCEPT !.final = IF FinalCheckBlames(cache, Paid) THEN "blamed" ELSE "fine"]
        /\ Ends(IF FinalCheckBlames(cache, Paid) THEN "fail" ELSE "pass")
        /\ UNCHANGED hurt
     \/ errs' = [errs EXCEPT !.final = "lost"] /\ Ends("fail") /\ hurt' = hurt \cup {"main"}
  /\ slot' = NoGoroutines
  /\ UNCHANGED <<deadline, cache, booked, busy>>

Prepares == \/ InitializePayment \/ InitializeApplication
            \/ PretestReads \/ PretestRefusals \/ NewTester

Main == Prepares \/ PretestGoesOn \/ TimeIsUp \/ LoadEnds \/ FinalChecks

BenchNext ==
  \/ Main
  \/ Tester
  \/ \E g \in Goroutine : Passenger(g)
  \/ StartScenario

-----------------------------------------------------------------------------
(* Properties.                                                             *)

Seats == UNION {UNION {CarsOf[t][c] : c \in DOMAIN CarsOf[t]} : t \in DOMAIN CarsOf}

Booking == [trip : Served, seats : SUBSET Seats, status : {"held", "paid", "gone"}]

(* Types.  The cache knows no reservation the application did not make,    *)
(* none is committed and canceled at once, and the process ends with a     *)
(* verdict (ReservationCache, bench.go).                                   *)
BenchTypeOK ==
  /\ phase \in {"off", "payment", "initialize", "reads", "refusals", "pretest",
                "pretest vague", "account", "load", "final", "over"}
  /\ deadline \in BOOLEAN /\ hurt \subseteq {"tester", "main"}
  /\ busy \in 0 .. MaxBusy
  /\ \A i \in DOMAIN booked : booked[i] \in Booking
  /\ DOMAIN cache.added \subseteq DOMAIN booked
  /\ cache.committed \cup cache.canceled \subseteq DOMAIN cache.added
  /\ cache.committed \cap cache.canceled = {}
  /\ verdict \in {"none", "pass", "fail", "crash"}
  /\ verdict # "none" <=> phase = "over"

(* A passenger's booking in the background tester's way.                   *)
TesterRival(i) ==
  /\ booked[i].trip \in Trip /\ SameRun(booked[i].trip, TesterTrip)
  /\ Overlap(booked[i].trip.from, booked[i].trip.to, TesterTrip.from, TesterTrip.to)

(* The critical errors an application that keeps its promises is           *)
(* disqualified for, and why.  A seat is said to be sold twice when an     *)
(* earlier holder canceled: CanReserve never forgets a reservation         *)
(* (reservation_cache.go:179).                                             *)
TakenSeatHadBeenCanceled ==
  "taken seat sold" \in errs.msgs =>
    \E i, j \in DOMAIN booked :
       /\ i # j /\ i \in DOMAIN cache.added /\ booked[i].status = "gone"
       /\ cache.added[i].seats \cap booked[j].seats # {}
       /\ SameRun(booked[i].trip, booked[j].trip) /\ booked[i].trip.time = booked[j].trip.time
       /\ Overlap(booked[i].trip.from, booked[i].trip.to, booked[j].trip.from, booked[j].trip.to)

(* A reservation has too few seats when the map showed only one free       *)
(* (assert.go:132).                                                        *)
TooFewWereAskedFor ==
  "too few seats" \in errs.msgs => \E i \in DOMAIN booked : Cardinality(booked[i].seats) < People

(* Two racers win when a full car made them ask vaguely (attack.go:255).   *)
RacersAskedVaguely ==
  "sold twice" \in errs.msgs =>
    \E i, j \in DOMAIN cache.added : i # j /\ cache.added[i] = cache.added[j] /\ cache.added[i].seats = {}

(* A reservation that is said not to be shown (assert.go:123), or whose    *)
(* card could not be registered (payment/client.go:87), is one the         *)
(* application holds, unpaid for good.                                     *)
UnshownIsHeld ==
  errs.msgs \cap {"not shown", "card"} # {} =>
    \E i \in DOMAIN cache.added \ cache.committed : booked[i].status = "held"

(* A reservation that is said to be shown still (assert.go:197) is one the *)
(* application canceled and the cache goes on to count as paid.            *)
StillShownIsGone ==
  "still shown" \in errs.msgs =>
    \E i \in cache.committed \ cache.canceled : booked[i].status = "gone"

(* A sign is wrong when the tester lost an answer or shared its train      *)
(* (bgtester.go:124).                                                      *)
TesterWasNotAlone == "sign" \in errs.msgs => "tester" \in hurt \/ \E i \in DOMAIN booked : TesterRival(i)

(* The process ends in a panic when the pretest's train has fewer than two *)
(* free seats (abnormal.go:148).                                           *)
PretestTrainWasFull ==
  verdict = "crash" =>
    Cardinality(CarsOf[PretestTrip.train][1] \
      UNION {booked[i].seats : i \in {k \in DOMAIN booked : SameRun(booked[k].trip, PretestTrip)}}) < 2

(* Each critical error that disqualifies an application that keeps its     *)
(* promises, and the panic that breaks off its run, comes with the         *)
(* situation named for it (assert.go, attack.go:281, bgtester.go:124,      *)
(* payment/client.go, abnormal.go:148).  Nothing is said of errors of the  *)
(* application, refusals of full trains and lost answers among them, which *)
(* disqualify it too when there are AppLimit of them.                      *)
CriticalErrorsAreExplained ==
  /\ TakenSeatHadBeenCanceled /\ TooFewWereAskedFor /\ RacersAskedVaguely
  /\ UnshownIsHeld /\ StillShownIsGone /\ TesterWasNotAlone /\ PretestTrainWasFull

(* The final check blames such an application only for a reservation whose *)
(* cancel was served but never reached the cache (client.go:693), and a    *)
(* run that passes leaves cache and payment service in agreement           *)
(* (core_finalcheck.go).                                                   *)
VerdictsMatchTheBooks ==
  /\ errs.final = "blamed" => \E i \in cache.committed \ cache.canceled : booked[i].status = "gone"
  /\ verdict = "pass" => /\ \A i \in cache.committed : booked[i].status = "paid"
                         /\ \A i \in cache.canceled : booked[i].status = "gone"

=============================================================================
