----------------------------- MODULE TrainSearch ----------------------------
(***************************************************************************)
(* The two read-only handlers a passenger asks before reserving: the train *)
(* search with its seat availability, and the seat map of one car.  Both   *)
(* read the reservation tables with separate autocommit statements while   *)
(* reservations come and go; what comes and goes is the SeatLedger.        *)
(* A place is a car, row and column; trains of every class and day share   *)
(* the names of their places.                                              *)
(***************************************************************************)
EXTENDS SeatLedger, Railway, FiniteSets

CONSTANTS Departure,      \* function: train -> station -> time of departure
          PlacesOf,       \* function: train class -> kind of seat -> places
          CarPlaces,      \* function: train class -> car -> places, numbered
          Reader,         \* requests being served
          Searches,       \* set of [day, at, class, from, to] to search for
          Maps,           \* set of [train, car, from, to] to show
          AvailableDays,  \* availableDays
          MaxResults,     \* trains in an answer (10)
          FewSeats,       \* below this many seats the sign is a triangle (10)
          MaxReservations,\* bound on the numbers given out
          AnyClass,       \* no class asked for
          NoTrain         \* no train is being looked at

(* The kinds of seats, in the order they are counted.                      *)
Kinds == <<"premium", "premium_smoke", "reserved", "reserved_smoke">>

ASSUME SearchAssumption ==
  /\ \A t \in DOMAIN TrainOf : /\ TrainOf[t].up \in BOOLEAN /\ TrainOf[t].class \in TrainClass
                              /\ TrainOf[t].start \in Int /\ TrainOf[t].last \in Int
  /\ \A j \in Journey : j.from \in Int /\ j.to \in Int
  /\ \A ask \in Searches : ask.from \in Int /\ ask.to \in Int
  /\ \A ask \in Maps : /\ ask.train \in DOMAIN TrainOf /\ ask.from \in Int /\ ask.to \in Int
                       /\ CarPlaces[TrainOf[ask.train].class][ask.car] \subseteq Int
  /\ \A t \in DOMAIN TrainOf, n \in DOMAIN Kinds : IsFiniteSet(PlacesOf[TrainOf[t].class][Kinds[n]])
  /\ FewSeats \in Nat
  /\ MaxResults \in Nat \ {0} /\ NoTrain \notin DOMAIN TrainOf

VARIABLE desk             \* function: Reader -> the request and its progress

searchVars == <<ledger, issued, pending, desk>>

Idle == [pc |-> "idle"]

Answered == {"idle", "answered", "refused", "panicked", "map shown"}

-----------------------------------------------------------------------------
(* Finding trains.                                                         *)

Bookable(day) == day < AvailableDays

UsableClass(from, to) == {c \in TrainClass : from \in Stops(c) /\ to \in Stops(c)}

(* train_master rows of the day, in the direction the stations suggest: a  *)
(* search from a station to itself looks at the down trains.               *)
Candidates(ask) ==
  {t \in DOMAIN TrainOf : /\ TrainOf[t].day = ask.day
                          /\ TrainOf[t].class \in UsableClass(ask.from, ask.to)
                          /\ ask.class \in {AnyClass, TrainOf[t].class}
                          /\ TrainOf[t].up = (ask.from > ask.to)}

(* The walk that starts looking one station late.                          *)
OnRouteAfterFirst(t, ask) ==
  LET train == TrainOf[t]
  IN  IF train.up THEN train.start > ask.from /\ ask.from >= ask.to /\ ask.to >= train.last
                  ELSE train.start < ask.from /\ ask.from <= ask.to /\ ask.to <= train.last

(* The walk that does not stop at the train's last station.                *)
OnRoutePastLast(t, ask) ==
  LET train == TrainOf[t]
  IN  IF train.up THEN train.start >= ask.from /\ ask.from >= ask.to
                  ELSE train.start <= ask.from /\ ask.from <= ask.to

(* The walk along the stations from the train's first one: it must meet    *)
(* the origin, then the destination, before it has passed the last one.    *)
OnRoute(t, ask) ==
  LET train == TrainOf[t]
  IN  IF train.up THEN train.start >= ask.from /\ ask.from >= ask.to /\ ask.to >= train.last
                  ELSE train.start <= ask.from /\ ask.from <= ask.to /\ ask.to <= train.last

LeavesLater(t, ask) == ask.at < Departure[t][ask.from]

-----------------------------------------------------------------------------
(* Counting seats.                                                         *)

TakenAtOriginOnly(up, from, to, dep, arr) ==
  IF up THEN arr < from /\ from <= dep ELSE dep <= from /\ from < arr

(* The overlap condition of getAvailableSeats, for a booking from dep to   *)
(* arr, translated clause by clause.                                       *)
TakenForSearch(up, from, to, dep, arr) ==
  IF up
    THEN \/ arr < from /\ from <= dep
         \/ arr < to /\ to <= dep
         \/ from < arr /\ dep < to
    ELSE \/ dep <= from /\ from < arr
         \/ dep <= to /\ to < arr
         \/ arr < from /\ to < dep

(* The places left of one kind.  The statement does not ask which train a  *)
(* reservation is for: bookings of every train and day take their places.  *)
AvailableSeats(t, from, to, kind) ==
  PlacesOf[TrainOf[t].class][kind] \
    UNION {ledger[i].taken : i \in {k \in DOMAIN ledger :
             TakenForSearch(TrainOf[t].up, from, to, ledger[k].from, ledger[k].to)}}

Sign(n) == IF n = 0 THEN "none" ELSE IF n < FewSeats THEN "few" ELSE "plenty"

-----------------------------------------------------------------------------
(* trainSearchHandler.                                                     *)

SearchBegins(r) ==
  /\ desk[r].pc \in Answered
  /\ \E ask \in Searches :
       desk' = [desk EXCEPT ![r] =
         IF Bookable(ask.day)
           THEN [pc |-> "searching", ask |-> ask, left |-> Candidates(ask),
                 train |-> NoTrain, signs |-> << >>, answer |-> << >>]
           ELSE [pc |-> "refused"]]
  /\ UNCHANGED ledgerVars

(* The next train of the list (in no particular order): left out, or its   *)
(* seats will be counted.                                                  *)
NextTrain(r) ==
  /\ desk[r].pc = "searching" /\ desk[r].train = NoTrain
  /\ \E t \in desk[r].left :
       LET shown == OnRoute(t, desk[r].ask) /\ LeavesLater(t, desk[r].ask)
       IN  desk' = [desk EXCEPT ![r].left = @ \ {t},
                                ![r].train = IF shown THEN t ELSE NoTrain]
  /\ UNCHANGED ledgerVars

(* The next kind of seat is counted: one statement over the tables.        *)
CountSeats(r) ==
  /\ desk[r].pc = "searching" /\ desk[r].train # NoTrain
  /\ Len(desk[r].signs) < Len(Kinds)
  /\ LET ask == desk[r].ask
         free == AvailableSeats(desk[r].train, ask.from, ask.to, Kinds[Len(desk[r].signs) + 1])
     IN  desk' = [desk EXCEPT ![r].signs = Append(@, Sign(Cardinality(free)))]
  /\ UNCHANGED ledgerVars

(* The train joins the answer before its seats are counted.                *)
AddTrainUncounted(r) ==
  /\ desk[r].pc = "searching" /\ desk[r].train # NoTrain
  /\ desk' = [desk EXCEPT ![r].answer = Append(@, [train |-> desk[r].train, signs |-> desk[r].signs]),
                          ![r].train = NoTrain, ![r].signs = << >>]
  /\ UNCHANGED ledgerVars

(* The train joins the answer, which ends at MaxResults trains.            *)
AddTrain(r) ==
  /\ desk[r].pc = "searching" /\ Len(desk[r].signs) = Len(Kinds)
  /\ LET answer == Append(desk[r].answer, [train |-> desk[r].train, signs |-> desk[r].signs])
     IN  desk' = [desk EXCEPT ![r].answer = answer, ![r].train = NoTrain, ![r].signs = << >>,
                              ![r].left = IF Len(answer) >= MaxResults THEN {} ELSE @]
  /\ UNCHANGED ledgerVars

SearchAnswers(r) ==
  /\ desk[r].pc = "searching" /\ desk[r].train = NoTrain /\ desk[r].left = {}
  /\ desk' = [desk EXCEPT ![r] = [pc |-> "answered", ask |-> @.ask, answer |-> @.answer]]
  /\ UNCHANGED ledgerVars

-----------------------------------------------------------------------------
(* trainSeatsHandler.                                                      *)

MapBegins(r) ==
  /\ desk[r].pc \in Answered
  /\ \E ask \in Maps :
       LET train == TrainOf[ask.train]
       IN  desk' = [desk EXCEPT ![r] =
             IF Bookable(train.day) /\ train.class \in UsableClass(ask.from, ask.to)
               THEN [pc |-> "map", ask |-> ask, left |-> CarPlaces[train.class][ask.car],
                     place |-> 0, rows |-> {}, shown |-> {}, held |-> {}]
               ELSE [pc |-> "refused"]]
  /\ UNCHANGED ledgerVars

(* Reservations whose rows the statement for one place finds: it joins     *)
(* seat_reservations with the reservations of the train and never compares *)
(* their numbers, so that any reservation of the train brings in the rows  *)
(* of that place of every train.                                           *)
RowsOfPlace(t, place) ==
  IF \E i \in DOMAIN ledger : ledger[i].train = t
    THEN {i \in DOMAIN ledger : place \in ledger[i].taken}
    ELSE {}

(* History: is the place in use for the asked section when it is read?     *)
Held(ask, place) ==
  \E i \in DOMAIN ledger : /\ ledger[i].train = ask.train /\ place \in ledger[i].taken
                           /\ Forward(TrainOf[ask.train].up, ledger[i].from, ledger[i].to)
                           /\ Overlap(ask.from, ask.to, ledger[i].from, ledger[i].to)

(* The next place of the car: its rows are read.                           *)
ReadPlace(r) ==
  /\ desk[r].pc = "map" /\ desk[r].rows = {} /\ desk[r].left # {}
  /\ \E place \in desk[r].left :
       /\ \A q \in desk[r].left : place <= q
       /\ desk' = [desk EXCEPT ![r].left = @ \ {place}, ![r].place = place,
                                ![r].rows = RowsOfPlace(desk[r].ask.train, place),
                                ![r].held = IF Held(desk[r].ask, place) THEN @ \cup {place} ELSE @]
  /\ UNCHANGED ledgerVars

OccupiesSeatSwapped(t, from, to, dep, arr) ==
  SectionDupSwapped(TrainOf[t].up, from, to, dep, arr)

(* Does a reservation from dep to arr occupy the seat on the asked section?*)
OccupiesSeat(t, from, to, dep, arr) == SectionDup(TrainOf[t].up, from, to, dep, arr)

(* One of the rows: its reservation is read by its number.  A reservation  *)
(* released since the rows were read makes the handler panic.              *)
ReadRow(r) ==
  /\ desk[r].pc = "map"
  /\ \E i \in desk[r].rows :
       \/ i \notin DOMAIN ledger /\ desk' = [desk EXCEPT ![r] = [pc |-> "panicked"]]
       \/ /\ i \in DOMAIN ledger
          /\ desk' = [desk EXCEPT ![r].rows = @ \ {i},
                                  ![r].shown =
               IF OccupiesSeat(desk[r].ask.train, desk[r].ask.from, desk[r].ask.to,
                               ledger[i].from, ledger[i].to)
                 THEN @ \cup {desk[r].place} ELSE @]
  /\ UNCHANGED ledgerVars

MapAnswers(r) ==
  /\ desk[r].pc = "map" /\ desk[r].rows = {} /\ desk[r].left = {}
  /\ desk' = [desk EXCEPT ![r].pc = "map shown"]
  /\ UNCHANGED ledgerVars

-----------------------------------------------------------------------------
(* Reservations come and go meanwhile.                                     *)

Reserves == /\ \/ issued < MaxReservations /\ Issue
               \/ \E i \in pending, j \in Journey : Book(i, j)
            /\ UNCHANGED desk

Releases == (\E i \in DOMAIN ledger : Release(i)) /\ UNCHANGED desk

SearchInit == LedgerInit /\ desk = [r \in Reader |-> Idle]

SearchNext ==
  \/ Reserves
  \/ Releases
  \/ \E r \in Reader : \/ SearchBegins(r) \/ NextTrain(r) \/ CountSeats(r)
                       \/ AddTrain(r) \/ SearchAnswers(r)
                       \/ MapBegins(r) \/ ReadPlace(r) \/ ReadRow(r) \/ MapAnswers(r)

SearchSpec == SearchInit /\ [][SearchNext]_searchVars

-----------------------------------------------------------------------------
(* Properties.                                                             *)

(* A request is in one of its handler's stages; an answer names trains of  *)
(* the timetable, each with a sign for every kind of seat; a seat map      *)
(* speaks of the places of the car asked for.                              *)
SearchTypeOK ==
  /\ DOMAIN desk = Reader
  /\ \A r \in Reader :
       \/ desk[r].pc \in {"idle", "refused", "panicked"}
       \/ /\ desk[r].pc \in {"searching", "answered"} /\ desk[r].ask \in Searches
          /\ \A n \in DOMAIN desk[r].answer :
               /\ desk[r].answer[n].train \in DOMAIN TrainOf
               /\ desk[r].answer[n].signs \in [1 .. Len(Kinds) -> {"none", "few", "plenty"}]
       \/ /\ desk[r].pc \in {"map", "map shown"} /\ desk[r].ask \in Maps
          /\ desk[r].shown \cup desk[r].held \cup desk[r].left
               \subseteq CarPlaces[TrainOf[desk[r].ask.train].class][desk[r].ask.car]

Found(r) == {desk[r].answer[n].train : n \in DOMAIN desk[r].answer}

(* Whatever is read in which order, a train in an answer can be reserved:  *)
(* the reservation handler accepts the section on it, its class stops at   *)
(* both ends, and it has not left.  (From a station to itself the search   *)
(* finds trains that end there, which the reservation handler refuses.)    *)
FoundTrainsAreAccepted ==
  \A r \in Reader : desk[r].pc \in {"searching", "answered"} =>
    /\ Len(desk[r].answer) <= MaxResults
    /\ \A t \in Found(r) :
         /\ desk[r].ask.from # desk[r].ask.to
              => /\ AcceptsSection(TrainOf[t], desk[r].ask.from, desk[r].ask.to)
                 /\ Forward(TrainOf[t].up, desk[r].ask.from, desk[r].ask.to)
         /\ {desk[r].ask.from, desk[r].ask.to} \subseteq Stops(TrainOf[t].class)
         /\ LeavesLater(t, desk[r].ask)

(* A train that could be reserved for the section asked is left out of an  *)
(* answer only when the answer is full.                                    *)
NoTrainIsForgotten ==
  \A r \in Reader : desk[r].pc = "answered" /\ Len(desk[r].answer) < MaxResults =>
    \A t \in DOMAIN TrainOf :
      /\ TrainOf[t].day = desk[r].ask.day /\ LeavesLater(t, desk[r].ask)
      /\ desk[r].ask.class \in {AnyClass, TrainOf[t].class}
      /\ {desk[r].ask.from, desk[r].ask.to} \subseteq Stops(TrainOf[t].class)
      /\ AcceptsSection(TrainOf[t], desk[r].ask.from, desk[r].ask.to)
      /\ Forward(TrainOf[t].up, desk[r].ask.from, desk[r].ask.to)
      => t \in Found(r)

(* Bookings the search cannot see: they lie strictly inside the journey    *)
(* asked for, so that they hold neither of its ends.                       *)
StrictlyInside(up, from, to, dep, arr) ==
  IF up THEN dep < from /\ to <= arr ELSE from < dep /\ arr <= to

InTheWay(ask, i) == Overlap(ask.from, ask.to, ledger[i].from, ledger[i].to)

(* How far the signs of a search can be trusted (getAvailableSeats against *)
(* the section check of the reservation handler).  "none": a booking of    *)
(* some train overlaps the section, or begins where it ends, at every      *)
(* place.  Otherwise: the places some booking of this train holds for the  *)
(* section are counted as free only when all of those bookings are         *)
(* strictly inside it.                                                     *)
SignTellsSeats(r) ==
  LET ask == desk[r].ask
      t == desk[r].train
      places == PlacesOf[TrainOf[t].class][Kinds[Len(desk'[r].signs)]]
      sign == desk'[r].signs[Len(desk'[r].signs)]
      unseen == {p \in places :
                  \A i \in DOMAIN ledger :
                    ledger[i].train = t /\ p \in ledger[i].taken /\ InTheWay(ask, i) =>
                    StrictlyInside(TrainOf[t].up, ask.from, ask.to, ledger[i].from, ledger[i].to)}
  IN  /\ sign = "none" => \A p \in places : \E i \in DOMAIN ledger :
           p \in ledger[i].taken /\ (InTheWay(ask, i) \/ ledger[i].from = ask.to)
      /\ sign # "none" => unseen # {}
      /\ sign = "plenty" => Cardinality(unseen) >= FewSeats

SignsTellSeats ==
  [][\A r \in Reader : CountSeats(r) /\ desk[r].ask.from # desk[r].ask.to => SignTellsSeats(r)]_searchVars

(* A finished seat map of a journey in the train's direction marks every   *)
(* place that was held for the section when it was read: what it shows as  *)
(* free the reservation handler would have given away at that moment.      *)
MapTellsHolding ==
  \A r \in Reader : desk[r].pc = "map shown" =>
    LET ask == desk[r].ask
    IN  Forward(TrainOf[ask.train].up, ask.from, ask.to) => desk[r].held \subseteq desk[r].shown

=============================================================================
