------------------------------ MODULE SearchMC ------------------------------
(* Three fast trains and a slow one down the line, a middle train up it.     *)
EXTENDS TrainSearch, Fare

CONSTANTS expressTrain, morrowTrain, lateTrain, localTrain, upTrain

MCTrainOf ==
  [t \in {expressTrain, morrowTrain, lateTrain, localTrain, upTrain} |->
     CASE t = expressTrain -> [up |-> FALSE, start |-> 1, last |-> 42, class |-> "fast", day |-> 0]
       [] t = lateTrain    -> [up |-> FALSE, start |-> 6, last |-> 27, class |-> "fast", day |-> 0]
       [] t = morrowTrain  -> [up |-> FALSE, start |-> 1, last |-> 42, class |-> "fast", day |-> 1]
       [] t = localTrain   -> [up |-> FALSE, start |-> 6, last |-> 42, class |-> "slow", day |-> 0]
       [] t = upTrain      -> [up |-> TRUE, start |-> 42, last |-> 6, class |-> "middle", day |-> 0]]

(* Every train leaves every station at 10, the local train at 5.           *)
MCDeparture == [t \in DOMAIN MCTrainOf |-> [s \in LineStation |->
                 IF t = localTrain THEN 5 ELSE 10]]

MCPlacesOf ==
  [c \in TrainClass |-> [premium |-> {1, 2}, premium_smoke |-> {},
                         reserved |-> IF c = "slow" THEN {} ELSE {3}, reserved_smoke |-> {}]]

MCCarPlaces == [c \in TrainClass |-> [car \in {8} |-> {1, 2}]]

Trip(t, from, to, taken) == [train |-> t, from |-> from, to |-> to, taken |-> taken]

MCJourney ==
  {Trip(expressTrain, 1, 42, {1}), Trip(expressTrain, 6, 27, {1, 3}), Trip(expressTrain, 6, 42, {2}),
   Trip(morrowTrain, 1, 27, {1, 2}), Trip(localTrain, 6, 10, {2}), Trip(upTrain, 42, 6, {1}),
   Trip(upTrain, 27, 6, {2, 3}), Trip(expressTrain, 42, 6, {2})}

Ask(day, at, class, from, to) ==
  [day |-> day, at |-> at, class |-> class, from |-> from, to |-> to]

MCSearches ==
  {Ask(0, 0, AnyClass, 1, 42), Ask(0, 0, AnyClass, 6, 27), Ask(0, 7, AnyClass, 6, 42),
   Ask(0, 0, "fast", 1, 27), Ask(0, 0, AnyClass, 1, 6), Ask(0, 0, AnyClass, 42, 6), Ask(0, 0, AnyClass, 27, 1),
   Ask(0, 0, AnyClass, 6, 2), Ask(0, 0, AnyClass, 42, 42), Ask(5, 0, AnyClass, 1, 6)}

MCMaps == [train : {expressTrain, upTrain}, car : {8}, from : {6, 42}, to : {27}]
            \cup [train : {expressTrain}, car : {8}, from : {1, 6}, to : {42, 10}]

(* Every pair of stations; every class, season and party between a few.    *)
Quote(day, from, to, class, seatClass, adult, child) ==
  [day |-> day, from |-> from, to |-> to, class |-> class, seatClass |-> seatClass,
   adult |-> adult, child |-> child]

SeasonDays == UNION {{d - 1, d, d + 1} : d \in {SeasonStart[i] : i \in DOMAIN SeasonStart}} \ {-1}

MCPriceQuestions ==
  {Quote(80, a, b, "fast", "reserved", 1, 1) : a \in LineStation, b \in LineStation}
  \cup {Quote(d, 1, b, c, sc, 2, n) : d \in SeasonDays, b \in {6, 42, 82}, c \in TrainClass,
                                      sc \in SeatClass, n \in {1, 3}}

MCInit == SearchInit /\ FareInit

(* A price is asked before anything else happens: it depends on nothing    *)
(* that changes.                                                           *)
MCNext == \/ quote = NoQuote /\ SearchNext /\ UNCHANGED quote
          \/ /\ quote = NoQuote => searchVars = <<ledger, 0, {}, [r \in Reader |-> Idle]>>
             /\ FareNext /\ UNCHANGED searchVars

MCSpec == MCInit /\ [][MCNext]_<<searchVars, quote>>
=============================================================================
