----------------------------- MODULE BenchCache -----------------------------
(***************************************************************************)
(* The benchmark's memory of the reservations it made (reservationCache)   *)
(* and what it concludes from it: whether a reservation that succeeded     *)
(* should have been refused, and whether the payment service agrees in the *)
(* end.  A request is a record [train, day, time, from, to, seats]; a      *)
(* reservation without seats of its own was a vague one, whose seats the   *)
(* application chose and the cache never learns.                           *)
(***************************************************************************)
EXTENDS Sections

NoCache == [added |-> << >>, committed |-> {}, canceled |-> {}]

IsKudari(from, to) == to > from

(* Is the journey from bFrom to bTo in the way of the one from aFrom to    *)
(* aTo?  Written for journeys away from Tokyo.                             *)
KudariOverwrap(aFrom, aTo, bFrom, bTo) ==
  /\ ~(bFrom < aFrom /\ bTo <= aFrom)
  /\ ~(bFrom >= aTo /\ bTo > aTo)

(* canReserveWithOverwrap, negated: an up journey is turned round first.   *)
Overwraps(held, req) ==
  /\ IsKudari(req.from, req.to) = IsKudari(held.from, held.to)
  /\ IF IsKudari(req.from, req.to)
       THEN KudariOverwrap(held.from, held.to, req.from, req.to)
       ELSE KudariOverwrap(held.to, held.from, req.to, req.from)

(* The seats left out of the comparison.                                   *)
CanReserveAnySeat(cache, req) ==
  \A i \in DOMAIN cache.added :
    LET held == cache.added[i]
    IN  \/ <<held.day, held.time>> # <<req.day, req.time>>
        \/ held.train # req.train
        \/ ~Overwraps(held, req)

(* CanReserve compares with every reservation ever added, those canceled   *)
(* since included; dates are compared with their time of day.              *)
CanReserve(cache, req) ==
  \A i \in DOMAIN cache.added :
    LET held == cache.added[i]
    IN  \/ <<held.day, held.time>> # <<req.day, req.time>>
        \/ held.train # req.train
        \/ ~Overwraps(held, req)
        \/ held.seats \cap req.seats = {}

CacheAdd(cache, id, req) ==
  [cache EXCEPT !.added = [i \in DOMAIN @ \cup {id} |-> IF i = id THEN req ELSE @[i]]]

CacheCommit(cache, id) ==
  IF id \in DOMAIN cache.added THEN [cache EXCEPT !.committed = @ \cup {id}] ELSE cache

(* A cancel that leaves the reservation committed.                         *)
CacheCancelKept(cache, id) ==
  IF id \in DOMAIN cache.added THEN [cache EXCEPT !.canceled = @ \cup {id}] ELSE cache

(* A canceled reservation is no longer a committed one.                    *)
CacheCancel(cache, id) ==
  IF id \in DOMAIN cache.added
    THEN [cache EXCEPT !.canceled = @ \cup {id}, !.committed = @ \ {id}]
    ELSE cache

(* finalcheckPayment: paid maps every reservation the payment service has  *)
(* a payment for to whether it still stands.                               *)
FinalCheckBlames(cache, paid) ==
  \/ cache.committed # {} /\ DOMAIN paid = {}
  \/ \E i \in cache.committed : i \notin DOMAIN paid \/ ~paid[i]
  \/ \E i \in cache.canceled : i \in DOMAIN paid /\ paid[i]

=============================================================================
