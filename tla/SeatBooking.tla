---------------------------- MODULE SeatBooking -----------------------------
(***************************************************************************)
(* The reservation and cancellation handlers of the web application (Go    *)
(* implementation) running concurrently over InnoDB at its default         *)
(* isolation level.  A member of Proc is one HTTP request slot: a          *)
(* goroutine with, while it is inside a handler, one open transaction tx.  *)
(*                                                                         *)
(* The variable reservations holds the committed rows of the tables        *)
(* reservations and seat_reservations, joined by reservation_id (the two   *)
(* tables only ever change together, in tx.Commit).  What a transaction    *)
(* has inserted or deleted without committing follows from its pc and      *)
(* rid; no other transaction can see it, since it is locked.               *)
(*                                                                         *)
(* Neither table has a secondary index, so SELECT ... FOR UPDATE and       *)
(* DELETE by an unindexed column lock every row and the gap after the last *)
(* one.  Gap locks are compatible with each other and only hold back       *)
(* INSERTs.  A statement completes when no other transaction holds a lock  *)
(* that conflicts with it: Blockers(p) = {}.                               *)
(***************************************************************************)
EXTENDS Sections, VagueSeats

CONSTANTS
  Proc,         \* request slots
  TrainOf,      \* function: train -> [up, start, last]
  Station,      \* station ids
  Seat,         \* seats of the requested class, numbers in reading order
  NumCars,      \* cars searched by the vague search (16 in the source)
  CarSeats,     \* function: car -> its seats of the requested class
  Request,      \* reservation requests clients may send
  NoRequest,    \* req of a slot that is not reserving
  MaxId         \* bound: reservation ids handed out in one behaviour

Train == DOMAIN TrainOf
Dummy == 0                      \* the place of an unreserved ticket (car 0, row 0)
Place == Seat \cup {Dummy}
NoTickets == [x \in Place |-> 0]

(* seats: how many seat_reservations rows the request names per seat.      *)
RequestType == [train : Train, from : Station, to : Station,
                mode : {"seats", "vague", "free"}, column : STRING,
                n : Nat, seats : [Place -> Nat]]

ASSUME BookingAssumption ==
  /\ TrainOf \in [Train -> [up : BOOLEAN, start : Station, last : Station]]
  /\ Station \subseteq Int
  /\ Seat \subseteq Nat \ {Dummy}
  /\ NumCars \in Nat \ {0}
  /\ CarSeats \in [1 .. NumCars -> SUBSET Seat]
  /\ \A c \in 1 .. NumCars : IsFiniteSet(CarSeats[c])
  /\ Request \subseteq RequestType
  /\ \A r \in Request : r.seats[Dummy] = 0
  /\ NoRequest \notin Request
  /\ MaxId \in Nat

VARIABLES
  reservations, \* function: reservation_id -> row, committed
  nextId,       \* AUTO_INCREMENT of reservations
  pc,           \* where each slot is in its handler
  req,          \* the request being reserved
  seats,        \* req.Seats as the handler has filled it in: rows per place
  rid,          \* id inserted by a reserve, or asked for by a cancel
  scan,         \* progress of the vague search
  rowLock,      \* X record locks on reservations, by slot
  gapLock,      \* slots with a lock on the gap after the last reservation
  seatLock,     \* X record locks on seat_reservations, by slot and id
  seatGap,      \* slots with a lock on the gap after the last seat row
  acked,        \* ids answered 200 by the reservation handler
  canceled      \* ids answered "cancell complete"

locks == <<rowLock, gapLock, seatLock, seatGap>>
answers == <<acked, canceled>>
local == <<req, seats, rid, scan>>
vars == <<reservations, nextId, pc, local, locks, answers>>

ReserveTx == {"vague", "fetch", "scan", "check", "insert", "seats", "commit"}
CancelTx == {"cancelRow", "cancelSeats", "cancelCommit"}
InTx == ReserveTx \cup CancelTx
Inserted == {"seats", "commit"}         \* tx holds an uncommitted row rid

NoScan == [car |-> 0, todo |-> {}, cur |-> 0, fetch |-> {}, occupied |-> {}]
StartCar(c) == [car |-> c, todo |-> CarSeats[c], cur |-> 0, fetch |-> {}, occupied |-> {}]

Taken(tickets) == {s \in Seat : tickets[s] > 0}
One(S) == [x \in Place |-> IF x \in S THEN 1 ELSE 0]
Lowest(S) == CHOOSE x \in S : \A y \in S : x <= y

Row(p) == [train |-> req[p].train, from |-> req[p].from, to |-> req[p].to,
           n |-> req[p].n, seats |-> seats[p]]

-----------------------------------------------------------------------------
(* The reservations of p's train whose section the handler takes to        *)
(* overlap the requested one.                                              *)
SameTrain(p) == {i \in DOMAIN reservations : reservations[i].train = req[p].train}
SameSectionDups(p) ==
  {i \in SameTrain(p) : reservations[i].from = req[p].from /\ reservations[i].to = req[p].to}
Dups(p) ==
  {i \in SameTrain(p) : SectionDup(TrainOf[req[p].train].up, req[p].from, req[p].to,
                                   reservations[i].from, reservations[i].to)}

HoldRow(p) == {q \in Proc \ {p} : rowLock[q] # {}}
HoldSeat(p) == {q \in Proc \ {p} : seatLock[q] # {}}

(* The transactions the next statement of p has to wait for.               *)
Blockers(p) ==
  CASE pc[p] = "vague" -> HoldRow(p) \cup (IF SameTrain(p) = {} THEN {} ELSE HoldSeat(p))
    [] pc[p] = "fetch" -> {q \in Proc \ {p} : Lowest(scan[p].fetch) \in rowLock[q]}
    [] pc[p] = "scan"  -> HoldRow(p)
    [] pc[p] = "check" -> IF req[p].mode = "free" \/ Dups(p) = {} THEN {} ELSE HoldSeat(p)
    [] pc[p] = "insert" -> gapLock \ {p}
    [] pc[p] = "seats" -> IF seats[p] = NoTickets THEN {} ELSE seatGap \ {p}
    [] pc[p] = "cancelRow" -> {q \in Proc \ {p} : rid[p] \in rowLock[q]}
    [] pc[p] = "cancelSeats" -> HoldSeat(p)
    [] OTHER -> {}

Runs(p, at) == pc[p] = at /\ Blockers(p) = {}
Goto(p, at) == pc' = [pc EXCEPT ![p] = at]

(* COMMIT or ROLLBACK gives up all locks; the handler returns.             *)
EndTx(p) ==
  /\ Goto(p, "idle")
  /\ req' = [req EXCEPT ![p] = NoRequest]
  /\ seats' = [seats EXCEPT ![p] = NoTickets]
  /\ rid' = [rid EXCEPT ![p] = 0]
  /\ scan' = [scan EXCEPT ![p] = NoScan]
  /\ rowLock' = [rowLock EXCEPT ![p] = {}]
  /\ gapLock' = gapLock \ {p}
  /\ seatLock' = [seatLock EXCEPT ![p] = {}]
  /\ seatGap' = seatGap \ {p}

ReturnOpen(p) == Goto(p, "leaked") /\ UNCHANGED <<reservations, nextId, local, locks, answers>>
Rollback(p) == EndTx(p) /\ UNCHANGED <<reservations, nextId, answers>>

-----------------------------------------------------------------------------
(* The reservation handler.                                                *)

(* Request parsed, BEGIN, and the checks on the read-only master tables    *)
(* passed.  (A request they refuse changes nothing.)                       *)
Begin(p, r) ==
  /\ pc[p] = "idle"
  /\ AcceptsSection(TrainOf[r.train], r.from, r.to)
  /\ nextId + Cardinality({q \in Proc : pc[q] \in ReserveTx \ Inserted}) <= MaxId
  /\ Goto(p, IF r.mode = "vague" THEN "vague" ELSE "scan")
  /\ req' = [req EXCEPT ![p] = r]
  /\ seats' = [seats EXCEPT ![p] = r.seats]
  /\ scan' = [scan EXCEPT ![p] = IF r.mode = "vague" THEN StartCar(1) ELSE NoScan]
  /\ UNCHANGED <<reservations, nextId, rid, locks, answers>>

(* Vague search, first query of a seat, in autocommit on another           *)
(* connection.  The join has no condition between its two tables: if the   *)
(* requested train has any reservation, the seat rows of this place on     *)
(* every train come back.                                                  *)
VagueQuery(p) ==
  /\ Runs(p, "vague")
  /\ \E s \in scan[p].todo :
       LET found == IF SameTrain(p) = {} THEN {}
                    ELSE {i \in DOMAIN reservations : reservations[i].seats[s] > 0}
       IN
         /\ \A t \in scan[p].todo : s <= t
         /\ scan' = [scan EXCEPT ![p].todo = @ \ {s}, ![p].cur = s, ![p].fetch = found]
         /\ Goto(p, IF found = {} THEN "vague" ELSE "fetch")
  /\ UNCHANGED <<reservations, nextId, req, seats, rid, locks, answers>>

(* Second query: the reservation of a seat row just read.                  *)
VagueFetch(p) ==
  /\ Runs(p, "fetch")
  /\ LET i == Lowest(scan[p].fetch)
         rest == scan[p].fetch \ {i}
     IN  /\ i \in DOMAIN reservations
         /\ scan' = [scan EXCEPT
                       ![p].fetch = rest,
                       ![p].occupied = IF SectionDup(TrainOf[req[p].train].up,
                                                     req[p].from, req[p].to,
                                                     reservations[i].from, reservations[i].to)
                                       THEN @ \cup {scan[p].cur} ELSE @]
         /\ Goto(p, IF rest = {} THEN "vague" ELSE "fetch")
  /\ UNCHANGED <<reservations, nextId, req, seats, rid, locks, answers>>

(* The reservation was canceled in between: panic(err) without Rollback.   *)
(* net/http recovers the goroutine; tx and its connection stay open.       *)
VaguePanic(p) ==
  /\ Runs(p, "fetch")
  /\ Lowest(scan[p].fetch) \notin DOMAIN reservations
  /\ ReturnOpen(p)

(* Any other error of that query ends in the same panic: a lost connection *)
(* or a lock wait timeout, so whether or not the row is there or locked.   *)
FetchFails(p) == pc[p] = "fetch" /\ ReturnOpen(p)

(* The row was read, but a lookup of its stations fails: Rollback, panic.  *)
LookupFails(p) ==
  /\ Runs(p, "fetch")
  /\ Lowest(scan[p].fetch) \in DOMAIN reservations
  /\ Rollback(p)

(* All seats of the car examined: choose, go to the next car, or give up   *)
(* with 404 after the last one.                                            *)
VagueChoose(p) ==
  LET c == scan[p].car
      free == CarSeats[c] \ scan[p].occupied
  IN  /\ pc[p] = "vague" /\ scan[p].todo = {}
      /\ \/ /\ CarSuffices(free, req[p].n, req[p].column)
            /\ seats' = [seats EXCEPT ![p] = One(PickSeats(free, req[p].n, req[p].column))]
            /\ scan' = [scan EXCEPT ![p] = NoScan]
            /\ Goto(p, "scan")
            /\ UNCHANGED <<reservations, nextId, req, rid, locks, answers>>
         \/ /\ ~CarSuffices(free, req[p].n, req[p].column)
            /\ c < NumCars
            /\ scan' = [scan EXCEPT ![p] = StartCar(c + 1)]
            /\ UNCHANGED <<reservations, nextId, pc, req, seats, rid, locks, answers>>
         \/ /\ ~CarSuffices(free, req[p].n, req[p].column)
            /\ c = NumCars
            /\ Rollback(p)

LockNoGap(p) == UNCHANGED gapLock
LockGap(p) == gapLock' = gapLock \cup {p}

ScanWithoutLock(p) ==
  /\ pc[p] = "scan"
  /\ Goto(p, "check")
  /\ UNCHANGED <<reservations, nextId, local, locks, answers>>

(* SELECT * FROM reservations WHERE date, class, name FOR UPDATE: a scan   *)
(* of the whole table, whichever the train.                                *)
ScanReservations(p) ==
  /\ Runs(p, "scan")
  /\ rowLock' = [rowLock EXCEPT ![p] = DOMAIN reservations]
  /\ LockGap(p)
  /\ Goto(p, "check")
  /\ UNCHANGED <<reservations, nextId, local, seatLock, seatGap, answers>>

(* secdup for every reservation of the train, and on a duplicate section   *)
(* the rows of that reservation FOR UPDATE, again a scan of a whole table. *)
(* An unreserved ticket skips the loop and gets Adult+Child dummy seats.   *)
CheckSeats(p) ==
  /\ Runs(p, "check")
  /\ \/ /\ req[p].mode = "free"
        /\ seats' = [seats EXCEPT ![p] = [NoTickets EXCEPT ![Dummy] = req[p].n]]
        /\ Goto(p, "insert")
        /\ UNCHANGED <<reservations, nextId, req, rid, scan, locks, answers>>
     \/ /\ req[p].mode # "free"
        /\ \A i \in Dups(p) : Taken(reservations[i].seats) \cap Taken(seats[p]) = {}
        /\ IF Dups(p) = {} THEN UNCHANGED <<seatLock, seatGap>>
           ELSE /\ seatLock' = [seatLock EXCEPT ![p] = DOMAIN reservations]
                /\ seatGap' = seatGap \cup {p}
        /\ Goto(p, "insert")
        /\ UNCHANGED <<reservations, nextId, local, rowLock, gapLock, answers>>
     \/ /\ req[p].mode # "free"
        /\ \E i \in Dups(p) : Taken(reservations[i].seats) \cap Taken(seats[p]) # {}
        /\ Rollback(p)

UseId(p) == rid' = [rid EXCEPT ![p] = nextId] /\ UNCHANGED nextId
TakeId(p) == rid' = [rid EXCEPT ![p] = nextId] /\ nextId' = nextId + 1

(* INSERT INTO reservations: waits for the other holders of the gap.       *)
InsertReservation(p) ==
  /\ Runs(p, "insert")
  /\ TakeId(p)
  /\ rowLock' = [rowLock EXCEPT ![p] = @ \cup {nextId}]
  /\ Goto(p, "seats")
  /\ UNCHANGED <<reservations, req, seats, scan, gapLock, seatLock, seatGap, answers>>

(* INSERT INTO seat_reservations, once per seat.                           *)
InsertSeats(p) ==
  /\ Runs(p, "seats")
  /\ seatLock' = [seatLock EXCEPT ![p] = @ \cup {rid[p]}]
  /\ Goto(p, "commit")
  /\ UNCHANGED <<reservations, nextId, local, rowLock, gapLock, seatGap, answers>>

(* tx.Commit(), and the answer 200 with the id.                            *)
CommitReserve(p) ==
  /\ pc[p] = "commit"
  /\ reservations' = [i \in DOMAIN reservations \cup {rid[p]} |->
                        IF i = rid[p] THEN Row(p) ELSE reservations[i]]
  /\ acked' = acked \cup {rid[p]}
  /\ EndTx(p)
  /\ UNCHANGED <<nextId, canceled>>

(* tx.Commit() fails (connection or server lost).  Its error is dropped:   *)
(* the client gets the same 200.                                           *)
CommitReserveLost(p) ==
  /\ pc[p] = "commit"
  /\ acked' = acked \cup {rid[p]}
  /\ EndTx(p)
  /\ UNCHANGED <<reservations, nextId, canceled>>

-----------------------------------------------------------------------------
(* The cancellation handler.                                               *)

(* BEGIN and a plain SELECT: a snapshot read that takes no lock.           *)
CancelFind(p, i) ==
  /\ pc[p] = "idle"
  /\ i \in DOMAIN reservations
  /\ rid' = [rid EXCEPT ![p] = i]
  /\ Goto(p, "cancelRow")
  /\ UNCHANGED <<reservations, nextId, req, seats, scan, locks, answers>>

LeaksAtAnyDelete == {"cancelRow", "cancelSeats"}
LeaksAt == {"cancelRow"}

(* The payment service answered 200 with a body that does not parse: the   *)
(* handler returns with tx still open.                                     *)
CancelLeak(p) == pc[p] \in LeaksAt /\ ReturnOpen(p)

(* Whether the gap where row i was is the one after the last row.          *)
LastGap(i) == \A j \in DOMAIN reservations \cup UNION {rowLock[q] : q \in Proc} : j <= i

(* DELETE FROM reservations by primary key.  A row that is gone by now     *)
(* leaves a lock on the gap where it was; 0 rows affected is no error.     *)
CancelRow(p) ==
  /\ Runs(p, "cancelRow")
  /\ IF rid[p] \in DOMAIN reservations
     THEN /\ rowLock' = [rowLock EXCEPT ![p] = {rid[p]}]
          /\ UNCHANGED gapLock
     ELSE /\ gapLock' = IF LastGap(rid[p]) THEN gapLock \cup {p} ELSE gapLock
          /\ UNCHANGED rowLock
  /\ Goto(p, "cancelSeats")
  /\ UNCHANGED <<reservations, nextId, local, seatLock, seatGap, answers>>

(* DELETE FROM seat_reservations by reservation_id: scans the table.       *)
CancelSeats(p) ==
  /\ Runs(p, "cancelSeats")
  /\ seatLock' = [seatLock EXCEPT ![p] = DOMAIN reservations]
  /\ seatGap' = seatGap \cup {p}
  /\ Goto(p, "cancelCommit")
  /\ UNCHANGED <<reservations, nextId, local, rowLock, gapLock, answers>>

CancelCommit(p) ==
  /\ pc[p] = "cancelCommit"
  /\ reservations' = [i \in DOMAIN reservations \ {rid[p]} |-> reservations[i]]
  /\ canceled' = canceled \cup {rid[p]}
  /\ EndTx(p)
  /\ UNCHANGED <<nextId, acked>>

CancelCommitLost(p) ==
  /\ pc[p] = "cancelCommit"
  /\ canceled' = canceled \cup {rid[p]}
  /\ EndTx(p)
  /\ UNCHANGED <<reservations, nextId, acked>>

-----------------------------------------------------------------------------
(* Errors.                                                                 *)

(* Any statement may fail (lost connection, lock wait timeout), the fare   *)
(* or the user may not be found, the payment may not be cancelable: such a *)
(* branch rolls back and answers an error.  The query of "fetch" does not  *)
(* (FetchFails), nor does a failed COMMIT.                                 *)
RollsBack == InTx \ {"fetch", "commit", "cancelCommit"}
Abort(p) == pc[p] \in RollsBack /\ Rollback(p)

(* InnoDB rolls back a transaction on a cycle of waiting transactions; a   *)
(* COMMIT waits for nobody, and nobody waits for a slot in "fetch".        *)
Deadlocked(p) ==
  \E S \in SUBSET Proc :
     /\ p \in S
     /\ \A q \in S : /\ Blockers(q) \cap S # {}
                     /\ \E r \in S : q \in Blockers(r)
DeadlockVictim(p) == pc[p] \in RollsBack /\ Deadlocked(p) /\ Rollback(p)

-----------------------------------------------------------------------------
Init ==
  /\ reservations = [i \in {} |-> {}]
  /\ nextId = 1
  /\ pc = [p \in Proc |-> "idle"]
  /\ req = [p \in Proc |-> NoRequest]
  /\ seats = [p \in Proc |-> NoTickets]
  /\ rid = [p \in Proc |-> 0]
  /\ scan = [p \in Proc |-> NoScan]
  /\ rowLock = [p \in Proc |-> {}] /\ seatLock = [p \in Proc |-> {}]
  /\ gapLock = {} /\ seatGap = {}
  /\ acked = {} /\ canceled = {}

(* The steps a handler takes by itself once a request has arrived.         *)
Advance(p) ==
  \/ VagueQuery(p) \/ VagueFetch(p) \/ VaguePanic(p) \/ VagueChoose(p)
  \/ ScanReservations(p) \/ CheckSeats(p)
  \/ InsertReservation(p) \/ InsertSeats(p) \/ CommitReserve(p)
  \/ CancelRow(p) \/ CancelSeats(p) \/ CancelCommit(p)

Next ==
  \E p \in Proc :
    \/ \E r \in Request : Begin(p, r)
    \/ \E i \in DOMAIN reservations : CancelFind(p, i)
    \/ Advance(p)
    \/ CommitReserveLost(p) \/ CancelCommitLost(p) \/ CancelLeak(p)
    \/ FetchFails(p) \/ LookupFails(p) \/ Abort(p) \/ DeadlockVictim(p)

Spec == Init /\ [][Next]_vars

(* A handler keeps running, InnoDB grants a lock to every waiter in turn   *)
(* (its queue is first come, first served), and resolves deadlocks.        *)
Fairness ==
  /\ \A p \in Proc : SF_vars(Advance(p))
  /\ WF_vars(\E p \in Proc : DeadlockVictim(p))
FairSpec == Spec /\ Fairness

-----------------------------------------------------------------------------
(* Properties.                                                             *)

RowType == [train : Train, from : Station, to : Station, n : Nat, seats : [Place -> Nat]]
ScanType == [car : Nat, todo : SUBSET Seat, cur : Nat, fetch : SUBSET Nat,
             occupied : SUBSET Seat]

Issued == 1 .. (nextId - 1)             \* ids handed out so far

TablesOK ==
  /\ nextId \in Nat \ {0}
  /\ reservations \in [DOMAIN reservations -> RowType]
  /\ DOMAIN reservations \subseteq Issued
  /\ acked \subseteq Issued /\ canceled \subseteq Issued

HandlersOK ==
  /\ pc \in [Proc -> InTx \cup {"idle", "leaked"}]
  /\ req \in [Proc -> Request \cup {NoRequest}]
  /\ seats \in [Proc -> [Place -> Nat]]
  /\ rid \in [Proc -> Issued \cup {0}]
  /\ scan \in [Proc -> ScanType]
  /\ \A p \in Proc : /\ pc[p] \in ReserveTx => req[p] \in Request
                     /\ pc[p] \in {"vague", "fetch"} => scan[p].car \in 1 .. NumCars
                     /\ pc[p] = "fetch" => scan[p].cur \in Seat
                     /\ pc[p] \in CancelTx \cup Inserted => rid[p] \in Issued

LocksOK ==
  /\ rowLock \in [Proc -> SUBSET Issued]
  /\ seatLock \in [Proc -> SUBSET Issued]
  /\ gapLock \subseteq Proc /\ seatGap \subseteq Proc

(* Type correctness of the tables, the handlers' locals and the locks; an  *)
(* id in any of them has been handed out.                                  *)
TypeOK == TablesOK /\ HandlersOK /\ LocksOK

ForwardRow(r) == Forward(TrainOf[r.train].up, r.from, r.to)

(* No seat is sold twice: two committed reservations of one train, both in *)
(* its direction, that overlap on a segment have no seat in common         *)
(* (docs/webapp_spec.md, reserve: a seat is secured until canceled).       *)
(* docs/MANUAL.md:334 warns that the first implementation may ticket a     *)
(* seat twice because its locking is poor.  Over a table without indexes   *)
(* at InnoDB's default isolation the locks are coarse but do exclude it;   *)
(* the double ticket there is comes from the section check, and needs a    *)
(* request against the direction of the train (NoSharedSegment).           *)
NoDoubleBooking ==
  \A i, j \in DOMAIN reservations :
    LET a == reservations[i]  b == reservations[j]
    IN  /\ i # j /\ a.train = b.train
        /\ ForwardRow(a) /\ ForwardRow(b)
        /\ Overlap(a.from, a.to, b.from, b.to)
        => Taken(a.seats) \cap Taken(b.seats) = {}

(* The check is not stale when it is used: from the duplicate check to the *)
(* commit nothing is committed that the check would have refused, although *)
(* the seats were chosen from reads made before any lock was taken.        *)
CheckStaysValid ==
  \A p \in Proc :
    pc[p] \in {"insert", "seats", "commit"} /\ req[p].mode # "free" =>
      \A i \in Dups(p) : Taken(reservations[i].seats) \cap Taken(seats[p]) = {}

RowsApart == \A p, q \in Proc : p # q => rowLock[p] \cap rowLock[q] = {}
PastScanHoldsAll ==
  \A p \in Proc : pc[p] \in {"check", "insert"} \cup Inserted =>
    p \in gapLock /\ DOMAIN reservations \subseteq rowLock[p]
InsertedIsAlone ==
  \A p \in Proc : pc[p] \in Inserted =>
    /\ gapLock = {p}
    /\ rid[p] \in rowLock[p] \ DOMAIN reservations
    /\ rid[p] = nextId - 1
    /\ \A q \in Proc : pc[q] \in CancelTx => rid[q] # rid[p]

(* What the locks give the handler.  Row locks exclude each other; a       *)
(* transaction past its scan holds every reservation and the last gap; one *)
(* that has inserted is alone in that gap, so nobody else is past a scan,  *)
(* and its id is the newest, so no late DELETE takes the gap behind it.    *)
LockInv == RowsApart /\ PastScanHoldsAll /\ InsertedIsAlone

(* A vague request proceeds with exactly Adult+Child seats of one car, the *)
(* wanted column among them (docs/webapp_spec.md: no booking unless one    *)
(* car has all the seats), whatever was booked or canceled while it        *)
(* walked the cars.                                                        *)
VagueSeatsTogether ==
  \A p \in Proc :
    pc[p] \in {"scan", "check", "insert", "seats", "commit"} /\ req[p].mode = "vague" =>
      \E c \in 1 .. NumCars :
        LET T == Taken(seats[p])
        IN  /\ T \subseteq CarSeats[c]
            /\ Cardinality(T) = req[p].n
            /\ req[p].column # AnyColumn => \E s \in T : ColumnOf[s] = req[p].column

(* No statement of either handler waits for a transaction that a panic or  *)
(* an early return has left open: those returns come before the            *)
(* transaction has locked a record or a gap.  What it does keep is its     *)
(* connection, and after a SELECT of reservations (CancelLeak) the         *)
(* metadata lock that holds up initialize: see CancelLeak of Storefront.   *)
LeakBlocksNoStatement ==
  \A p, q \in Proc : pc[p] = "leaked" => p \notin Blockers(q)

JourneyType == [train : Train, from : Station, to : Station, taken : SUBSET Seat]
JourneyOf(r) == [train |-> r.train, from |-> r.from, to |-> r.to, taken |-> Taken(r.seats)]
Booked == [i \in DOMAIN reservations |-> JourneyOf(reservations[i])]
Undecided == {rid[p] : p \in {q \in Proc : pc[q] \in Inserted}}

(* The handlers implement the ledger: tx.Commit is its Book, a rolled back *)
(* or lost INSERT burns the number, a cancel releases the whole journey.   *)
Ledger == INSTANCE SeatLedger WITH Journey <- JourneyType, ledger <- Booked,
                                   issued <- nextId - 1, pending <- Undecided
ImplementsLedger == Ledger!LedgerSpec

(* Every request gets an answer: no handler waits for ever, whatever the   *)
(* others book, cancel, leak or abort.                                     *)
EveryRequestEnds ==
  \A p \in Proc : pc[p] \in InTx ~> pc[p] \in {"idle", "leaked"}

(* A reservation that was acknowledged and never asked to be canceled is   *)
(* in the database.                                                        *)
AckedIsDurable == acked \ canceled \subseteq DOMAIN reservations

(* No two committed reservations of one train share a seat on a segment,   *)
(* in whichever order a request names its two stations.                    *)
NoSharedSegment ==
  \A i, j \in DOMAIN reservations :
    LET a == reservations[i]  b == reservations[j]
    IN  i # j /\ a.train = b.train /\ Overlap(a.from, a.to, b.from, b.to)
        => Taken(a.seats) \cap Taken(b.seats) = {}
=============================================================================
