-------------------------- MODULE SeatBookingProofs -------------------------
(***************************************************************************)
(* Proofs about SeatBooking for every number of slots, trains, stations,   *)
(* seats and requests.                                                     *)
(***************************************************************************)
EXTENDS SeatBooking, SectionsProofs, FiniteSetTheorems

-----------------------------------------------------------------------------
(* Type correctness.                                                       *)

(* What the handlers write is well typed.                                  *)
LEMMA ValuesType ==
  /\ NoTickets \in [Place -> Nat]
  /\ NoScan \in ScanType
  /\ \A c \in 1 .. NumCars : StartCar(c) \in ScanType /\ StartCar(c).car = c
  /\ \A S : One(S) \in [Place -> Nat]
  /\ \A k \in Nat : [NoTickets EXCEPT ![Dummy] = k] \in [Place -> Nat]
  BY BookingAssumption
     DEF NoTickets, NoScan, ScanType, StartCar, One, Place, Dummy

LEMMA RequestFields ==
  ASSUME NEW r \in Request
  PROVE  /\ r.train \in Train /\ r.from \in Station /\ r.to \in Station
         /\ r.n \in Nat /\ r.seats \in [Place -> Nat]
         /\ Taken(r.seats) \subseteq Seat
  BY BookingAssumption DEF RequestType, Taken

(* The end of a transaction leaves a typed, idle handler without locks.    *)
LEMMA EndTxType ==
  ASSUME TypeOK, NEW p \in Proc, EndTx(p), UNCHANGED nextId
  PROVE  HandlersOK' /\ LocksOK'
<1>1. HandlersOK'
  BY ValuesType DEF TypeOK, HandlersOK, EndTx, Goto, Issued, ReserveTx, CancelTx, Inserted, InTx
<1>2. LocksOK'
  BY DEF TypeOK, LocksOK, EndTx, Issued
<1> QED BY <1>1, <1>2

LEMMA RollbackType ==
  ASSUME TypeOK, NEW p \in Proc, Rollback(p)
  PROVE  TypeOK'
  BY EndTxType DEF Rollback, TypeOK, TablesOK, Issued, answers

LEMMA InitType == Init => TypeOK
  BY ValuesType DEF Init, TypeOK, TablesOK, HandlersOK, LocksOK, Issued, InTx, ReserveTx,
                    CancelTx, Inserted

(* A step of the vague search that only moves its own progress.            *)
LEMMA ScanStepType ==
  ASSUME HandlersOK, NEW p \in Proc, NEW sc \in ScanType, NEW at \in {"vague", "fetch"},
         req[p] \in Request, sc.car \in 1 .. NumCars, at = "fetch" => sc.cur \in Seat,
         pc' = [pc EXCEPT ![p] = at], scan' = [scan EXCEPT ![p] = sc],
         UNCHANGED <<nextId, req, seats, rid>>
  PROVE  HandlersOK'
  BY DEF HandlersOK, Issued, ReserveTx, CancelTx, Inserted, InTx

(* A step of the reservation handler up to its locking scan touches        *)
(* neither tables nor locks.                                               *)
LEMMA SearchType ==
  ASSUME TypeOK, NEW p \in Proc,
         \/ \E r \in Request : Begin(p, r)
         \/ VagueQuery(p) \/ VagueFetch(p) \/ VaguePanic(p) \/ FetchFails(p) \/ VagueChoose(p)
  PROVE  TypeOK'
<1> USE DEF Goto, ReserveTx, CancelTx, Inserted, InTx
<1>1. ASSUME NEW r \in Request, Begin(p, r)  PROVE TypeOK'
  <2>1. TablesOK' /\ LocksOK'
    BY <1>1 DEF Begin, TypeOK, TablesOK, LocksOK, Issued, locks, answers
  <2>2. HandlersOK'
    BY <1>1, ValuesType, RequestFields, BookingAssumption DEF Begin, TypeOK, HandlersOK, Issued
  <2> QED BY <2>1, <2>2 DEF TypeOK
<1>2. CASE VagueQuery(p)
  <2>1. TablesOK' /\ LocksOK'
    BY <1>2 DEF VagueQuery, TypeOK, TablesOK, LocksOK, Issued, locks, answers
  <2>2. PICK s \in scan[p].todo, found \in SUBSET Nat :
          /\ scan' = [scan EXCEPT ![p].todo = @ \ {s}, ![p].cur = s, ![p].fetch = found]
          /\ pc' = [pc EXCEPT ![p] = IF found = {} THEN "vague" ELSE "fetch"]
    <3>1. DOMAIN reservations \subseteq Nat
      BY DEF TypeOK, TablesOK, Issued
    <3> QED BY <1>2, <3>1 DEF VagueQuery
  <2> DEFINE sc == [scan[p] EXCEPT !.todo = @ \ {s}, !.cur = s, !.fetch = found]
             at == IF found = {} THEN "vague" ELSE "fetch"
  <2>3. scan[p] \in ScanType /\ scan[p].car \in 1 .. NumCars /\ req[p] \in Request
    BY <1>2 DEF VagueQuery, Runs, TypeOK, HandlersOK
  <2>4. s \in Seat /\ s \in Nat
    BY <2>3, BookingAssumption DEF ScanType
  <2>5. sc \in ScanType /\ sc.car \in 1 .. NumCars /\ sc.cur \in Seat
    BY <2>3, <2>4 DEF ScanType
  <2>6. scan' = [scan EXCEPT ![p] = sc] /\ pc' = [pc EXCEPT ![p] = at]
    BY <2>2
  <2>7. UNCHANGED <<nextId, req, seats, rid>>
    BY <1>2 DEF VagueQuery
  <2>8. at \in {"vague", "fetch"}
    OBVIOUS
  <2> HIDE DEF sc, at
  <2>9. HandlersOK'
    BY <2>3, <2>5, <2>6, <2>7, <2>8, ScanStepType DEF TypeOK
  <2> QED BY <2>1, <2>9 DEF TypeOK
<1>3. CASE VagueFetch(p)
  <2>1. TablesOK' /\ LocksOK'
    BY <1>3 DEF VagueFetch, TypeOK, TablesOK, LocksOK, Issued, locks, answers
  <2>2. scan[p] \in ScanType /\ scan[p].cur \in Seat /\ scan[p].car \in 1 .. NumCars
        /\ req[p] \in Request
    BY <1>3 DEF VagueFetch, Runs, TypeOK, HandlersOK
  <2>3. PICK rest \in SUBSET Nat, occ \in SUBSET Seat :
          /\ scan' = [scan EXCEPT ![p].fetch = rest, ![p].occupied = occ]
          /\ pc' = [pc EXCEPT ![p] = IF rest = {} THEN "vague" ELSE "fetch"]
    <3> DEFINE rest == scan[p].fetch \ {Lowest(scan[p].fetch)}
               dup == SectionDup(TrainOf[req[p].train].up, req[p].from, req[p].to,
                                 reservations[Lowest(scan[p].fetch)].from,
                                 reservations[Lowest(scan[p].fetch)].to)
               occ == IF dup THEN scan[p].occupied \cup {scan[p].cur} ELSE scan[p].occupied
    <3>1. /\ scan' = [scan EXCEPT ![p].fetch = rest, ![p].occupied = occ]
          /\ pc' = [pc EXCEPT ![p] = IF rest = {} THEN "vague" ELSE "fetch"]
      BY <1>3 DEF VagueFetch
    <3> HIDE DEF dup
    <3>2. rest \in SUBSET Nat /\ occ \in SUBSET Seat
      BY <2>2 DEF ScanType
    <3> HIDE DEF rest, occ
    <3> QED BY <3>1, <3>2
  <2> DEFINE sc == [scan[p] EXCEPT !.fetch = rest, !.occupied = occ]
             at == IF rest = {} THEN "vague" ELSE "fetch"
  <2>4. sc \in ScanType /\ sc.car \in 1 .. NumCars /\ sc.cur \in Seat
    BY <2>2, <2>3 DEF ScanType
  <2>5. scan' = [scan EXCEPT ![p] = sc] /\ pc' = [pc EXCEPT ![p] = at]
    BY <2>3
  <2>6. UNCHANGED <<nextId, req, seats, rid>>
    BY <1>3 DEF VagueFetch
  <2>7. at \in {"vague", "fetch"}
    OBVIOUS
  <2> HIDE DEF sc, at
  <2>8. HandlersOK'
    BY <2>2, <2>4, <2>5, <2>6, <2>7, ScanStepType DEF TypeOK
  <2> QED BY <2>1, <2>8 DEF TypeOK
<1>4. CASE VaguePanic(p) \/ FetchFails(p)
  <2>1. TablesOK' /\ LocksOK'
    BY <1>4 DEF VaguePanic, FetchFails, ReturnOpen, TypeOK, TablesOK, LocksOK, Issued, locks, answers
  <2>2. HandlersOK'
    BY <1>4 DEF VaguePanic, FetchFails, ReturnOpen, TypeOK, HandlersOK, Issued, local
  <2> QED BY <2>1, <2>2 DEF TypeOK
<1>5. CASE VagueChoose(p)
  <2> DEFINE free == CarSeats[scan[p].car] \ scan[p].occupied
             chosen == One(PickSeats(free, req[p].n, req[p].column))
  <2>1. CASE /\ seats' = [seats EXCEPT ![p] = chosen]
             /\ scan' = [scan EXCEPT ![p] = NoScan]
             /\ Goto(p, "scan")
             /\ UNCHANGED <<reservations, nextId, req, rid, locks, answers>>
    <3>1. TablesOK' /\ LocksOK'
      BY <2>1 DEF TypeOK, TablesOK, LocksOK, Issued, locks, answers
    <3>2. chosen \in [Place -> Nat]
      BY ValuesType
    <3>3. pc[p] = "vague"
      BY <1>5 DEF VagueChoose
    <3> HIDE DEF chosen
    <3>4. HandlersOK'
      BY <2>1, <3>2, <3>3, ValuesType DEF TypeOK, HandlersOK, Issued
    <3> QED BY <3>1, <3>4 DEF TypeOK
  <2>2. CASE /\ scan[p].car < NumCars
             /\ scan' = [scan EXCEPT ![p] = StartCar(scan[p].car + 1)]
             /\ UNCHANGED <<reservations, nextId, pc, req, seats, rid, locks, answers>>
    <3>1. TablesOK' /\ LocksOK'
      BY <2>2 DEF TypeOK, TablesOK, LocksOK, Issued, locks, answers
    <3>2. pc[p] = "vague" /\ scan[p].car \in 1 .. NumCars
      BY <1>5 DEF VagueChoose, TypeOK, HandlersOK
    <3>3. scan[p].car + 1 \in 1 .. NumCars
      BY <2>2, <3>2, BookingAssumption
    <3>4. HandlersOK'
      BY <2>2, <3>2, <3>3, ValuesType DEF TypeOK, HandlersOK, Issued
    <3> QED BY <3>1, <3>4 DEF TypeOK
  <2>3. CASE Rollback(p)
    BY <2>3, RollbackType
  <2> QED BY <1>5, <2>1, <2>2, <2>3 DEF VagueChoose
<1> QED BY <1>1, <1>2, <1>3, <1>4, <1>5

(* The locking half of the reservation handler.                            *)
LEMMA ReserveType ==
  ASSUME TypeOK, NEW p \in Proc,
         \/ ScanReservations(p) \/ CheckSeats(p) \/ InsertReservation(p)
         \/ InsertSeats(p) \/ CommitReserve(p) \/ CommitReserveLost(p)
  PROVE  TypeOK'
<1> USE DEF Goto, ReserveTx, CancelTx, Inserted, InTx
<1>1. CASE ScanReservations(p)
  <2>1. TablesOK' /\ LocksOK'
    BY <1>1 DEF ScanReservations, LockGap, TypeOK, TablesOK, LocksOK, Issued, answers
  <2>2. HandlersOK'
    BY <1>1 DEF ScanReservations, LockGap, Runs, TypeOK, HandlersOK, Issued, local
  <2> QED BY <2>1, <2>2 DEF TypeOK
<1>2. CASE CheckSeats(p)
  <2>1. CASE Rollback(p)
    BY <2>1, RollbackType
  <2>2. CASE /\ seats' = [seats EXCEPT ![p] = [NoTickets EXCEPT ![Dummy] = req[p].n]]
             /\ Goto(p, "insert")
             /\ UNCHANGED <<reservations, nextId, req, rid, scan, locks, answers>>
    <3>1. TablesOK' /\ LocksOK'
      BY <2>2 DEF TypeOK, TablesOK, LocksOK, Issued, locks, answers
    <3>2. req[p] \in Request
      BY <1>2 DEF CheckSeats, Runs, TypeOK, HandlersOK
    <3>3. [NoTickets EXCEPT ![Dummy] = req[p].n] \in [Place -> Nat]
      BY <3>2, RequestFields, ValuesType
    <3>4. HandlersOK'
      BY <2>2, <3>2, <3>3 DEF TypeOK, HandlersOK, Issued
    <3> QED BY <3>1, <3>4 DEF TypeOK
  <2>3. CASE /\ \/ UNCHANGED <<seatLock, seatGap>>
                \/ /\ seatLock' = [seatLock EXCEPT ![p] = DOMAIN reservations]
                   /\ seatGap' = seatGap \cup {p}
             /\ Goto(p, "insert")
             /\ UNCHANGED <<reservations, nextId, local, rowLock, gapLock, answers>>
    <3>1. TablesOK' /\ LocksOK'
      BY <2>3 DEF TypeOK, TablesOK, LocksOK, Issued, answers
    <3>2. req[p] \in Request
      BY <1>2 DEF CheckSeats, Runs, TypeOK, HandlersOK
    <3>3. HandlersOK'
      BY <2>3, <3>2 DEF TypeOK, HandlersOK, Issued, local
    <3> QED BY <3>1, <3>3 DEF TypeOK
  <2> QED BY <1>2, <2>1, <2>2, <2>3 DEF CheckSeats
<1>3. CASE InsertReservation(p)
  <2>1. nextId \in Issued' /\ Issued \subseteq Issued' /\ nextId' \in Nat \ {0}
    BY <1>3 DEF InsertReservation, TakeId, Issued, TypeOK, TablesOK
  <2>2. TablesOK'
    BY <1>3, <2>1 DEF InsertReservation, TakeId, TypeOK, TablesOK, answers
  <2>3. LocksOK'
    BY <1>3, <2>1 DEF InsertReservation, TakeId, TypeOK, LocksOK
  <2>4. HandlersOK'
    BY <1>3, <2>1 DEF InsertReservation, TakeId, Runs, TypeOK, HandlersOK
  <2> QED BY <2>2, <2>3, <2>4 DEF TypeOK
<1>4. CASE InsertSeats(p)
  <2>1. TablesOK' /\ rid[p] \in Issued
    BY <1>4 DEF InsertSeats, Runs, TypeOK, TablesOK, HandlersOK, Issued, answers
  <2>2. LocksOK'
    BY <1>4, <2>1 DEF InsertSeats, TypeOK, LocksOK, Issued
  <2>3. HandlersOK'
    BY <1>4 DEF InsertSeats, Runs, TypeOK, HandlersOK, Issued, local
  <2> QED BY <2>1, <2>2, <2>3 DEF TypeOK
<1>5. CASE CommitReserve(p)
  <2>1. rid[p] \in Issued /\ req[p] \in Request /\ seats[p] \in [Place -> Nat]
    BY <1>5 DEF CommitReserve, TypeOK, HandlersOK
  <2>2. Row(p) \in RowType
    BY <2>1, RequestFields DEF Row, RowType
  <2>3. TablesOK'
    <3>1. UNCHANGED nextId /\ Issued' = Issued
      BY <1>5 DEF CommitReserve, Issued
    <3>2. DOMAIN reservations' = DOMAIN reservations \cup {rid[p]}
      BY <1>5 DEF CommitReserve
    <3>3. \A i \in DOMAIN reservations' : reservations'[i] \in RowType
      BY <1>5, <2>2, <3>2 DEF CommitReserve, TypeOK, TablesOK
    <3>4. reservations' \in [DOMAIN reservations' -> RowType]
      BY <1>5, <3>2, <3>3 DEF CommitReserve
    <3> QED BY <1>5, <2>1, <3>1, <3>2, <3>4 DEF CommitReserve, TypeOK, TablesOK
  <2> QED BY <1>5, <2>3, EndTxType DEF CommitReserve, TypeOK
<1>6. CASE CommitReserveLost(p)
  <2>1. rid[p] \in Issued
    BY <1>6 DEF CommitReserveLost, TypeOK, HandlersOK
  <2>2. TablesOK'
    BY <1>6, <2>1 DEF CommitReserveLost, TypeOK, TablesOK, Issued
  <2> QED BY <1>6, <2>2, EndTxType DEF CommitReserveLost, TypeOK
<1> QED BY <1>1, <1>2, <1>3, <1>4, <1>5, <1>6

LEMMA CancelType ==
  ASSUME TypeOK, NEW p \in Proc,
         \/ \E i \in DOMAIN reservations : CancelFind(p, i)
         \/ CancelLeak(p) \/ CancelRow(p) \/ CancelSeats(p)
         \/ CancelCommit(p) \/ CancelCommitLost(p)
  PROVE  TypeOK'
<1> USE DEF Goto, ReserveTx, CancelTx, Inserted, InTx
<1>1. ASSUME NEW i \in DOMAIN reservations, CancelFind(p, i)  PROVE TypeOK'
  <2>1. TablesOK' /\ LocksOK' /\ i \in Issued
    BY <1>1 DEF CancelFind, TypeOK, TablesOK, LocksOK, Issued, locks, answers
  <2>2. HandlersOK'
    BY <1>1, <2>1 DEF CancelFind, TypeOK, HandlersOK, Issued
  <2> QED BY <2>1, <2>2 DEF TypeOK
<1>2. CASE CancelLeak(p)
  <2>1. TablesOK' /\ LocksOK'
    BY <1>2 DEF CancelLeak, ReturnOpen, LeaksAt, TypeOK, TablesOK, LocksOK, Issued, locks, answers
  <2>2. HandlersOK'
    BY <1>2 DEF CancelLeak, ReturnOpen, LeaksAt, TypeOK, HandlersOK, Issued, local
  <2> QED BY <2>1, <2>2 DEF TypeOK
<1>3. CASE CancelRow(p)
  <2>1. TablesOK' /\ rid[p] \in Issued
    BY <1>3 DEF CancelRow, Runs, TypeOK, TablesOK, HandlersOK, Issued, answers
  <2>2. LocksOK'
    BY <1>3, <2>1 DEF CancelRow, TypeOK, LocksOK, Issued
  <2>3. HandlersOK'
    BY <1>3 DEF CancelRow, Runs, TypeOK, HandlersOK, Issued, local
  <2> QED BY <2>1, <2>2, <2>3 DEF TypeOK
<1>4. CASE CancelSeats(p)
  <2>1. TablesOK' /\ LocksOK'
    BY <1>4 DEF CancelSeats, TypeOK, TablesOK, LocksOK, Issued, answers
  <2>2. HandlersOK'
    BY <1>4 DEF CancelSeats, Runs, TypeOK, HandlersOK, Issued, local
  <2> QED BY <2>1, <2>2 DEF TypeOK
<1>5. CASE CancelCommit(p)
  <2>1. rid[p] \in Issued
    BY <1>5 DEF CancelCommit, TypeOK, HandlersOK
  <2>2. TablesOK'
    <3>1. UNCHANGED nextId /\ Issued' = Issued
      BY <1>5 DEF CancelCommit, Issued
    <3>2. DOMAIN reservations' \subseteq DOMAIN reservations
          /\ reservations' \in [DOMAIN reservations' -> RowType]
      BY <1>5 DEF CancelCommit, TypeOK, TablesOK
    <3> QED BY <1>5, <2>1, <3>1, <3>2 DEF CancelCommit, TypeOK, TablesOK
  <2> QED BY <1>5, <2>2, EndTxType DEF CancelCommit, TypeOK
<1>6. CASE CancelCommitLost(p)
  <2>1. rid[p] \in Issued
    BY <1>6 DEF CancelCommitLost, TypeOK, HandlersOK
  <2>2. TablesOK'
    BY <1>6, <2>1 DEF CancelCommitLost, TypeOK, TablesOK, Issued
  <2> QED BY <1>6, <2>2, EndTxType DEF CancelCommitLost, TypeOK
<1> QED BY <1>1, <1>2, <1>3, <1>4, <1>5, <1>6

LEMMA NextType == TypeOK /\ [Next]_vars => TypeOK'
<1> SUFFICES ASSUME TypeOK, [Next]_vars  PROVE TypeOK'
  OBVIOUS
<1>1. CASE UNCHANGED vars
  BY <1>1 DEF vars, local, locks, answers, TypeOK, TablesOK, HandlersOK, LocksOK, Issued
<1>2. ASSUME NEW p \in Proc, Abort(p) \/ LookupFails(p) \/ DeadlockVictim(p)  PROVE TypeOK'
  BY <1>2, RollbackType DEF Abort, LookupFails, DeadlockVictim
<1> QED BY <1>1, <1>2, SearchType, ReserveType, CancelType DEF Next, Advance

(* The tables, the handlers' locals and the locks stay well typed, and no  *)
(* id is used that AUTO_INCREMENT has not handed out, for every instance.  *)
THEOREM Typing == Spec => []TypeOK
<1>1. Init => TypeOK
  BY InitType
<1>2. TypeOK /\ [Next]_vars => TypeOK'
  BY NextType
<1> QED BY <1>1, <1>2, PTL DEF Spec

-----------------------------------------------------------------------------
(* Locking.                                                                *)

(* Everything a step of p leaves alone when it touches neither locks nor   *)
(* tables, and does not move p into the locked part of a handler.          *)
LEMMA QuietKeepsLocks ==
  ASSUME TypeOK, LockInv, NEW p \in Proc, NEW at,
         at \notin {"check", "insert"} \cup Inserted,
         at \in CancelTx => rid[p]' \in DOMAIN reservations,
         pc' = [pc EXCEPT ![p] = at], \A q \in Proc \ {p} : rid[q]' = rid[q],
         UNCHANGED <<reservations, nextId, rowLock, gapLock>>
  PROVE  LockInv'
<1>1. pc'[p] = at /\ \A q \in Proc \ {p} : pc'[q] = pc[q]
  BY DEF TypeOK, HandlersOK
<1>2. RowsApart'
  BY DEF LockInv, RowsApart
<1>3. PastScanHoldsAll'
  BY <1>1 DEF LockInv, PastScanHoldsAll
<1>4. InsertedIsAlone'
  BY <1>1 DEF LockInv, InsertedIsAlone
<1> QED BY <1>2, <1>3, <1>4 DEF LockInv

(* The end of a transaction, with the tables as they were or without one   *)
(* reservation.                                                            *)
LEMMA EndTxKeepsLocks ==
  ASSUME TypeOK, LockInv, NEW p \in Proc, EndTx(p), UNCHANGED nextId,
         DOMAIN reservations' \subseteq DOMAIN reservations
  PROVE  LockInv'
<1> USE DEF EndTx, Goto, ReserveTx, CancelTx, Inserted, InTx
<1>1. /\ pc'[p] = "idle" /\ rowLock'[p] = {} /\ gapLock' = gapLock \ {p}
      /\ \A q \in Proc \ {p} : pc'[q] = pc[q] /\ rowLock'[q] = rowLock[q] /\ rid'[q] = rid[q]
  BY DEF TypeOK, HandlersOK, LocksOK
<1>2. RowsApart'
  BY <1>1 DEF LockInv, RowsApart
<1>3. PastScanHoldsAll'
  BY <1>1 DEF LockInv, PastScanHoldsAll
<1>4. InsertedIsAlone'
  BY <1>1 DEF LockInv, InsertedIsAlone
<1> QED BY <1>2, <1>3, <1>4 DEF LockInv

(* While one transaction has inserted, no other is past its locking scan.  *)
LEMMA OneInserts ==
  ASSUME LockInv, NEW p \in Proc, pc[p] \in Inserted,
         NEW q \in Proc, pc[q] \in {"check", "insert"} \cup Inserted
  PROVE  q = p
  BY DEF LockInv, PastScanHoldsAll, InsertedIsAlone

LEMMA RollbackKeepsLocks ==
  ASSUME TypeOK, LockInv, NEW p \in Proc, Rollback(p)
  PROVE  LockInv'
  BY EndTxKeepsLocks DEF Rollback

LEMMA SearchKeepsLocks ==
  ASSUME TypeOK, LockInv, NEW p \in Proc,
         \/ \E r \in Request : Begin(p, r)
         \/ VagueQuery(p) \/ VagueFetch(p) \/ VaguePanic(p) \/ FetchFails(p) \/ VagueChoose(p)
         \/ CancelLeak(p) \/ \E i \in DOMAIN reservations : CancelFind(p, i)
  PROVE  LockInv'
<1> USE DEF Goto, CancelTx, Inserted, locks, local
<1>1. CASE \E r \in Request : Begin(p, r)
  BY <1>1, QuietKeepsLocks DEF Begin
<1>2. CASE VagueQuery(p)
  BY <1>2, QuietKeepsLocks DEF VagueQuery
<1>3. CASE VagueFetch(p)
  BY <1>3, QuietKeepsLocks DEF VagueFetch
<1>4. CASE VaguePanic(p) \/ FetchFails(p)
  BY <1>4, QuietKeepsLocks DEF VaguePanic, FetchFails, ReturnOpen
<1>5. CASE VagueChoose(p)
  <2>1. CASE Rollback(p)
    BY <2>1, RollbackKeepsLocks
  <2>2. CASE Goto(p, "scan") /\ UNCHANGED <<reservations, nextId, req, rid, locks, answers>>
    BY <2>2, QuietKeepsLocks
  <2>3. CASE UNCHANGED <<reservations, nextId, pc, req, seats, rid, locks, answers>>
    BY <2>3 DEF LockInv, RowsApart, PastScanHoldsAll, InsertedIsAlone
  <2> QED BY <1>5, <2>1, <2>2, <2>3 DEF VagueChoose
<1>6. CASE CancelLeak(p)
  BY <1>6, QuietKeepsLocks DEF CancelLeak, ReturnOpen, LeaksAt
<1>7. ASSUME NEW i \in DOMAIN reservations, CancelFind(p, i)  PROVE LockInv'
  <2>1. rid'[p] = i /\ \A q \in Proc \ {p} : rid'[q] = rid[q]
    BY <1>7 DEF CancelFind, TypeOK, HandlersOK
  <2> QED BY <1>7, <2>1, QuietKeepsLocks DEF CancelFind
<1> QED BY <1>1, <1>2, <1>3, <1>4, <1>5, <1>6, <1>7

LEMMA ReserveKeepsLocks ==
  ASSUME TypeOK, LockInv, NEW p \in Proc,
         \/ ScanReservations(p) \/ CheckSeats(p) \/ InsertReservation(p)
         \/ InsertSeats(p) \/ CommitReserve(p) \/ CommitReserveLost(p)
  PROVE  LockInv'
<1> USE DEF Goto, CancelTx, Inserted
<1>0. pc \in [Proc -> InTx \cup {"idle", "leaked"}] /\ rid \in [Proc -> Issued \cup {0}]
      /\ rowLock \in [Proc -> SUBSET Issued] /\ nextId \in Nat \ {0}
  BY DEF TypeOK, HandlersOK, LocksOK, TablesOK
<1>1. CASE ScanReservations(p)
  <2>1. pc[p] = "scan" /\ \A q \in Proc \ {p} : rowLock[q] = {}
    BY <1>1 DEF ScanReservations, LockGap, Runs, Blockers, HoldRow
  <2>2. /\ pc'[p] = "check" /\ rowLock'[p] = DOMAIN reservations /\ gapLock' = gapLock \cup {p}
        /\ \A q \in Proc \ {p} : pc'[q] = pc[q] /\ rowLock'[q] = {}
        /\ UNCHANGED <<reservations, nextId, rid>>
    BY <1>0, <1>1, <2>1 DEF ScanReservations, LockGap, local
  <2>3. \A q \in Proc : pc'[q] \notin Inserted
    BY <2>1, <2>2 DEF LockInv, InsertedIsAlone
  <2>4. RowsApart'
    BY <2>2 DEF RowsApart
  <2>5. PastScanHoldsAll'
    BY <2>1, <2>2 DEF LockInv, PastScanHoldsAll
  <2> QED BY <2>3, <2>4, <2>5 DEF LockInv, InsertedIsAlone
<1>2. CASE CheckSeats(p)
  <2>1. CASE Rollback(p)
    BY <2>1, RollbackKeepsLocks
  <2>2. CASE Goto(p, "insert") /\ UNCHANGED <<reservations, nextId, rid, rowLock, gapLock>>
    <3>1. pc[p] = "check" /\ pc'[p] = "insert" /\ \A q \in Proc \ {p} : pc'[q] = pc[q]
      BY <1>0, <1>2, <2>2 DEF CheckSeats, Runs
    <3> QED BY <2>2, <3>1 DEF LockInv, RowsApart, PastScanHoldsAll, InsertedIsAlone
  <2> QED BY <1>2, <2>1, <2>2 DEF CheckSeats, local, locks
<1>3. CASE InsertReservation(p)
  <2>1. pc[p] = "insert" /\ gapLock \ {p} = {}
    BY <1>3 DEF InsertReservation, TakeId, Runs, Blockers
  <2>2. gapLock = {p} /\ DOMAIN reservations \subseteq rowLock[p]
    BY <2>1 DEF LockInv, PastScanHoldsAll
  <2>3. /\ pc'[p] = "seats" /\ rowLock'[p] = rowLock[p] \cup {nextId} /\ rid'[p] = nextId
        /\ \A q \in Proc \ {p} : pc'[q] = pc[q] /\ rowLock'[q] = rowLock[q] /\ rid'[q] = rid[q]
        /\ nextId' = nextId + 1 /\ UNCHANGED <<reservations, gapLock>>
    BY <1>0, <1>3 DEF InsertReservation, TakeId
  <2>4. nextId \notin Issued /\ nextId # 0 /\ DOMAIN reservations \subseteq Issued
    BY <1>0 DEF Issued, TypeOK, TablesOK
  <2>5. RowsApart'
    BY <1>0, <2>3, <2>4 DEF LockInv, RowsApart
  <2>6. PastScanHoldsAll'
    BY <2>2, <2>3 DEF LockInv, PastScanHoldsAll
  <2>7. \A q \in Proc \ {p} : pc'[q] \notin Inserted
    BY <2>1, <2>2, <2>3 DEF LockInv, InsertedIsAlone
  <2>8. \A q \in Proc : pc'[q] \in CancelTx => rid'[q] # nextId
    BY <1>0, <2>3, <2>4
  <2>9. InsertedIsAlone'
    BY <1>0, <2>2, <2>3, <2>4, <2>7, <2>8 DEF InsertedIsAlone
  <2> QED BY <2>5, <2>6, <2>9 DEF LockInv
<1>4. CASE InsertSeats(p)
  <2>1. /\ pc[p] = "seats" /\ pc'[p] = "commit" /\ \A q \in Proc \ {p} : pc'[q] = pc[q]
        /\ UNCHANGED <<reservations, nextId, rid, rowLock, gapLock>>
    BY <1>0, <1>4 DEF InsertSeats, Runs, local
  <2> QED BY <2>1 DEF LockInv, RowsApart, PastScanHoldsAll, InsertedIsAlone
<1>5. CASE CommitReserve(p)
  <2>1. pc[p] = "commit" /\ DOMAIN reservations' = DOMAIN reservations \cup {rid[p]}
    BY <1>5 DEF CommitReserve
  <2>2. /\ pc'[p] = "idle" /\ rowLock'[p] = {}
        /\ \A q \in Proc \ {p} : pc'[q] = pc[q] /\ rowLock'[q] = rowLock[q]
    BY <1>0, <1>5 DEF CommitReserve, EndTx
  <2>3. \A q \in Proc : pc'[q] \notin {"check", "insert"} \cup Inserted
    BY <2>1, <2>2, OneInserts
  <2>4. RowsApart'
    BY <2>2 DEF LockInv, RowsApart
  <2> QED BY <2>3, <2>4 DEF LockInv, PastScanHoldsAll, InsertedIsAlone
<1>6. CASE CommitReserveLost(p)
  BY <1>6, EndTxKeepsLocks DEF CommitReserveLost
<1> QED BY <1>1, <1>2, <1>3, <1>4, <1>5, <1>6

LEMMA CancelKeepsLocks ==
  ASSUME TypeOK, LockInv, NEW p \in Proc,
         \/ CancelRow(p) \/ CancelSeats(p) \/ CancelCommit(p) \/ CancelCommitLost(p)
  PROVE  LockInv'
<1> USE DEF Goto, CancelTx, Inserted
<1>0. pc \in [Proc -> InTx \cup {"idle", "leaked"}] /\ rowLock \in [Proc -> SUBSET Issued]
      /\ nextId \in Nat \ {0}
  BY DEF TypeOK, HandlersOK, LocksOK, TablesOK
<1>1. CASE CancelRow(p)
  <2>1. /\ pc[p] = "cancelRow" /\ rid[p] \in Issued
        /\ \A q \in Proc \ {p} : rid[p] \notin rowLock[q]
    BY <1>1 DEF CancelRow, Runs, Blockers, TypeOK, HandlersOK
  <2>2. /\ pc'[p] = "cancelSeats" /\ \A q \in Proc \ {p} : pc'[q] = pc[q]
        /\ UNCHANGED <<reservations, nextId, rid>>
    BY <1>0, <1>1 DEF CancelRow, local
  <2>3. CASE rid[p] \in DOMAIN reservations
    <3>1. /\ rowLock'[p] = {rid[p]} /\ \A q \in Proc \ {p} : rowLock'[q] = rowLock[q]
          /\ UNCHANGED gapLock
      BY <1>0, <1>1, <2>3 DEF CancelRow
    <3> QED BY <2>1, <2>2, <3>1 DEF LockInv, RowsApart, PastScanHoldsAll, InsertedIsAlone
  <2>4. CASE rid[p] \notin DOMAIN reservations
    <3>1. UNCHANGED rowLock /\ gapLock \subseteq gapLock'
      BY <1>1, <2>4 DEF CancelRow
    <3>2. ASSUME NEW q \in Proc, pc[q] \in Inserted  PROVE gapLock' = gapLock
      <4>1. rid[q] \in rowLock[q] /\ rid[q] = nextId - 1 /\ rid[p] # rid[q]
        BY <2>1, <3>2 DEF LockInv, InsertedIsAlone
      <4>2. rid[q] \in UNION {rowLock[r] : r \in Proc} /\ rid[q] > rid[p]
        BY <1>0, <2>1, <4>1 DEF Issued
      <4>3. ~LastGap(rid[p])
        <5> SUFFICES ASSUME LastGap(rid[p])  PROVE FALSE
          OBVIOUS
        <5>1. rid[q] <= rid[p]
          BY <4>2 DEF LastGap
        <5>2. rid[q] \in Int /\ rid[p] \in Int
          BY <1>0, <2>1, <4>1 DEF Issued
        <5> QED BY <4>2, <5>1, <5>2
      <4> QED BY <1>1, <2>4, <4>3 DEF CancelRow
    <3>3. RowsApart' /\ PastScanHoldsAll'
      BY <2>2, <3>1 DEF LockInv, RowsApart, PastScanHoldsAll
    <3>4. InsertedIsAlone'
      BY <2>1, <2>2, <3>1, <3>2 DEF LockInv, InsertedIsAlone
    <3> QED BY <3>3, <3>4 DEF LockInv
  <2> QED BY <2>3, <2>4
<1>2. CASE CancelSeats(p)
  <2>1. /\ pc[p] = "cancelSeats" /\ pc'[p] = "cancelCommit" /\ \A q \in Proc \ {p} : pc'[q] = pc[q]
        /\ UNCHANGED <<reservations, nextId, rid, rowLock, gapLock>>
    BY <1>0, <1>2 DEF CancelSeats, Runs, local
  <2> QED BY <2>1 DEF LockInv, RowsApart, PastScanHoldsAll, InsertedIsAlone
<1>3. CASE CancelCommit(p)
  <2>1. DOMAIN reservations' \subseteq DOMAIN reservations
    BY <1>3 DEF CancelCommit
  <2> QED BY <1>3, <2>1, EndTxKeepsLocks DEF CancelCommit
<1>4. CASE CancelCommitLost(p)
  BY <1>4, EndTxKeepsLocks DEF CancelCommitLost
<1> QED BY <1>1, <1>2, <1>3, <1>4

LEMMA NextLocks == TypeOK /\ LockInv /\ [Next]_vars => LockInv'
<1> SUFFICES ASSUME TypeOK, LockInv, [Next]_vars  PROVE LockInv'
  OBVIOUS
<1>1. CASE UNCHANGED vars
  BY <1>1 DEF vars, local, locks, LockInv, RowsApart, PastScanHoldsAll, InsertedIsAlone
<1>2. ASSUME NEW p \in Proc, Abort(p) \/ LookupFails(p) \/ DeadlockVictim(p)  PROVE LockInv'
  BY <1>2, RollbackKeepsLocks DEF Abort, LookupFails, DeadlockVictim
<1> QED BY <1>1, <1>2, SearchKeepsLocks, ReserveKeepsLocks, CancelKeepsLocks DEF Next, Advance

(* The whole-table locks of the reservation handler do what it relies on:  *)
(* a transaction that has inserted is alone past the scan, in every        *)
(* interleaving of any number of requests.                                 *)
THEOREM Locking == Spec => []LockInv
<1>1. Init => LockInv
  BY DEF Init, LockInv, RowsApart, PastScanHoldsAll, InsertedIsAlone, Inserted
<1>2. TypeOK /\ LockInv /\ [Next]_vars => LockInv'
  BY NextLocks
<1> QED BY <1>1, <1>2, Typing, PTL DEF Spec

-----------------------------------------------------------------------------
(* The duplicate check and double booking.                                 *)

(* An unreserved ticket takes the dummy place only.                        *)
FreeTakesNoSeat ==
  \A p \in Proc : pc[p] \in {"insert"} \cup Inserted /\ req[p].mode = "free" =>
    Taken(seats[p]) = {}

ChecksHold == CheckStaysValid /\ FreeTakesNoSeat

Checked == {"insert"} \cup Inserted

CheckedOK(p) ==
  pc[p] \in Checked =>
    IF req[p].mode = "free" THEN Taken(seats[p]) = {}
    ELSE \A i \in Dups(p) : Taken(reservations[i].seats) \cap Taken(seats[p]) = {}

LEMMA ChecksByHandler ==
  /\ ChecksHold <=> \A p \in Proc : CheckedOK(p)
  /\ ChecksHold' <=> \A p \in Proc : CheckedOK(p)'
<1>1. ChecksHold <=> \A p \in Proc : CheckedOK(p)
  BY DEF ChecksHold, CheckStaysValid, FreeTakesNoSeat, CheckedOK, Checked, Inserted
<1>2. ChecksHold' <=> \A p \in Proc : CheckedOK(p)'
  BY DEF ChecksHold, CheckStaysValid, FreeTakesNoSeat, CheckedOK, Checked, Inserted
<1> QED BY <1>1, <1>2

(* A step that leaves p's request, seats and place in the handler alone.    *)
Still(p) ==
  pc'[p] \in Checked => pc[p] \in Checked /\ req'[p] = req[p] /\ seats'[p] = seats[p]

(* A step that adds no reservation.                                        *)
NoneAdded ==
  /\ DOMAIN reservations' \subseteq DOMAIN reservations
  /\ \A i \in DOMAIN reservations' : reservations'[i] = reservations[i]

LEMMA CheckedFrame ==
  ASSUME NEW p \in Proc, CheckedOK(p), Still(p), NoneAdded
  PROVE  CheckedOK(p)'
<1> SUFFICES ASSUME pc'[p] \in Checked  PROVE CheckedOK(p)'
  BY DEF CheckedOK
<1>1. pc[p] \in Checked /\ req'[p] = req[p] /\ seats'[p] = seats[p]
  BY DEF Still
<1>2. Dups(p)' \subseteq Dups(p) /\ \A i \in Dups(p)' : reservations'[i] = reservations[i]
  BY <1>1 DEF Dups, SameTrain, NoneAdded
<1> QED BY <1>1, <1>2 DEF CheckedOK, Taken

LEMMA EndTxStill ==
  ASSUME TypeOK, NEW p \in Proc, EndTx(p), NEW q \in Proc
  PROVE  Still(q)
  BY DEF Still, EndTx, Goto, TypeOK, HandlersOK, Checked, Inserted

LEMMA RollbackStill ==
  ASSUME TypeOK, NEW p \in Proc, Rollback(p)
  PROVE  NoneAdded /\ \A q \in Proc : Still(q)
  BY EndTxStill DEF Rollback, NoneAdded

LEMMA SearchStill ==
  ASSUME TypeOK, NEW p \in Proc,
         \/ \E r \in Request : Begin(p, r)
         \/ VagueQuery(p) \/ VagueFetch(p) \/ VaguePanic(p) \/ FetchFails(p) \/ VagueChoose(p)
         \/ ScanReservations(p)
  PROVE  NoneAdded /\ \A q \in Proc : Still(q)
<1> USE DEF Goto, Checked, Inserted, TypeOK, HandlersOK, NoneAdded, Still, local
<1>1. CASE \E r \in Request : Begin(p, r)
  BY <1>1 DEF Begin
<1>2. CASE VagueQuery(p)
  BY <1>2 DEF VagueQuery
<1>3. CASE VagueFetch(p)
  BY <1>3 DEF VagueFetch
<1>4. CASE VaguePanic(p) \/ FetchFails(p)
  BY <1>4 DEF VaguePanic, FetchFails, ReturnOpen
<1>5. CASE VagueChoose(p)
  <2>1. CASE Rollback(p)
    BY <2>1, RollbackStill
  <2>2. CASE UNCHANGED <<reservations, req>> /\ Goto(p, "scan")
             /\ \E new : seats' = [seats EXCEPT ![p] = new]
    BY <2>2
  <2>3. CASE UNCHANGED <<reservations, pc, req, seats>>
    BY <2>3
  <2> QED BY <1>5, <2>1, <2>2, <2>3 DEF VagueChoose
<1>6. CASE ScanReservations(p)
  BY <1>6 DEF ScanReservations, LockGap
<1> QED BY <1>1, <1>2, <1>3, <1>4, <1>5, <1>6

LEMMA InsertStill ==
  ASSUME TypeOK, NEW p \in Proc,
         InsertReservation(p) \/ InsertSeats(p) \/ CommitReserveLost(p)
  PROVE  NoneAdded /\ \A q \in Proc : Still(q)
<1>1. CASE InsertReservation(p)
  BY <1>1 DEF InsertReservation, TakeId, Runs, Goto, Checked, Inserted, TypeOK, HandlersOK, NoneAdded, Still
<1>2. CASE InsertSeats(p)
  BY <1>2 DEF InsertSeats, Runs, Goto, local, Checked, Inserted, TypeOK, HandlersOK, NoneAdded, Still
<1>3. CASE CommitReserveLost(p)
  BY <1>3, EndTxStill DEF CommitReserveLost, NoneAdded
<1> QED BY <1>1, <1>2, <1>3

LEMMA CancelStill ==
  ASSUME TypeOK, NEW p \in Proc,
         \/ \E i \in DOMAIN reservations : CancelFind(p, i)
         \/ CancelLeak(p) \/ CancelRow(p) \/ CancelSeats(p)
         \/ CancelCommit(p) \/ CancelCommitLost(p)
  PROVE  NoneAdded /\ \A q \in Proc : Still(q)
<1>1. CASE \/ \E i \in DOMAIN reservations : CancelFind(p, i)
          \/ CancelLeak(p) \/ CancelRow(p) \/ CancelSeats(p)
  BY <1>1 DEF CancelFind, CancelLeak, ReturnOpen, LeaksAt, CancelRow, CancelSeats, Goto, local, Checked, Inserted,
              TypeOK, HandlersOK, NoneAdded, Still
<1>2. CASE CancelCommit(p)
  BY <1>2, EndTxStill DEF CancelCommit, NoneAdded
<1>3. CASE CancelCommitLost(p)
  BY <1>3, EndTxStill DEF CancelCommitLost, NoneAdded
<1> QED BY <1>1, <1>2, <1>3

(* The check itself: it lets p through only when what it read is true.      *)
LEMMA CheckSeatsEstablishes ==
  ASSUME TypeOK, ChecksHold, NEW p \in Proc, CheckSeats(p)
  PROVE  ChecksHold'
<1>0. \A q \in Proc : CheckedOK(q)
  BY ChecksByHandler
<1>1. CASE Rollback(p)
  BY <1>0, <1>1, RollbackStill, CheckedFrame, ChecksByHandler
<1>2. CASE /\ req[p].mode = "free"
           /\ seats' = [seats EXCEPT ![p] = [NoTickets EXCEPT ![Dummy] = req[p].n]]
           /\ Goto(p, "insert")
           /\ UNCHANGED <<reservations, nextId, req, rid, scan, locks, answers>>
  <2>1. NoneAdded /\ \A q \in Proc \ {p} : Still(q)
    BY <1>2 DEF Goto, TypeOK, HandlersOK, NoneAdded, Still
  <2>2. Taken(seats'[p]) = {}
    <3>1. seats'[p] = [NoTickets EXCEPT ![Dummy] = req[p].n]
      BY <1>2 DEF TypeOK, HandlersOK
    <3>2. \A s \in Seat : [NoTickets EXCEPT ![Dummy] = req[p].n][s] = 0
      BY BookingAssumption DEF NoTickets, Place, Dummy
    <3> QED BY <3>1, <3>2 DEF Taken
  <2>3. CheckedOK(p)'
    BY <1>2, <2>2 DEF CheckedOK
  <2> QED BY <1>0, <2>1, <2>3, CheckedFrame, ChecksByHandler
<1>3. CASE /\ req[p].mode # "free"
           /\ \A i \in Dups(p) : Taken(reservations[i].seats) \cap Taken(seats[p]) = {}
           /\ Goto(p, "insert")
           /\ UNCHANGED <<reservations, nextId, local, rowLock, gapLock, answers>>
  <2>1. NoneAdded /\ \A q \in Proc \ {p} : Still(q)
    BY <1>3 DEF Goto, TypeOK, HandlersOK, NoneAdded, Still, local
  <2>2. CheckedOK(p)'
    BY <1>3 DEF CheckedOK, Dups, SameTrain, Taken, local
  <2> QED BY <1>0, <2>1, <2>2, CheckedFrame, ChecksByHandler
<1> QED BY <1>1, <1>2, <1>3 DEF CheckSeats

LEMMA NextChecks ==
  TypeOK /\ LockInv /\ ChecksHold /\ [Next]_vars => ChecksHold'
<1> SUFFICES ASSUME TypeOK, LockInv, ChecksHold, [Next]_vars  PROVE ChecksHold'
  OBVIOUS
<1>0. \A q \in Proc : CheckedOK(q)
  BY ChecksByHandler
<1>1. ASSUME NoneAdded, \A q \in Proc : Still(q)  PROVE ChecksHold'
  BY <1>0, <1>1, CheckedFrame, ChecksByHandler
<1>2. CASE UNCHANGED vars
  <2>1. NoneAdded /\ \A q \in Proc : Still(q)
    BY <1>2 DEF vars, local, NoneAdded, Still
  <2> QED BY <1>1, <2>1
<1>3. ASSUME NEW p \in Proc, CommitReserve(p)  PROVE ChecksHold'
  <2>1. pc[p] \in Inserted /\ pc'[p] = "idle" /\ \A q \in Proc \ {p} : pc'[q] = pc[q]
    BY <1>3 DEF CommitReserve, EndTx, Goto, Inserted, TypeOK, HandlersOK
  <2>2. \A q \in Proc : pc'[q] \notin Checked
    BY <2>1, OneInserts DEF Checked, Inserted
  <2>3. \A q \in Proc : CheckedOK(q)'
    BY <2>2 DEF CheckedOK
  <2> QED BY <2>3, ChecksByHandler
<1>4. ASSUME NEW p \in Proc, Abort(p) \/ LookupFails(p) \/ DeadlockVictim(p)  PROVE ChecksHold'
  BY <1>1, <1>4, RollbackStill DEF Abort, LookupFails, DeadlockVictim
<1> QED BY <1>1, <1>2, <1>3, <1>4, SearchStill, InsertStill, CancelStill, CheckSeatsEstablishes
        DEF Next, Advance

(* The duplicate check of the reservation handler is never stale when it   *)
(* commits: no interleaving commits a clashing row in between.             *)
THEOREM CheckNeverStale == Spec => []CheckStaysValid
<1>1. Init => ChecksHold
  BY DEF Init, ChecksHold, CheckStaysValid, FreeTakesNoSeat, Inserted
<1>2. TypeOK /\ LockInv /\ ChecksHold /\ [Next]_vars => ChecksHold'
  BY NextChecks
<1>3. ChecksHold => CheckStaysValid
  BY DEF ChecksHold
<1> QED BY <1>1, <1>2, <1>3, Typing, Locking, PTL DEF Spec

(* Whether two rows stand in each other's way.                             *)
Clashing(a, b) ==
  /\ a.train = b.train
  /\ ForwardRow(a) /\ ForwardRow(b)
  /\ Overlap(a.from, a.to, b.from, b.to)
  /\ Taken(a.seats) \cap Taken(b.seats) # {}

LEMMA ClashingSymmetric ==
  ASSUME NEW a, NEW b, Clashing(a, b)  PROVE Clashing(b, a)
  BY DEF Clashing, Overlap

LEMMA DoubleBookingByPairs ==
  /\ NoDoubleBooking <=> \A i, j \in DOMAIN reservations :
                            i # j => ~Clashing(reservations[i], reservations[j])
  /\ NoDoubleBooking' <=> \A i, j \in DOMAIN reservations' :
                            i # j => ~Clashing(reservations'[i], reservations'[j])
<1>1. NoDoubleBooking <=> \A i, j \in DOMAIN reservations :
                            i # j => ~Clashing(reservations[i], reservations[j])
  BY DEF NoDoubleBooking, Clashing
<1>2. NoDoubleBooking' <=> \A i, j \in DOMAIN reservations' :
                            i # j => ~Clashing(reservations'[i], reservations'[j])
  BY DEF NoDoubleBooking, Clashing
<1> QED BY <1>1, <1>2

(* A row about to be committed clashes with no committed one.              *)
LEMMA CommitClashesWithNone ==
  ASSUME TypeOK, ChecksHold, NEW p \in Proc, pc[p] = "commit", NEW i \in DOMAIN reservations
  PROVE  ~Clashing(Row(p), reservations[i])
<1> SUFFICES ASSUME Clashing(Row(p), reservations[i])  PROVE FALSE
  OBVIOUS
<1> DEFINE a == Row(p)
           b == reservations[i]
<1>1. /\ req[p].train \in Train /\ req[p].from \in Station /\ req[p].to \in Station
      /\ b.train \in Train /\ b.from \in Station /\ b.to \in Station
  BY RequestFields DEF TypeOK, HandlersOK, TablesOK, RowType, ReserveTx
<1>2. /\ a.train = req[p].train /\ a.from = req[p].from /\ a.to = req[p].to /\ a.seats = seats[p]
  BY DEF Row
<1>3. req[p].mode # "free" /\ \A k \in Dups(p) : Taken(reservations[k].seats) \cap Taken(seats[p]) = {}
  BY <1>2 DEF ChecksHold, CheckStaysValid, FreeTakesNoSeat, Inserted, Clashing
<1>4. TrainOf[req[p].train].up \in BOOLEAN /\ Station \subseteq Int
  BY <1>1, BookingAssumption
<1>5. /\ b.train = req[p].train
      /\ Forward(TrainOf[req[p].train].up, req[p].from, req[p].to)
      /\ Forward(TrainOf[req[p].train].up, b.from, b.to)
      /\ Overlap(req[p].from, req[p].to, b.from, b.to)
  BY <1>2 DEF Clashing, ForwardRow
<1>6. SectionDup(TrainOf[req[p].train].up, req[p].from, req[p].to, b.from, b.to)
  BY <1>1, <1>4, <1>5, SectionDupExact
<1>7. i \in Dups(p)
  BY <1>5, <1>6 DEF Dups, SameTrain
<1> QED BY <1>2, <1>3, <1>7 DEF Clashing

LEMMA NextBooking ==
  TypeOK /\ LockInv /\ ChecksHold /\ NoDoubleBooking /\ [Next]_vars => NoDoubleBooking'
<1> SUFFICES ASSUME TypeOK, LockInv, ChecksHold, NoDoubleBooking, [Next]_vars
             PROVE  NoDoubleBooking'
  OBVIOUS
<1>1. ASSUME NoneAdded  PROVE NoDoubleBooking'
  BY <1>1, DoubleBookingByPairs DEF NoneAdded
<1>2. CASE UNCHANGED vars
  BY <1>1, <1>2 DEF vars, NoneAdded
<1>3. ASSUME NEW p \in Proc, CommitReserve(p)  PROVE NoDoubleBooking'
  <2>1. pc[p] = "commit" /\ rid[p] \notin DOMAIN reservations
    BY <1>3 DEF CommitReserve, LockInv, InsertedIsAlone, Inserted
  <2>2. /\ DOMAIN reservations' = DOMAIN reservations \cup {rid[p]}
        /\ reservations'[rid[p]] = Row(p)
        /\ \A i \in DOMAIN reservations : reservations'[i] = reservations[i]
    BY <1>3, <2>1 DEF CommitReserve
  <2>3. \A i \in DOMAIN reservations : ~Clashing(Row(p), reservations[i])
    BY <2>1, CommitClashesWithNone
  <2>4. \A i \in DOMAIN reservations : ~Clashing(reservations[i], Row(p))
    BY <2>3, ClashingSymmetric
  <2> QED BY <2>2, <2>3, <2>4, DoubleBookingByPairs
<1>4. ASSUME NEW p \in Proc, Abort(p) \/ LookupFails(p) \/ DeadlockVictim(p)  PROVE NoDoubleBooking'
  BY <1>1, <1>4, RollbackStill DEF Abort, LookupFails, DeadlockVictim
<1>5. ASSUME NEW p \in Proc, CheckSeats(p)  PROVE NoDoubleBooking'
  BY <1>1, <1>5 DEF CheckSeats, Rollback, local, NoneAdded
<1> QED BY <1>1, <1>2, <1>3, <1>4, <1>5, SearchStill, InsertStill, CancelStill DEF Next, Advance

(* No seat is sold twice on a segment of the line, whatever the number of  *)
(* concurrent requests, trains and seats.                                  *)
THEOREM SeatsAreSoldOnce == Spec => []NoDoubleBooking
<1>1. Init => NoDoubleBooking /\ ChecksHold
  BY DEF Init, NoDoubleBooking, ChecksHold, CheckStaysValid, FreeTakesNoSeat, Inserted
<1>2. TypeOK /\ LockInv /\ ChecksHold /\ [Next]_vars => ChecksHold'
  BY NextChecks
<1>3. TypeOK /\ LockInv /\ ChecksHold /\ NoDoubleBooking /\ [Next]_vars => NoDoubleBooking'
  BY NextBooking
<1> QED BY <1>1, <1>2, <1>3, Typing, Locking, PTL DEF Spec

-----------------------------------------------------------------------------
(* The seats of a vague request.                                           *)

(* The first k free seats are k at most (main.go, the loops over SeatList). *)
LEMMA FirstSeatsAreFew ==
  ASSUME NEW S, S \subseteq Nat, IsFiniteSet(S), NEW k \in Nat
  PROVE  /\ FirstSeats(k, S) \subseteq S /\ IsFiniteSet(FirstSeats(k, S))
         /\ Cardinality(FirstSeats(k, S)) \in Nat /\ Cardinality(FirstSeats(k, S)) <= k
BY LowestAreFew, Zenon DEF FirstSeats

(* A car that suffices gives away exactly the seats asked for, and one of  *)
(* the wanted column among them, although the chosen seats are put together *)
(* from two searches (main.go, VagueSeat and CandidateSeats).              *)
LEMMA PickSeatsExact ==
  ASSUME NEW free, free \subseteq Nat, IsFiniteSet(free), NEW k \in Nat, NEW column,
         CarSuffices(free, k, column)
  PROVE  LET picked == PickSeats(free, k, column)
         IN  /\ picked \subseteq free /\ Cardinality(picked) = k
             /\ column # AnyColumn => \E s \in picked : ColumnOf[s] = column
<1>1. k > 0 /\ Cardinality(PickSeats(free, k, column)) >= k
  BY DEF CarSuffices
<1>2. CASE column = AnyColumn
  <2>1. PickSeats(free, k, column) = FirstSeats(k, free)
    BY <1>2 DEF PickSeats
  <2>2. /\ FirstSeats(k, free) \subseteq free
        /\ Cardinality(FirstSeats(k, free)) \in Nat /\ Cardinality(FirstSeats(k, free)) <= k
    BY FirstSeatsAreFew
  <2> QED BY <1>1, <1>2, <2>1, <2>2
<1>3. CASE column # AnyColumn
  <2> DEFINE fitting == {s \in free : ColumnOf[s] = column}
             wanted == FirstSeats(1, fitting)
             others == FirstSeats(k - 1, free \ wanted)
  <2>1. fitting \subseteq Nat /\ IsFiniteSet(fitting)
    BY FS_Subset
  <2>2. /\ wanted \subseteq fitting /\ IsFiniteSet(wanted)
        /\ Cardinality(wanted) \in Nat /\ Cardinality(wanted) <= 1
    <3> HIDE DEF fitting
    <3> QED BY <2>1, FirstSeatsAreFew
  <2>3. free \ wanted \subseteq Nat /\ IsFiniteSet(free \ wanted) /\ k - 1 \in Nat
    <3>1. k - 1 \in Nat
      BY <1>1
    <3>2. IsFiniteSet(free \ wanted)
      BY FS_Difference, Zenon
    <3> QED BY <3>1, <3>2
  <2>4. /\ others \subseteq free \ wanted /\ IsFiniteSet(others)
        /\ Cardinality(others) \in Nat /\ Cardinality(others) <= k - 1
    <3> HIDE DEF wanted
    <3> QED BY <2>3, FirstSeatsAreFew
  <2>5. PickSeats(free, k, column) = wanted \cup others
    BY <1>3 DEF PickSeats
  <2>6. wanted \subseteq free /\ \A s \in wanted : ColumnOf[s] = column
    BY <2>2
  <2> HIDE DEF fitting, wanted, others
  <2>7. wanted \cap others = {}
    BY <2>4
  <2>8. Cardinality(wanted \cup others) = Cardinality(wanted) + Cardinality(others)
    <3>1. Cardinality(wanted \cup others)
            = Cardinality(wanted) + Cardinality(others) - Cardinality(wanted \cap others)
      BY <2>2, <2>4, FS_Union, Zenon
    <3>2. Cardinality(wanted \cap others) = 0
      BY <2>7, FS_EmptySet, Zenon
    <3> QED BY <2>2, <2>4, <3>1, <3>2
  <2>9. Cardinality(wanted) = 1 /\ Cardinality(wanted \cup others) = k
    BY <1>1, <2>2, <2>4, <2>5, <2>8
  <2>10. \E s : s \in wanted
    BY <2>2, <2>9, FS_EmptySet
  <2> QED BY <2>4, <2>5, <2>6, <2>9, <2>10
<1> QED BY <1>2, <1>3

(* What a slot past the vague search takes to its transaction.             *)
Together(p) ==
  \E c \in 1 .. NumCars :
    LET T == Taken(seats[p])
    IN  /\ T \subseteq CarSeats[c]
        /\ Cardinality(T) = req[p].n
        /\ req[p].column # AnyColumn => \E s \in T : ColumnOf[s] = req[p].column

PastSearch == {"scan", "check", "insert", "seats", "commit"}

(* The choice is made from one car's seats alone.                          *)
LEMMA VagueChooseTogether ==
  ASSUME TypeOK, NEW p \in Proc, VagueChoose(p), pc'[p] \in PastSearch
  PROVE  Together(p)'
<1> DEFINE c == scan[p].car
           free == CarSeats[c] \ scan[p].occupied
           picked == PickSeats(free, req[p].n, req[p].column)
<1>1. pc[p] = "vague" /\ pc'[p] \in PastSearch
  BY DEF VagueChoose
<1>2. /\ CarSuffices(free, req[p].n, req[p].column)
      /\ seats' = [seats EXCEPT ![p] = One(picked)] /\ req' = req
  BY <1>1 DEF VagueChoose, Rollback, EndTx, Goto, TypeOK, HandlersOK, PastSearch
<1>3. c \in 1 .. NumCars /\ req[p] \in Request /\ req[p].n \in Nat
  BY <1>1, RequestFields DEF TypeOK, HandlersOK, ReserveTx
<1>4. CarSeats[c] \subseteq Seat /\ Seat \subseteq Nat /\ IsFiniteSet(CarSeats[c])
  BY <1>3, BookingAssumption
<1>5. free \subseteq CarSeats[c] /\ free \subseteq Nat /\ IsFiniteSet(free)
  BY <1>4, FS_Difference
<1>6. seats'[p] = One(picked)
  BY <1>2 DEF TypeOK, HandlersOK
<1>7. /\ picked \subseteq free /\ Cardinality(picked) = req[p].n
      /\ req[p].column # AnyColumn => \E s \in picked : ColumnOf[s] = req[p].column
  <2>1. CarSuffices(free, req[p].n, req[p].column)
    BY <1>2
  <2>2. free \subseteq Nat /\ IsFiniteSet(free) /\ req[p].n \in Nat
    BY <1>3, <1>5
  <2> DEFINE k == req[p].n
             column == req[p].column
  <2>3. CarSuffices(free, k, column) /\ k \in Nat
    BY <2>1, <2>2
  <2> HIDE DEF free, k, column, c
  <2>4. /\ PickSeats(free, k, column) \subseteq free
        /\ Cardinality(PickSeats(free, k, column)) = k
        /\ column # AnyColumn =>
             \E s \in PickSeats(free, k, column) : ColumnOf[s] = column
    BY <2>2, <2>3, PickSeatsExact
  <2> QED BY <2>4 DEF k, column
<1> HIDE DEF picked, free, c
<1>8. Taken(One(picked)) = picked
  <2>1. picked \subseteq Seat
    BY <1>4, <1>5, <1>7 DEF free
  <2>2. \A s \in Seat : One(picked)[s] = IF s \in picked THEN 1 ELSE 0
    BY DEF One, Place
  <2>3. \A s \in Seat : One(picked)[s] > 0 <=> s \in picked
    BY <2>2
  <2> QED BY <2>1, <2>3 DEF Taken
<1> QED BY <1>2, <1>3, <1>5, <1>6, <1>7, <1>8 DEF Together

(* Every other step leaves the seats of a request past its search alone,   *)
(* or belongs to a request that named its seats or wanted none.            *)
LEMMA NextTogether ==
  ASSUME TypeOK, VagueSeatsTogether, [Next]_vars  PROVE VagueSeatsTogether'
<1> USE DEF local
<1>1. SUFFICES ASSUME NEW q \in Proc, pc'[q] \in PastSearch, req'[q].mode = "vague"
               PROVE  Together(q)'
  BY DEF VagueSeatsTogether, Together, PastSearch
<1>2. ASSUME pc[q] \in PastSearch, req'[q] = req[q], seats'[q] = seats[q]  PROVE Together(q)'
  BY <1>1, <1>2 DEF VagueSeatsTogether, Together, PastSearch
<1>3. CASE UNCHANGED vars
  BY <1>1, <1>2, <1>3 DEF vars
<1>4. ASSUME NEW p \in Proc, EndTx(p)  PROVE Together(q)'
  <2>1. q # p
    BY <1>1, <1>4 DEF EndTx, Goto, TypeOK, HandlersOK, PastSearch
  <2> QED BY <1>1, <1>2, <1>4, <2>1 DEF EndTx, Goto, TypeOK, HandlersOK
<1>5. ASSUME NEW p \in Proc, NEW r \in Request, Begin(p, r)  PROVE Together(q)'
  <2>1. p # q
    BY <1>1, <1>5 DEF Begin, Goto, TypeOK, HandlersOK, PastSearch
  <2> QED BY <1>1, <1>2, <1>5, <2>1 DEF Begin, Goto, TypeOK, HandlersOK
<1>6. ASSUME NEW p \in Proc, VagueChoose(p)  PROVE Together(q)'
  <2>1. CASE p = q
    BY <1>1, <1>6, <2>1, VagueChooseTogether
  <2>2. CASE p # q
    BY <1>1, <1>2, <1>4, <1>6, <2>2 DEF VagueChoose, Rollback, Goto, TypeOK, HandlersOK
  <2> QED BY <2>1, <2>2
<1>7. ASSUME NEW p \in Proc, CheckSeats(p)  PROVE Together(q)'
  <2>1. CASE Rollback(p)
    BY <1>4, <2>1 DEF Rollback
  <2>2. CASE UNCHANGED <<req, seats>> /\ Goto(p, "insert") /\ pc[p] = "check"
    BY <1>1, <1>2, <2>2 DEF Goto, TypeOK, HandlersOK, PastSearch
  <2>3. CASE /\ req[p].mode = "free" /\ req' = req /\ Goto(p, "insert")
             /\ seats' = [seats EXCEPT ![p] = [NoTickets EXCEPT ![Dummy] = req[p].n]]
    <3>1. q # p
      BY <1>1, <2>3
    <3> QED BY <1>1, <1>2, <2>3, <3>1 DEF Goto, TypeOK, HandlersOK
  <2> QED BY <1>7, <2>1, <2>2, <2>3 DEF CheckSeats, Runs
<1>8. ASSUME NEW p \in Proc, NEW at, Goto(p, at), UNCHANGED <<req, seats>>,
             at \in PastSearch => pc[p] \in PastSearch
      PROVE  Together(q)'
  BY <1>1, <1>2, <1>8 DEF Goto, TypeOK, HandlersOK
<1>9. ASSUME NEW p \in Proc,
             \/ VagueQuery(p) \/ VagueFetch(p) \/ VaguePanic(p) \/ FetchFails(p)
             \/ ScanReservations(p) \/ InsertReservation(p) \/ InsertSeats(p)
             \/ CancelRow(p) \/ CancelSeats(p) \/ CancelLeak(p)
             \/ \E i \in DOMAIN reservations : CancelFind(p, i)
      PROVE  Together(q)'
  BY <1>8, <1>9 DEF VagueQuery, VagueFetch, VaguePanic, FetchFails, ReturnOpen,
     ScanReservations, InsertReservation, TakeId, InsertSeats, CancelRow, CancelSeats, CancelLeak, CancelFind, Runs, PastSearch
<1>10. ASSUME NEW p \in Proc,
              \/ CommitReserve(p) \/ CommitReserveLost(p)
              \/ CancelCommit(p) \/ CancelCommitLost(p) \/ Abort(p) \/ LookupFails(p) \/ DeadlockVictim(p)
       PROVE  Together(q)'
  BY <1>4, <1>10 DEF CommitReserve, CommitReserveLost, CancelCommit, CancelCommitLost, Abort, LookupFails,
     DeadlockVictim, Rollback
<1> QED BY <1>3, <1>5, <1>6, <1>7, <1>9, <1>10 DEF Next, Advance

(* A vague request goes on to its transaction with exactly the seats it    *)
(* asked for, all of one car and the wanted column among them, whatever is *)
(* booked, canceled or lost while it walks the cars.                       *)
THEOREM VagueSeatsAreTogether == Spec => []VagueSeatsTogether
<1>1. Init => VagueSeatsTogether
  BY DEF Init, VagueSeatsTogether
<1>2. TypeOK /\ VagueSeatsTogether /\ [Next]_vars => VagueSeatsTogether'
  BY NextTogether
<1> QED BY <1>1, <1>2, Typing, PTL DEF Spec

-----------------------------------------------------------------------------
(* Handlers without a transaction, or that have only read, hold no lock.   *)

Unlocked == {"idle", "leaked", "vague", "fetch", "scan", "cancelRow"}
HoldsNothing(p) ==
  rowLock[p] = {} /\ seatLock[p] = {} /\ p \notin gapLock /\ p \notin seatGap
ReadersHoldNothing == \A p \in Proc : pc[p] \in Unlocked => HoldsNothing(p)

(* A step of p leaves the others' locks and places alone.                  *)
OthersKeep(p) ==
  \A q \in Proc \ {p} :
    /\ pc'[q] = pc[q] /\ rowLock'[q] = rowLock[q] /\ seatLock'[q] = seatLock[q]
    /\ (q \in gapLock' <=> q \in gapLock) /\ (q \in seatGap' <=> q \in seatGap)

LEMMA HoldFrame ==
  ASSUME ReadersHoldNothing, NEW p \in Proc, OthersKeep(p),
         pc'[p] \in Unlocked => HoldsNothing(p)'
  PROVE  ReadersHoldNothing'
  BY DEF ReadersHoldNothing, OthersKeep, HoldsNothing

LEMMA EndTxHolds ==
  ASSUME TypeOK, ReadersHoldNothing, NEW p \in Proc, EndTx(p)
  PROVE  ReadersHoldNothing'
<1>1. OthersKeep(p)
  BY DEF EndTx, Goto, OthersKeep, TypeOK, HandlersOK, LocksOK
<1>2. HoldsNothing(p)'
  BY DEF EndTx, HoldsNothing, TypeOK, LocksOK
<1> QED BY <1>1, <1>2, HoldFrame

LEMMA NextHolds == TypeOK /\ ReadersHoldNothing /\ [Next]_vars => ReadersHoldNothing'
<1> SUFFICES ASSUME TypeOK, ReadersHoldNothing, [Next]_vars  PROVE ReadersHoldNothing'
  OBVIOUS
<1> USE DEF locks, local, Goto
<1>1. CASE UNCHANGED vars
  BY <1>1 DEF vars, ReadersHoldNothing, HoldsNothing
<1>2. ASSUME NEW p \in Proc, UNCHANGED locks, pc[p] \in Unlocked,
             UNCHANGED pc \/ \E at : Goto(p, at)
      PROVE  ReadersHoldNothing'
  BY <1>2 DEF TypeOK, HandlersOK, ReadersHoldNothing, HoldsNothing
<1>3. ASSUME NEW p \in Proc, Rollback(p) \/ CommitReserve(p) \/ CommitReserveLost(p)
                              \/ CancelCommit(p) \/ CancelCommitLost(p)
      PROVE  ReadersHoldNothing'
  BY <1>3, EndTxHolds DEF Rollback, CommitReserve, CommitReserveLost, CancelCommit, CancelCommitLost
<1>4. ASSUME NEW p \in Proc,
             \/ \E r \in Request : Begin(p, r)
             \/ \E i \in DOMAIN reservations : CancelFind(p, i)
             \/ CancelLeak(p) \/ VagueQuery(p) \/ VagueFetch(p) \/ VaguePanic(p) \/ FetchFails(p)
      PROVE  ReadersHoldNothing'
  BY <1>2, <1>4 DEF Begin, CancelFind, CancelLeak, LeaksAt, VagueQuery, VagueFetch, VaguePanic,
     FetchFails, ReturnOpen, Runs, Unlocked
<1>5. ASSUME NEW p \in Proc, VagueChoose(p)  PROVE ReadersHoldNothing'
  <2>1. pc[p] \in Unlocked
    BY <1>5 DEF VagueChoose, Unlocked
  <2>2. Rollback(p) \/ (UNCHANGED locks /\ (UNCHANGED pc \/ Goto(p, "scan")))
    BY <1>5 DEF VagueChoose
  <2> QED BY <1>2, <1>3, <2>1, <2>2
<1>6. ASSUME NEW p \in Proc, \E at \in InTx \ Unlocked : Goto(p, at),
             rowLock' = rowLock \/ \E S : rowLock' = [rowLock EXCEPT ![p] = S],
             seatLock' = seatLock \/ \E S : seatLock' = [seatLock EXCEPT ![p] = S],
             gapLock' = gapLock \/ gapLock' = gapLock \cup {p},
             seatGap' = seatGap \/ seatGap' = seatGap \cup {p}
      PROVE  ReadersHoldNothing'
  <2>1. OthersKeep(p) /\ pc'[p] \notin Unlocked
    BY <1>6 DEF OthersKeep, TypeOK, HandlersOK, LocksOK
  <2> QED BY <2>1, HoldFrame
<1>7. {"check", "insert", "seats", "commit", "cancelSeats", "cancelCommit"} \subseteq InTx \ Unlocked
  BY DEF InTx, ReserveTx, CancelTx, Unlocked
<1>8. ASSUME NEW p \in Proc, ScanReservations(p) \/ InsertReservation(p) \/ InsertSeats(p)
                              \/ CancelRow(p) \/ CancelSeats(p)
      PROVE  ReadersHoldNothing'
  <2>1. CASE ScanReservations(p)
    BY <1>6, <1>7, <2>1 DEF ScanReservations, LockGap
  <2>2. CASE InsertReservation(p)
    BY <1>6, <1>7, <2>2 DEF InsertReservation, TakeId
  <2>3. CASE InsertSeats(p)
    BY <1>6, <1>7, <2>3 DEF InsertSeats
  <2>4. CASE CancelRow(p)
    BY <1>6, <1>7, <2>4 DEF CancelRow
  <2>5. CASE CancelSeats(p)
    BY <1>6, <1>7, <2>5 DEF CancelSeats
  <2> QED BY <1>8, <2>1, <2>2, <2>3, <2>4, <2>5
<1>9. ASSUME NEW p \in Proc, CheckSeats(p)  PROVE ReadersHoldNothing'
  <2>1. CASE Rollback(p)
    BY <1>3, <2>1
  <2>2. CASE Goto(p, "insert") /\ UNCHANGED <<rowLock, gapLock>>
             /\ \/ UNCHANGED <<seatLock, seatGap>>
                \/ /\ seatLock' = [seatLock EXCEPT ![p] = DOMAIN reservations]
                   /\ seatGap' = seatGap \cup {p}
    BY <1>6, <1>7, <2>2
  <2> QED BY <1>9, <2>1, <2>2 DEF CheckSeats
<1> QED BY <1>1, <1>3, <1>4, <1>5, <1>8, <1>9 DEF Next, Advance, Abort, LookupFails, DeadlockVictim

(* No statement of a reserve or cancel handler waits for a transaction     *)
(* that a panic or an early return has left open, in every instance.  (Its *)
(* metadata lock holds up initialize: CancelLeak of Storefront.)           *)
THEOREM LeaksBlockNoStatement == Spec => []LeakBlocksNoStatement
<1>1. Init => ReadersHoldNothing
  BY DEF Init, ReadersHoldNothing, HoldsNothing
<1>2. TypeOK /\ ReadersHoldNothing /\ [Next]_vars => ReadersHoldNothing'
  BY NextHolds
<1>3. TypeOK /\ ReadersHoldNothing => LeakBlocksNoStatement
  BY DEF TypeOK, HandlersOK, ReadersHoldNothing, HoldsNothing, Unlocked, LeakBlocksNoStatement,
     Blockers, HoldRow, HoldSeat
<1> QED BY <1>1, <1>2, <1>3, Typing, PTL DEF Spec

-----------------------------------------------------------------------------
(* Refinement of the ledger.                                               *)

(* With one transaction inserted, its number is the only undecided one.     *)
LEMMA UndecidedByPlace ==
  ASSUME LockInv, NEW p \in Proc
  PROVE  pc[p] \in Inserted => Undecided = {rid[p]}
<1> SUFFICES ASSUME pc[p] \in Inserted  PROVE Undecided = {rid[p]}
  OBVIOUS
<1>1. \A q \in Proc : pc[q] \in Inserted => q = p
  BY OneInserts
<1> QED BY <1>1 DEF Undecided

(* A step that changes neither rows nor inserted transactions stutters.     *)
LEMMA LedgerStutter ==
  ASSUME UNCHANGED <<reservations, nextId>>,
         \A q \in Proc : /\ pc[q] \in Inserted <=> pc'[q] \in Inserted
                         /\ pc[q] \in Inserted => rid'[q] = rid[q]
  PROVE  UNCHANGED Ledger!ledgerVars
<1>1. Booked' = Booked
  BY DEF Booked
<1>2. Undecided' = Undecided
  BY DEF Undecided
<1> QED BY <1>1, <1>2 DEF Ledger!ledgerVars

(* A transaction that ends without committing burns the number it had.      *)
LEMMA EndTxBurns ==
  ASSUME TypeOK, LockInv, NEW p \in Proc, EndTx(p), UNCHANGED <<reservations, nextId>>
  PROVE  [Ledger!LedgerNext]_(Ledger!ledgerVars)
<1>1. pc'[p] = "idle" /\ \A q \in Proc \ {p} : pc'[q] = pc[q] /\ rid'[q] = rid[q]
  BY DEF EndTx, Goto, TypeOK, HandlersOK
<1>2. CASE pc[p] \in Inserted
  <2>1. Undecided = {rid[p]}
    BY <1>2, UndecidedByPlace
  <2>2. Undecided' = {}
    BY <1>1, <1>2, OneInserts DEF Undecided, Inserted
  <2>3. Booked' = Booked
    BY DEF Booked
  <2>4. Ledger!Burn(rid[p]) /\ rid[p] \in Undecided
    BY <2>1, <2>2, <2>3 DEF Ledger!Burn
  <2> QED BY <2>4 DEF Ledger!LedgerNext
<1>3. CASE pc[p] \notin Inserted
  <2>1. UNCHANGED Ledger!ledgerVars
    BY <1>1, <1>3, LedgerStutter DEF Inserted
  <2> QED BY <2>1
<1> QED BY <1>2, <1>3

LEMMA RollbackBurns ==
  ASSUME TypeOK, LockInv, NEW p \in Proc, Rollback(p)
  PROVE  [Ledger!LedgerNext]_(Ledger!ledgerVars)
  BY EndTxBurns DEF Rollback

LEMMA InsertIssues ==
  ASSUME TypeOK, LockInv, NEW p \in Proc, InsertReservation(p)
  PROVE  Ledger!LedgerNext
<1>1. /\ pc[p] = "insert" /\ pc'[p] = "seats" /\ rid'[p] = nextId /\ nextId' = nextId + 1
      /\ \A q \in Proc \ {p} : pc'[q] = pc[q] /\ rid'[q] = rid[q]
      /\ UNCHANGED reservations
  BY DEF InsertReservation, TakeId, Runs, Goto, TypeOK, HandlersOK
<1>2. Undecided' = Undecided \cup {nextId}
  BY <1>1 DEF Undecided, Inserted
<1>3. Booked' = Booked
  BY <1>1 DEF Booked
<1>4. nextId' - 1 = nextId /\ nextId = (nextId - 1) + 1
  BY <1>1 DEF TypeOK, TablesOK
<1>5. Ledger!Issue
  BY <1>2, <1>3, <1>4 DEF Ledger!Issue
<1> QED BY <1>5 DEF Ledger!LedgerNext

LEMMA CommitBooks ==
  ASSUME TypeOK, LockInv, ChecksHold, NEW p \in Proc, CommitReserve(p)
  PROVE  Ledger!LedgerNext
<1> DEFINE i == rid[p]
           j == JourneyOf(Row(p))
<1>1. /\ pc[p] = "commit" /\ i \notin DOMAIN reservations
      /\ pc'[p] = "idle" /\ \A q \in Proc \ {p} : pc'[q] = pc[q] /\ rid'[q] = rid[q]
      /\ UNCHANGED nextId
  BY DEF CommitReserve, EndTx, Goto, TypeOK, HandlersOK, LockInv, InsertedIsAlone, Inserted
<1>2. Undecided = {i} /\ Undecided' = {}
  BY <1>1, UndecidedByPlace, OneInserts DEF Undecided, Inserted
<1>3. Booked' = [k \in DOMAIN Booked \cup {i} |-> IF k = i THEN j ELSE Booked[k]]
  BY <1>1 DEF CommitReserve, Booked
<1>4. \A k \in DOMAIN Booked : ~Ledger!Clash(j, Booked[k])
  <2>1. SUFFICES ASSUME NEW k \in DOMAIN reservations, Ledger!Clash(j, JourneyOf(reservations[k]))
                 PROVE  FALSE
    BY DEF Booked
  <2>2. Clashing(Row(p), reservations[k])
    BY <2>1 DEF Ledger!Clash, Clashing, JourneyOf, ForwardRow, Ledger!Forward, Forward,
                Ledger!Overlap, Overlap, Ledger!Segments, Segments
  <2> QED BY <1>1, <2>2, CommitClashesWithNone
<1>5. j \in JourneyType
  BY <1>1, RequestFields DEF JourneyOf, JourneyType, Row, Taken, TypeOK, HandlersOK, ReserveTx
<1>6. Ledger!Book(i, j)
  <2>1. nextId' - 1 = nextId - 1
    BY <1>1
  <2> HIDE DEF j
  <2> QED BY <1>2, <1>3, <1>4, <2>1 DEF Ledger!Book
<1> QED BY <1>2, <1>5, <1>6 DEF Ledger!LedgerNext

LEMMA CancelReleases ==
  ASSUME TypeOK, LockInv, NEW p \in Proc, CancelCommit(p)
  PROVE  [Ledger!LedgerNext]_(Ledger!ledgerVars)
<1>1. /\ pc[p] = "cancelCommit" /\ pc'[p] = "idle" /\ UNCHANGED nextId
      /\ \A q \in Proc \ {p} : pc'[q] = pc[q] /\ rid'[q] = rid[q]
  BY DEF CancelCommit, EndTx, Goto, TypeOK, HandlersOK
<1>2. Undecided' = Undecided
  BY <1>1 DEF Undecided, Inserted
<1>3. Booked' = [k \in DOMAIN Booked \ {rid[p]} |-> Booked[k]]
  BY DEF CancelCommit, Booked
<1>4. nextId' - 1 = nextId - 1
  BY <1>1
<1>5. CASE rid[p] \in DOMAIN Booked
  <2>1. Ledger!Release(rid[p])
    BY <1>2, <1>3, <1>4, <1>5 DEF Ledger!Release
  <2> QED BY <1>5, <2>1 DEF Ledger!LedgerNext
<1>6. CASE rid[p] \notin DOMAIN Booked
  <2>1. Booked' = Booked
    BY <1>3, <1>6 DEF Booked
  <2> QED BY <1>2, <1>4, <2>1 DEF Ledger!ledgerVars
<1> QED BY <1>5, <1>6

(* Steps on which the ledger stutters.                                     *)
LEMMA ReadersStutter ==
  ASSUME TypeOK, NEW p \in Proc,
         \/ \E r \in Request : Begin(p, r)
         \/ \E i \in DOMAIN reservations : CancelFind(p, i)
         \/ VagueQuery(p) \/ VagueFetch(p) \/ VaguePanic(p) \/ FetchFails(p)
         \/ ScanReservations(p) \/ InsertSeats(p)
         \/ CancelLeak(p) \/ CancelRow(p) \/ CancelSeats(p)
  PROVE  UNCHANGED Ledger!ledgerVars
<1> USE DEF Goto, Runs, local, Inserted, TypeOK, HandlersOK
<1>1. CASE \E r \in Request : Begin(p, r)
  BY <1>1, LedgerStutter DEF Begin
<1>2. CASE \E i \in DOMAIN reservations : CancelFind(p, i)
  BY <1>2, LedgerStutter DEF CancelFind
<1>3. CASE VagueQuery(p)
  BY <1>3, LedgerStutter DEF VagueQuery
<1>4. CASE VagueFetch(p)
  BY <1>4, LedgerStutter DEF VagueFetch
<1>5. CASE VaguePanic(p) \/ FetchFails(p)
  BY <1>5, LedgerStutter DEF VaguePanic, FetchFails, ReturnOpen
<1>6. CASE ScanReservations(p)
  BY <1>6, LedgerStutter DEF ScanReservations, LockGap
<1>7. CASE InsertSeats(p)
  BY <1>7, LedgerStutter DEF InsertSeats
<1>8. CASE CancelLeak(p)
  BY <1>8, LedgerStutter DEF CancelLeak, ReturnOpen, LeaksAt
<1>9. CASE CancelRow(p)
  BY <1>9, LedgerStutter DEF CancelRow
<1>10. CASE CancelSeats(p)
  BY <1>10, LedgerStutter DEF CancelSeats
<1> QED BY <1>1, <1>2, <1>3, <1>4, <1>5, <1>6, <1>7, <1>8, <1>9, <1>10

(* The two steps of the reservation handler that may end its transaction.   *)
LEMMA ChoosersStutterOrBurn ==
  ASSUME TypeOK, LockInv, NEW p \in Proc, VagueChoose(p) \/ CheckSeats(p)
  PROVE  [Ledger!LedgerNext]_(Ledger!ledgerVars)
<1>1. CASE Rollback(p)
  BY <1>1, RollbackBurns
<1>2. CASE /\ pc[p] \notin Inserted
           /\ UNCHANGED pc \/ Goto(p, "scan") \/ Goto(p, "insert")
           /\ UNCHANGED <<reservations, nextId, rid>>
  <2>1. UNCHANGED Ledger!ledgerVars
    BY <1>2, LedgerStutter DEF Goto, Inserted, TypeOK, HandlersOK
  <2> QED BY <2>1
<1>3. pc[p] \notin Inserted
  BY DEF VagueChoose, CheckSeats, Runs, Inserted
<1>4. CASE VagueChoose(p)
  BY <1>1, <1>2, <1>3, <1>4 DEF VagueChoose
<1>5. CASE CheckSeats(p)
  BY <1>1, <1>2, <1>3, <1>5 DEF CheckSeats, local
<1> QED BY <1>4, <1>5

LEMMA NextLedger ==
  TypeOK /\ LockInv /\ ChecksHold /\ [Next]_vars => [Ledger!LedgerNext]_(Ledger!ledgerVars)
<1> SUFFICES ASSUME TypeOK, LockInv, ChecksHold, [Next]_vars
             PROVE  [Ledger!LedgerNext]_(Ledger!ledgerVars)
  OBVIOUS
<1>1. CASE UNCHANGED vars
  <2>1. UNCHANGED Ledger!ledgerVars
    BY <1>1, LedgerStutter DEF vars, local
  <2> QED BY <2>1
<1>2. ASSUME NEW p \in Proc,
             \/ Abort(p) \/ LookupFails(p) \/ DeadlockVictim(p)
             \/ CommitReserveLost(p) \/ CancelCommitLost(p)
      PROVE  [Ledger!LedgerNext]_(Ledger!ledgerVars)
  BY <1>2, RollbackBurns, EndTxBurns DEF Abort, LookupFails, DeadlockVictim, CommitReserveLost, CancelCommitLost
<1> QED BY <1>1, <1>2, ReadersStutter, ChoosersStutterOrBurn, InsertIssues, CommitBooks, CancelReleases
        DEF Next, Advance

(* The handlers, with their reads outside the transaction, their locks and  *)
(* their aborted attempts, implement the ledger in every instance: a        *)
(* booking takes effect in one step, all of it or nothing, never onto a     *)
(* seat that is taken, and its number is never used again.                  *)
THEOREM BookingImplementsLedger == Spec => ImplementsLedger
<1>1. Init => Ledger!LedgerInit /\ ChecksHold
  <2> SUFFICES ASSUME Init  PROVE Ledger!LedgerInit /\ ChecksHold
    OBVIOUS
  <2>1. Booked = [i \in {} |-> {}]
    BY DEF Init, Booked
  <2>2. Undecided = {} /\ nextId - 1 = 0
    BY DEF Init, Undecided, Inserted
  <2>3. ChecksHold
    BY DEF Init, ChecksHold, CheckStaysValid, FreeTakesNoSeat, Inserted
  <2> QED BY <2>1, <2>2, <2>3 DEF Ledger!LedgerInit
<1>2. TypeOK /\ LockInv /\ ChecksHold /\ [Next]_vars => ChecksHold'
  BY NextChecks
<1>3. TypeOK /\ LockInv /\ ChecksHold /\ [Next]_vars => [Ledger!LedgerNext]_(Ledger!ledgerVars)
  BY NextLedger
<1> QED BY <1>1, <1>2, <1>3, Typing, Locking, PTL DEF Spec, ImplementsLedger, Ledger!LedgerSpec
=============================================================================
