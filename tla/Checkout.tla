------------------------------ MODULE Checkout ------------------------------
(***************************************************************************)
(* Payment and cancellation of reservations that exist: the commit and     *)
(* cancel handlers of the web application against two stores, the          *)
(* reservations table and the payment service.  No transaction spans both; *)
(* a call to the service is made inside an open transaction that has read  *)
(* the row with a plain SELECT, so without a lock.                         *)
(*                                                                         *)
(* A call whose handler gave up on it (connection lost, the 10 s timeout   *)
(* of a cancel) may still be executed by the service later: latePay,       *)
(* lateCancel.  Requests the handlers refuse before they change anything   *)
(* (not logged in, not the owner, no such row, already done) are no steps. *)
(***************************************************************************)
EXTENDS Integers, FiniteSets, FiniteSetsExt

CONSTANTS Proc,         \* request slots of the web application
          Resv,         \* reservations, all made and none paid at the start
          MaxPay        \* bound: POST /payment calls in one behaviour

ASSUME CheckoutAssumption == MaxPay \in Nat

VARIABLES
  rows,         \* function: reservation -> [status, pay], committed
  payments,     \* payment service: payment id -> [resv, canceled]
  pc,           \* where each slot is in its handler
  resv,         \* the reservation a slot works on
  pid,          \* payment id: read from the row (cancel) or the reply (commit)
  rowLock,      \* X lock on the slot's row, from UPDATE or DELETE to the end
  latePay,      \* POST calls given up and not executed (yet), by reservation
  lateCancel,   \* payment ids of DELETE calls given up and not executed (yet)
  paid,         \* reservations whose commit was answered 200
  canceled,     \* reservations whose cancel was answered "cancell complete"
  cancelAsked,  \* history: a cancel of the reservation has begun
  disturbed     \* history: a payment overlapped another request for the
                \* reservation, or it, or a COMMIT, failed half way

service == <<payments, latePay, lateCancel>>
answers == <<paid, canceled>>
history == <<cancelAsked, disturbed>>
local == <<resv, pid>>
vars == <<rows, service, pc, local, rowLock, answers, history>>

NoResv == "none"
Paying == {"post", "charged", "updated"}
Canceling == {"delete", "refunded", "remove", "removed"}

Goto(p, at) == pc' = [pc EXCEPT ![p] = at]
Others(p, i, at) == {q \in Proc \ {p} : pc[q] \in at /\ resv[q] = i}
LockFree(p) == \A q \in Proc \ {p} : ~(rowLock[q] /\ resv[q] = resv[p])
Disturb(S) == disturbed' = disturbed \cup S

(* COMMIT or ROLLBACK and return.                                          *)
EndTx(p) == /\ Goto(p, "idle")
            /\ resv' = [resv EXCEPT ![p] = NoResv]
            /\ pid' = [pid EXCEPT ![p] = 0]
            /\ rowLock' = [rowLock EXCEPT ![p] = FALSE]

NewId == Cardinality(DOMAIN payments) + 1
Charge(i) == payments' = [k \in DOMAIN payments \cup {NewId} |->
                            IF k = NewId THEN [resv |-> i, canceled |-> FALSE]
                                         ELSE payments[k]]
Refund(k) == payments' = [payments EXCEPT ![k].canceled = TRUE]

(* POST calls so far: executed, on their way, and given up.                *)
Posts == Cardinality(DOMAIN payments) + Cardinality({p \in Proc : pc[p] = "post"})
         + MapThenSumSet(LAMBDA i : latePay[i], Resv)

-----------------------------------------------------------------------------
(* The commit (payment) handler.                                           *)

NeverDone(i) == FALSE
AlreadyDone(i) == rows[i].status = "done"

(* BEGIN, plain SELECT; a row that is "done" is answered 403.              *)
PayFind(p, i) ==
  /\ pc[p] = "idle" /\ i \in DOMAIN rows
  /\ ~AlreadyDone(i)
  /\ Posts < MaxPay
  /\ Goto(p, "post")
  /\ resv' = [resv EXCEPT ![p] = i]
  /\ Disturb(IF Others(p, i, Paying \cup Canceling) = {} THEN {} ELSE {i})
  /\ UNCHANGED <<rows, service, pid, rowLock, answers, cancelAsked>>

(* The payment id in the reply.                                            *)
DropId(p) == UNCHANGED pid
KeepId(p) == pid' = [pid EXCEPT ![p] = NewId]

(* The service executes POST /payment: every call is a new payment.        *)
ServePay(p) ==
  /\ pc[p] = "post"
  /\ Charge(resv[p])
  /\ KeepId(p)
  /\ Goto(p, "charged")
  /\ UNCHANGED <<rows, resv, rowLock, latePay, lateCancel, answers, history>>

PayRefusedUnnoticed(p) ==
  /\ pc[p] = "post"
  /\ paid' = paid \cup {resv[p]}
  /\ EndTx(p)
  /\ UNCHANGED <<rows, service, canceled, history>>

(* Any answer but 200 (unknown card token): rolled back, nothing charged.  *)
PayRefused(p) ==
  /\ pc[p] = "post"
  /\ EndTx(p)
  /\ UNCHANGED <<rows, service, answers, history>>

(* The call fails or its answer is lost or unreadable, or the UPDATE fails *)
(* (lock wait timeout): rolled back, the payment is not taken back.        *)
PayGiveUp(p) ==
  /\ pc[p] \in {"post", "charged"}
  /\ latePay' = IF pc[p] = "post" THEN [latePay EXCEPT ![resv[p]] = @ + 1] ELSE latePay
  /\ Disturb({resv[p]})
  /\ EndTx(p)
  /\ UNCHANGED <<rows, payments, lateCancel, answers, cancelAsked>>

(* 200 with a body that does not parse: return with tx still open.         *)
PayLeak(p) ==
  /\ pc[p] = "charged"
  /\ Goto(p, "leaked")
  /\ Disturb({resv[p]})
  /\ UNCHANGED <<rows, service, local, rowLock, answers, cancelAsked>>

(* UPDATE reservations SET status, payment_id WHERE reservation_id: waits  *)
(* for the row lock, writes over whatever the row says by now; a row that  *)
(* is gone is 0 rows affected, which nobody looks at.                      *)
PayUpdate(p) ==
  /\ pc[p] = "charged" /\ LockFree(p)
  /\ rowLock' = [rowLock EXCEPT ![p] = resv[p] \in DOMAIN rows]
  /\ Goto(p, "updated")
  /\ UNCHANGED <<rows, service, local, answers, history>>

PaidRowWithoutId(p) == [status |-> "done", pay |-> 0]
PaidRow(p) == [status |-> "done", pay |-> pid[p]]

PayCommit(p) ==
  /\ pc[p] = "updated"
  /\ rows' = [i \in DOMAIN rows |-> IF i = resv[p] THEN PaidRow(p) ELSE rows[i]]
  /\ paid' = paid \cup {resv[p]}
  /\ EndTx(p)
  /\ UNCHANGED <<service, canceled, history>>

(* tx.Commit() fails; its error is dropped and the answer is still 200.    *)
PayCommitLost(p) ==
  /\ pc[p] = "updated"
  /\ paid' = paid \cup {resv[p]}
  /\ Disturb({resv[p]})
  /\ EndTx(p)
  /\ UNCHANGED <<rows, service, canceled, cancelAsked>>

-----------------------------------------------------------------------------
(* The cancel handler.                                                     *)

(* BEGIN, plain SELECT.  Only a row that is "done" has a payment to cancel. *)
CancelFind(p, i) ==
  /\ pc[p] = "idle" /\ i \in DOMAIN rows
  /\ resv' = [resv EXCEPT ![p] = i]
  /\ IF AlreadyDone(i)
     THEN Goto(p, "delete") /\ pid' = [pid EXCEPT ![p] = rows[i].pay]
     ELSE Goto(p, "remove") /\ UNCHANGED pid
  /\ cancelAsked' = cancelAsked \cup {i}
  /\ Disturb(IF Others(p, i, Paying) = {} THEN {} ELSE {i})
  /\ UNCHANGED <<rows, service, rowLock, answers>>

(* The service executes DELETE /payment/:id.                               *)
ServeCancel(p) ==
  /\ pc[p] = "delete"
  /\ Refund(pid[p])
  /\ Goto(p, "refunded")
  /\ UNCHANGED <<rows, local, rowLock, latePay, lateCancel, answers, history>>

(* Timeout, lost or unreadable answer, or a DELETE statement that fails:   *)
(* rolled back, the row stays; a canceled payment stays canceled.          *)
CancelGiveUp(p) ==
  /\ pc[p] \in Canceling
  /\ lateCancel' = IF pc[p] = "delete" THEN lateCancel \cup {pid[p]} ELSE lateCancel
  /\ EndTx(p)
  /\ UNCHANGED <<rows, payments, latePay, answers, history>>

CancelLeak(p) ==
  /\ pc[p] = "refunded"
  /\ Goto(p, "leaked")
  /\ UNCHANGED <<rows, service, local, rowLock, answers, history>>

RemovesUnrefunded == {"delete", "refunded", "remove"}
RemovesAt == {"refunded", "remove"}

(* DELETE FROM reservations (and then from seat_reservations): waits for   *)
(* the row lock, does not look at the status again.                        *)
CancelRemove(p) ==
  /\ pc[p] \in RemovesAt /\ LockFree(p)
  /\ rowLock' = [rowLock EXCEPT ![p] = resv[p] \in DOMAIN rows]
  /\ Goto(p, "removed")
  /\ UNCHANGED <<rows, service, local, answers, history>>

CancelCommit(p) ==
  /\ pc[p] = "removed"
  /\ rows' = [i \in DOMAIN rows \ {resv[p]} |-> rows[i]]
  /\ canceled' = canceled \cup {resv[p]}
  /\ EndTx(p)
  /\ UNCHANGED <<service, paid, history>>

CancelCommitLost(p) ==
  /\ pc[p] = "removed"
  /\ canceled' = canceled \cup {resv[p]}
  /\ Disturb({resv[p]})
  /\ EndTx(p)
  /\ UNCHANGED <<rows, service, paid, cancelAsked>>

-----------------------------------------------------------------------------
(* Calls the service gets to after their handler has returned.             *)

LatePay(i) ==
  /\ latePay[i] > 0
  /\ Charge(i)
  /\ latePay' = [latePay EXCEPT ![i] = @ - 1]
  /\ UNCHANGED <<rows, lateCancel, pc, local, rowLock, answers, history>>

LateCancel(k) ==
  /\ Refund(k)
  /\ lateCancel' = lateCancel \ {k}
  /\ UNCHANGED <<rows, latePay, pc, local, rowLock, answers, history>>

-----------------------------------------------------------------------------
Init ==
  /\ rows = [i \in Resv |-> [status |-> "requesting", pay |-> 0]]
  /\ payments = [k \in {} |-> {}]
  /\ pc = [p \in Proc |-> "idle"]
  /\ resv = [p \in Proc |-> NoResv]
  /\ pid = [p \in Proc |-> 0]
  /\ rowLock = [p \in Proc |-> FALSE]
  /\ latePay = [i \in Resv |-> 0] /\ lateCancel = {}
  /\ paid = {} /\ canceled = {}
  /\ cancelAsked = {} /\ disturbed = {}

(* What a slot and the service do for a request once it has arrived.       *)
Advance(p) == \/ ServePay(p) \/ PayUpdate(p) \/ PayCommit(p)
              \/ ServeCancel(p) \/ CancelRemove(p) \/ CancelCommit(p)

Next ==
  \/ \E p \in Proc :
       \/ \E i \in DOMAIN rows : PayFind(p, i) \/ CancelFind(p, i)
       \/ Advance(p)
       \/ PayRefused(p) \/ PayGiveUp(p) \/ PayLeak(p) \/ PayCommitLost(p)
       \/ CancelGiveUp(p) \/ CancelLeak(p) \/ CancelCommitLost(p)
  \/ \E i \in Resv : LatePay(i)
  \/ \E k \in lateCancel : LateCancel(k)

Spec == Init /\ [][Next]_vars

-----------------------------------------------------------------------------
(* Properties.                                                             *)

PayIds == DOMAIN payments
RowType == [status : {"requesting"}, pay : {0}] \cup [status : {"done"}, pay : PayIds]

(* Type correctness; a slot's payment id, and a row's, is one the service   *)
(* has given out.                                                          *)
TypeOK ==
  /\ DOMAIN rows \subseteq Resv /\ rows \in [DOMAIN rows -> RowType]
  /\ PayIds = 1 .. Cardinality(PayIds) /\ Cardinality(PayIds) \in Nat
  /\ payments \in [PayIds -> [resv : Resv, canceled : BOOLEAN]]
  /\ pc \in [Proc -> Paying \cup Canceling \cup {"idle", "leaked"}]
  /\ resv \in [Proc -> Resv \cup {NoResv}]
  /\ pid \in [Proc -> PayIds \cup {0}]
  /\ rowLock \in [Proc -> BOOLEAN]
  /\ latePay \in [Resv -> Nat] /\ lateCancel \subseteq PayIds
  /\ paid \subseteq Resv /\ canceled \subseteq Resv
  /\ cancelAsked \subseteq Resv /\ disturbed \subseteq Resv
  /\ \A p \in Proc : /\ pc[p] \in Paying \cup Canceling => resv[p] \in Resv
                     /\ pc[p] \in {"charged", "updated", "delete"} => pid[p] \in PayIds

(* The payments of a reservation that have not been canceled.              *)
Live(i) == {k \in PayIds : payments[k].resv = i /\ ~payments[k].canceled}

(* A row that says "done" names a payment of this very reservation, live   *)
(* as long as no cancel of it was asked for: lost replies, late calls and  *)
(* double commits included.                                                *)
DoneIsCharged ==
  \A i \in DOMAIN rows : rows[i].status = "done" =>
    /\ rows[i].pay \in PayIds
    /\ payments[rows[i].pay].resv = i
    /\ i \notin cancelAsked => ~payments[rows[i].pay].canceled

(* What the final check of the benchmark asks of committed reservations    *)
(* (bench/scenario/core_finalcheck.go): a commit answered 200 has a live   *)
(* payment, unless a cancel was asked for.                                 *)
PaidHasLivePayment == \A i \in paid \ cancelAsked : Live(i) # {}

(* What it asks of canceled ones, for every reservation whose payment ran  *)
(* alone and to its end: a confirmed cancel leaves no live payment, however *)
(* many cancels overlapped, timed out, leaked or were executed late.       *)
RefundedWhenCanceled == \A i \in canceled \ disturbed : Live(i) = {}

(* The row and the service agree on every reservation that nothing has     *)
(* disturbed and that nobody is paying right now: an unpaid one has not    *)
(* been charged, a paid one by no payment but its own.                     *)
ChargedAsRecorded ==
  \A i \in DOMAIN rows \ disturbed :
    (\A p \in Proc : pc[p] \in Paying => resv[p] # i) =>
      Live(i) \subseteq (IF rows[i].status = "done" THEN {rows[i].pay} ELSE {})

(* No request for the reservation is under way, in a handler or a call.     *)
Quiet(i) ==
  /\ \A p \in Proc : pc[p] \in Paying \cup Canceling => resv[p] # i
  /\ latePay[i] = 0
  /\ \A k \in lateCancel : payments[k].resv # i

(* The final check's demand on canceled reservations without the proviso:   *)
(* once everything has come to rest they have no live payment.             *)
CanceledIsRefunded == \A i \in canceled : Quiet(i) => Live(i) = {}

(* A reservation that has been paid is not charged again: at rest it has at *)
(* most one live payment (the 403 "既に支払いが完了している予約IDです").   *)
ChargedAtMostOnce == \A i \in Resv : Quiet(i) => Cardinality(Live(i)) <= 1
=============================================================================
