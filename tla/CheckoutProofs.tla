--------------------------- MODULE CheckoutProofs ---------------------------
(***************************************************************************)
(* Proofs about Checkout for every number of slots, reservations and calls. *)
(***************************************************************************)
EXTENDS Checkout, FiniteSetTheorems, TLAPS

-----------------------------------------------------------------------------
(* Type correctness.                                                       *)

(* A new payment id is the next number.                                    *)
LEMMA ChargeIds ==
  ASSUME TypeOK, NEW i \in Resv, Charge(i)
  PROVE  /\ NewId \in Nat \ {0} /\ NewId \notin PayIds
         /\ PayIds' = PayIds \cup {NewId}
         /\ PayIds' = 1 .. Cardinality(PayIds') /\ Cardinality(PayIds') \in Nat
         /\ payments'[NewId] = [resv |-> i, canceled |-> FALSE]
         /\ \A k \in PayIds : payments'[k] = payments[k]
         /\ payments' \in [PayIds' -> [resv : Resv, canceled : BOOLEAN]]
<1> DEFINE n == Cardinality(PayIds)
<1>1. n \in Nat /\ PayIds = 1 .. n /\ NewId = n + 1
  BY DEF TypeOK, NewId, PayIds
<1>2. PayIds' = PayIds \cup {NewId}
  BY DEF Charge, PayIds
<1>3. PayIds' = 1 .. (n + 1)
  BY <1>1, <1>2
<1>4. Cardinality(1 .. (n + 1)) = n + 1
  BY <1>1, FS_Interval
<1>5. Cardinality(PayIds') = n + 1
  BY <1>3, <1>4
<1>6. NewId \notin PayIds
  BY <1>1
<1>7. /\ payments'[NewId] = [resv |-> i, canceled |-> FALSE]
      /\ \A k \in PayIds : payments'[k] = payments[k]
  BY <1>6 DEF Charge, PayIds
<1>8. payments' \in [PayIds' -> [resv : Resv, canceled : BOOLEAN]]
  BY <1>2, <1>7 DEF Charge, PayIds, TypeOK
<1> QED BY <1>1, <1>2, <1>3, <1>5, <1>6, <1>7, <1>8

LEMMA RefundIds ==
  ASSUME TypeOK, NEW k \in PayIds, Refund(k)
  PROVE  /\ PayIds' = PayIds
         /\ \A j \in PayIds : payments'[j].resv = payments[j].resv
         /\ payments'[k].canceled
         /\ \A j \in PayIds \ {k} : payments'[j] = payments[j]
         /\ payments' \in [PayIds' -> [resv : Resv, canceled : BOOLEAN]]
<1>1. payments \in [PayIds -> [resv : Resv, canceled : BOOLEAN]]
  BY DEF TypeOK
<1> DEFINE old == payments[k]
           new == [old EXCEPT !.canceled = TRUE]
<1>2. payments' = [payments EXCEPT ![k] = new]
  BY DEF Refund
<1>3. old \in [resv : Resv, canceled : BOOLEAN]
  BY <1>1
<1> HIDE DEF old
<1>4. new \in [resv : Resv, canceled : BOOLEAN] /\ new.resv = old.resv /\ new.canceled
  BY <1>3
<1> HIDE DEF new
<1>5. PayIds' = PayIds
  BY <1>1, <1>2 DEF PayIds
<1>6. payments'[k] = new /\ \A j \in PayIds \ {k} : payments'[j] = payments[j]
  BY <1>1, <1>2
<1>7. payments' \in [PayIds -> [resv : Resv, canceled : BOOLEAN]]
  BY <1>1, <1>2, <1>4
<1> QED BY <1>4, <1>5, <1>6, <1>7 DEF old

(* The part of the type invariant that is about the slots.                 *)
SlotsOK ==
  /\ pc \in [Proc -> Paying \cup Canceling \cup {"idle", "leaked"}]
  /\ resv \in [Proc -> Resv \cup {NoResv}]
  /\ pid \in [Proc -> PayIds \cup {0}]
  /\ rowLock \in [Proc -> BOOLEAN]
  /\ \A p \in Proc : /\ pc[p] \in Paying \cup Canceling => resv[p] \in Resv
                     /\ pc[p] \in {"charged", "updated", "delete"} => pid[p] \in PayIds
StoresOK ==
  /\ DOMAIN rows \subseteq Resv /\ rows \in [DOMAIN rows -> RowType]
  /\ PayIds = 1 .. Cardinality(PayIds) /\ Cardinality(PayIds) \in Nat
  /\ payments \in [PayIds -> [resv : Resv, canceled : BOOLEAN]]
  /\ latePay \in [Resv -> Nat] /\ lateCancel \subseteq PayIds
  /\ paid \subseteq Resv /\ canceled \subseteq Resv
  /\ cancelAsked \subseteq Resv /\ disturbed \subseteq Resv

LEMMA TypeParts ==
  /\ TypeOK <=> SlotsOK /\ StoresOK
  /\ TypeOK' <=> SlotsOK' /\ StoresOK'
<1>1. TypeOK <=> SlotsOK /\ StoresOK
  BY DEF TypeOK, SlotsOK, StoresOK
<1>2. TypeOK' <=> SlotsOK' /\ StoresOK'
  BY DEF TypeOK, SlotsOK, StoresOK
<1> QED BY <1>1, <1>2

LEMMA EndTxSlots ==
  ASSUME SlotsOK, NEW p \in Proc, EndTx(p), UNCHANGED payments
  PROVE  SlotsOK'
  BY DEF SlotsOK, EndTx, Goto, Paying, Canceling, PayIds

LEMMA PayType ==
  ASSUME TypeOK, NEW p \in Proc,
         \/ \E i \in DOMAIN rows : PayFind(p, i)
         \/ ServePay(p) \/ PayRefused(p) \/ PayGiveUp(p) \/ PayLeak(p) \/ PayUpdate(p)
         \/ PayCommit(p) \/ PayCommitLost(p)
  PROVE  TypeOK'
<1> USE DEF Goto, Paying, Canceling, Disturb, service, answers, history, local
<1>0. SlotsOK /\ StoresOK
  BY TypeParts
<1>1. ASSUME NEW i \in DOMAIN rows, PayFind(p, i)  PROVE TypeOK'
  <2>1. StoresOK' /\ SlotsOK'
    BY <1>0, <1>1 DEF PayFind, StoresOK, SlotsOK, RowType, PayIds
  <2> QED BY <2>1, TypeParts
<1>2. CASE ServePay(p)
  <2>1. resv[p] \in Resv /\ Charge(resv[p])
    BY <1>0, <1>2 DEF ServePay, SlotsOK
  <2>2. StoresOK'
    BY <1>0, <1>2, <2>1, ChargeIds DEF ServePay, StoresOK, RowType
  <2>3. SlotsOK'
    BY <1>0, <1>2, <2>1, ChargeIds DEF ServePay, SlotsOK, KeepId
  <2> QED BY <2>2, <2>3, TypeParts
<1>3. CASE PayRefused(p)
  <2>1. StoresOK'
    BY <1>0, <1>3 DEF PayRefused, StoresOK, RowType, PayIds
  <2> QED BY <1>0, <1>3, <2>1, EndTxSlots, TypeParts DEF PayRefused
<1>4. CASE PayGiveUp(p)
  <2>1. resv[p] \in Resv
    BY <1>0, <1>4 DEF PayGiveUp, SlotsOK
  <2>2. StoresOK'
    BY <1>0, <1>4, <2>1 DEF PayGiveUp, StoresOK, RowType, PayIds
  <2> QED BY <1>0, <1>4, <2>2, EndTxSlots, TypeParts DEF PayGiveUp
<1>5. CASE PayLeak(p)
  <2>1. StoresOK' /\ SlotsOK'
    BY <1>0, <1>5 DEF PayLeak, StoresOK, SlotsOK, RowType, PayIds
  <2> QED BY <2>1, TypeParts
<1>6. CASE PayUpdate(p)
  <2>1. StoresOK' /\ SlotsOK'
    BY <1>0, <1>6 DEF PayUpdate, StoresOK, SlotsOK, RowType, PayIds
  <2> QED BY <2>1, TypeParts
<1>7. CASE PayCommit(p)
  <2>1. resv[p] \in Resv /\ pid[p] \in PayIds
    BY <1>0, <1>7 DEF PayCommit, SlotsOK
  <2>2. StoresOK'
    BY <1>0, <1>7, <2>1 DEF PayCommit, PaidRow, StoresOK, RowType, PayIds
  <2> QED BY <1>0, <1>7, <2>2, EndTxSlots, TypeParts DEF PayCommit
<1>8. CASE PayCommitLost(p)
  <2>1. StoresOK'
    BY <1>0, <1>8 DEF PayCommitLost, SlotsOK, StoresOK, RowType, PayIds
  <2> QED BY <1>0, <1>8, <2>1, EndTxSlots, TypeParts DEF PayCommitLost
<1> QED BY <1>1, <1>2, <1>3, <1>4, <1>5, <1>6, <1>7, <1>8

LEMMA CancelType ==
  ASSUME TypeOK, NEW p \in Proc,
         \/ \E i \in DOMAIN rows : CancelFind(p, i)
         \/ ServeCancel(p) \/ CancelGiveUp(p) \/ CancelLeak(p) \/ CancelRemove(p)
         \/ CancelCommit(p) \/ CancelCommitLost(p)
  PROVE  TypeOK'
<1> USE DEF Goto, Paying, Canceling, Disturb, service, answers, history, local
<1>0. SlotsOK /\ StoresOK
  BY TypeParts
<1>1. ASSUME NEW i \in DOMAIN rows, CancelFind(p, i)  PROVE TypeOK'
  <2>1. StoresOK'
    BY <1>0, <1>1 DEF CancelFind, StoresOK, RowType, PayIds
  <2>2. CASE AlreadyDone(i)
    <3>1. rows[i].pay \in PayIds
      BY <1>0, <2>2 DEF AlreadyDone, StoresOK, RowType
    <3>2. SlotsOK'
      BY <1>0, <1>1, <2>2, <3>1 DEF CancelFind, SlotsOK, StoresOK, PayIds
    <3> QED BY <2>1, <3>2, TypeParts
  <2>3. CASE ~AlreadyDone(i)
    BY <1>0, <1>1, <2>1, <2>3, TypeParts DEF CancelFind, SlotsOK, StoresOK, RowType, PayIds
  <2> QED BY <2>2, <2>3
<1>2. CASE ServeCancel(p)
  <2>1. pid[p] \in PayIds /\ Refund(pid[p])
    BY <1>0, <1>2 DEF ServeCancel, SlotsOK
  <2>2. StoresOK'
    BY <1>0, <1>2, <2>1, RefundIds DEF ServeCancel, StoresOK, RowType
  <2>3. SlotsOK'
    BY <1>0, <1>2, <2>1, RefundIds DEF ServeCancel, SlotsOK
  <2> QED BY <2>2, <2>3, TypeParts
<1>3. CASE CancelGiveUp(p)
  <2>1. StoresOK'
    BY <1>0, <1>3 DEF CancelGiveUp, SlotsOK, StoresOK, RowType, PayIds
  <2> QED BY <1>0, <1>3, <2>1, EndTxSlots, TypeParts DEF CancelGiveUp
<1>4. CASE CancelLeak(p) \/ CancelRemove(p)
  <2>1. StoresOK'
    BY <1>0, <1>4 DEF CancelLeak, CancelRemove, StoresOK, RowType, PayIds
  <2>2. CASE CancelLeak(p)
    BY <1>0, <2>1, <2>2, TypeParts DEF CancelLeak, SlotsOK, PayIds
  <2>3. CASE CancelRemove(p)
    <3> DEFINE there == resv[p] \in DOMAIN rows
    <3>1. there \in BOOLEAN /\ rowLock' = [rowLock EXCEPT ![p] = there]
      BY <2>3 DEF CancelRemove
    <3> HIDE DEF there
    <3>2. rowLock' \in [Proc -> BOOLEAN]
      BY <1>0, <3>1 DEF SlotsOK
    <3>3. /\ pc[p] \in {"refunded", "remove"} /\ pc' = [pc EXCEPT ![p] = "removed"]
          /\ UNCHANGED <<resv, pid, payments>>
      BY <2>3 DEF CancelRemove, RemovesAt
    <3>4. SlotsOK'
      BY <1>0, <3>2, <3>3 DEF SlotsOK, PayIds
    <3> QED BY <2>1, <3>4, TypeParts
  <2> QED BY <1>4, <2>2, <2>3
<1>5. CASE CancelCommit(p)
  <2>1. StoresOK'
    BY <1>0, <1>5 DEF CancelCommit, SlotsOK, StoresOK, RowType, PayIds
  <2> QED BY <1>0, <1>5, <2>1, EndTxSlots, TypeParts DEF CancelCommit
<1>6. CASE CancelCommitLost(p)
  <2>1. StoresOK'
    BY <1>0, <1>6 DEF CancelCommitLost, SlotsOK, StoresOK, RowType, PayIds
  <2> QED BY <1>0, <1>6, <2>1, EndTxSlots, TypeParts DEF CancelCommitLost
<1> QED BY <1>1, <1>2, <1>3, <1>4, <1>5, <1>6

LEMMA LateType ==
  ASSUME TypeOK,
         (\E i \in Resv : LatePay(i)) \/ (\E k \in lateCancel : LateCancel(k))
  PROVE  TypeOK'
<1>0. SlotsOK /\ StoresOK
  BY TypeParts
<1>1. ASSUME NEW i \in Resv, LatePay(i)  PROVE TypeOK'
  <2>1. Charge(i)
    BY <1>1 DEF LatePay
  <2>4. latePay' \in [Resv -> Nat] /\ lateCancel' \subseteq PayIds'
    <3>1. latePay[i] \in Nat /\ latePay[i] > 0
      BY <1>0, <1>1 DEF LatePay, StoresOK
    <3>2. latePay[i] - 1 \in Nat
      BY <3>1
    <3> QED BY <1>0, <1>1, <2>1, <3>2, ChargeIds DEF LatePay, StoresOK
  <2>5. DOMAIN rows' \subseteq Resv /\ rows' \in [DOMAIN rows' -> RowType']
    BY <1>0, <1>1, <2>1, ChargeIds DEF LatePay, StoresOK, RowType
  <2>2. StoresOK'
    BY <1>0, <1>1, <2>1, <2>4, <2>5, ChargeIds DEF LatePay, StoresOK, answers, history
  <2>3. SlotsOK'
    BY <1>0, <1>1, <2>1, ChargeIds DEF LatePay, SlotsOK, local
  <2> QED BY <2>2, <2>3, TypeParts
<1>2. ASSUME NEW k \in lateCancel, LateCancel(k)  PROVE TypeOK'
  <2>1. k \in PayIds /\ Refund(k)
    BY <1>0, <1>2 DEF LateCancel, StoresOK
  <2>2. StoresOK'
    BY <1>0, <1>2, <2>1, RefundIds DEF LateCancel, StoresOK, RowType, answers, history
  <2>3. SlotsOK'
    BY <1>0, <1>2, <2>1, RefundIds DEF LateCancel, SlotsOK, local
  <2> QED BY <2>2, <2>3, TypeParts
<1> QED BY <1>1, <1>2

LEMMA InitType == Init => TypeOK
<1> SUFFICES ASSUME Init  PROVE TypeOK
  OBVIOUS
<1>1. PayIds = {}
  BY DEF Init, PayIds
<1>2. Cardinality(PayIds) = 0
  BY <1>1, FS_EmptySet
<1>3. PayIds = 1 .. Cardinality(PayIds) /\ Cardinality(PayIds) \in Nat
  BY <1>1, <1>2
<1> QED BY <1>1, <1>3 DEF Init, TypeOK, RowType, Paying, Canceling, NoResv

LEMMA NextType == TypeOK /\ [Next]_vars => TypeOK'
<1> SUFFICES ASSUME TypeOK, [Next]_vars  PROVE TypeOK'
  OBVIOUS
<1>1. CASE UNCHANGED vars
  BY <1>1 DEF vars, service, local, answers, history, TypeOK, RowType, PayIds
<1> QED BY <1>1, PayType, CancelType, LateType DEF Next, Advance

(* Rows, payments and the slots' locals stay well typed; no payment id is   *)
(* used that the service has not given out.                                *)
THEOREM Typing == Spec => []TypeOK
<1> QED BY InitType, NextType, PTL DEF Spec

-----------------------------------------------------------------------------
(* What the books say whatever fails or overlaps.                          *)

(* Payments are canceled only on request; a slot's payment id and a paid    *)
(* row's belong to its reservation; a commit answered 200 was charged.     *)
RefundsAsked ==
  /\ \A k \in PayIds : payments[k].canceled => payments[k].resv \in cancelAsked
  /\ \A k \in lateCancel : payments[k].resv \in cancelAsked
  /\ \A p \in Proc : pc[p] \in Canceling => resv[p] \in cancelAsked
IdsMatch ==
  /\ \A p \in Proc : pc[p] \in {"charged", "updated", "delete"} =>
                       payments[pid[p]].resv = resv[p]
  /\ \A i \in DOMAIN rows : rows[i].status = "done" => payments[rows[i].pay].resv = i
  /\ \A i \in paid : \E k \in PayIds : payments[k].resv = i
Books == RefundsAsked /\ IdsMatch

(* A call to the service at most adds payments.                            *)
Served ==
  /\ PayIds \subseteq PayIds'
  /\ \A k \in PayIds : payments'[k].resv = payments[k].resv

LEMMA ServedByCalls ==
  ASSUME TypeOK
  PROVE  /\ \A i \in Resv : Charge(i) => Served
         /\ \A k \in PayIds : Refund(k) => Served
         /\ UNCHANGED payments => Served
<1>1. ASSUME NEW i \in Resv, Charge(i)  PROVE Served
  BY <1>1, ChargeIds DEF Served
<1>2. ASSUME NEW k \in PayIds, Refund(k)  PROVE Served
  BY <1>2, RefundIds DEF Served
<1>3. UNCHANGED payments => Served
  BY DEF Served, PayIds
<1> QED BY <1>1, <1>2, <1>3

(* A step of p that leaves the service alone keeps what refunds rest on.    *)
LEMMA RefundsFrame ==
  ASSUME TypeOK, RefundsAsked, NEW p \in Proc, UNCHANGED payments,
         cancelAsked \subseteq cancelAsked',
         pc'[p] \in Canceling => resv'[p] \in cancelAsked',
         \A q \in Proc \ {p} : pc'[q] = pc[q] /\ resv'[q] = resv[q],
         \A k \in lateCancel' : payments[k].resv \in cancelAsked
  PROVE  RefundsAsked'
  BY DEF RefundsAsked, PayIds

(* A step of p that keeps its payment id and the rows keeps the match.      *)
LEMMA MatchFrame ==
  ASSUME TypeOK, IdsMatch, NEW p \in Proc, Served, UNCHANGED rows,
         pc'[p] \in {"charged", "updated", "delete"} => payments'[pid'[p]].resv = resv'[p],
         \A q \in Proc \ {p} : pc'[q] = pc[q] /\ resv'[q] = resv[q] /\ pid'[q] = pid[q],
         \A i \in paid' \ paid : \E k \in PayIds : payments[k].resv = i
  PROVE  IdsMatch'
<1>1. \A q \in Proc : pc'[q] \in {"charged", "updated", "delete"} => payments'[pid'[q]].resv = resv'[q]
  <2> SUFFICES ASSUME NEW q \in Proc \ {p}, pc[q] \in {"charged", "updated", "delete"}
               PROVE  payments'[pid[q]].resv = resv[q]
    OBVIOUS
  <2>1. pid[q] \in PayIds
    BY DEF TypeOK
  <2> QED BY <2>1 DEF IdsMatch, Served
<1>2. \A i \in DOMAIN rows' : rows'[i].status = "done" => payments'[rows'[i].pay].resv = i
  BY DEF IdsMatch, Served, TypeOK, RowType
<1>3. \A i \in paid' : \E k \in PayIds' : payments'[k].resv = i
  BY DEF IdsMatch, Served
<1> QED BY <1>1, <1>2, <1>3 DEF IdsMatch

(* The effect of a step of p on the other slots.                           *)
OthersStay(p) ==
  \A q \in Proc \ {p} : pc'[q] = pc[q] /\ resv'[q] = resv[q] /\ pid'[q] = pid[q]

LEMMA EndTxBooks ==
  ASSUME TypeOK, NEW p \in Proc, EndTx(p)
  PROVE  pc'[p] = "idle" /\ OthersStay(p)
  BY DEF TypeOK, EndTx, Goto, OthersStay

LEMMA PayBooks ==
  ASSUME TypeOK, Books, NEW p \in Proc,
         \/ \E i \in DOMAIN rows : PayFind(p, i)
         \/ ServePay(p) \/ PayRefused(p) \/ PayGiveUp(p) \/ PayLeak(p) \/ PayUpdate(p)
         \/ PayCommit(p) \/ PayCommitLost(p)
  PROVE  Books'
<1> USE DEF Books, Goto, Canceling, OthersStay, service, answers, history, local
<1>1. ASSUME NEW i \in DOMAIN rows, PayFind(p, i)  PROVE Books'
  <2>1. /\ pc'[p] = "post" /\ OthersStay(p) /\ Served
        /\ UNCHANGED <<rows, payments, lateCancel, paid, cancelAsked>>
    BY <1>1, ServedByCalls DEF PayFind, TypeOK
  <2> QED BY <2>1, RefundsFrame, MatchFrame DEF RefundsAsked
<1>2. CASE ServePay(p)
  <2>1. resv[p] \in Resv /\ Charge(resv[p])
    BY <1>2 DEF ServePay, TypeOK, Paying
  <2>2. /\ pc'[p] = "charged" /\ pid'[p] = NewId /\ resv'[p] = resv[p] /\ OthersStay(p)
        /\ UNCHANGED <<rows, lateCancel, paid, cancelAsked>>
    BY <1>2 DEF ServePay, KeepId, TypeOK
  <2>8. /\ payments'[NewId] = [resv |-> resv[p], canceled |-> FALSE]
        /\ PayIds' = PayIds \cup {NewId} /\ \A k \in PayIds : payments'[k] = payments[k]
    BY <2>1, ChargeIds
  <2>3. payments'[NewId].resv = resv[p] /\ ~payments'[NewId].canceled /\ Served
    BY <2>1, <2>8, ServedByCalls
  <2>4. IdsMatch'
    BY <2>2, <2>3, MatchFrame
  <2>5. \A k \in PayIds' : payments'[k].canceled => payments'[k].resv \in cancelAsked
    <3> SUFFICES ASSUME NEW k \in PayIds', payments'[k].canceled
                 PROVE  payments'[k].resv \in cancelAsked
      OBVIOUS
    <3>1. k # NewId
      BY <2>3
    <3>2. k \in PayIds /\ payments'[k] = payments[k]
      BY <2>8, <3>1
    <3> QED BY <3>2 DEF RefundsAsked
  <2>6. \A k \in lateCancel' : payments'[k].resv \in cancelAsked
    BY <2>2, <2>3 DEF RefundsAsked, Served, TypeOK
  <2>7. \A q \in Proc : pc'[q] \in Canceling => resv'[q] \in cancelAsked
    BY <2>2 DEF RefundsAsked
  <2> QED BY <2>2, <2>4, <2>5, <2>6, <2>7 DEF RefundsAsked
<1>3. CASE PayRefused(p) \/ PayGiveUp(p)
  <2>1. /\ pc'[p] = "idle" /\ OthersStay(p) /\ Served
        /\ UNCHANGED <<rows, payments, lateCancel, paid, cancelAsked>>
    BY <1>3, EndTxBooks, ServedByCalls DEF PayRefused, PayGiveUp
  <2> QED BY <2>1, RefundsFrame, MatchFrame DEF RefundsAsked
<1>4. CASE PayLeak(p)
  <2>1. /\ pc'[p] = "leaked" /\ OthersStay(p) /\ Served
        /\ UNCHANGED <<rows, payments, lateCancel, paid, cancelAsked>>
    BY <1>4, ServedByCalls DEF PayLeak, TypeOK
  <2> QED BY <2>1, RefundsFrame, MatchFrame DEF RefundsAsked
<1>5. CASE PayUpdate(p)
  <2>1. /\ pc[p] = "charged" /\ pc'[p] = "updated" /\ OthersStay(p) /\ Served
        /\ UNCHANGED <<rows, payments, lateCancel, paid, cancelAsked, resv, pid>>
    BY <1>5, ServedByCalls DEF PayUpdate, TypeOK
  <2>2. payments'[pid'[p]].resv = resv'[p]
    BY <2>1 DEF IdsMatch
  <2> QED BY <2>1, <2>2, RefundsFrame, MatchFrame DEF RefundsAsked
<1>6. CASE PayCommit(p) \/ PayCommitLost(p)
  <2>1. /\ pc[p] = "updated" /\ pc'[p] = "idle" /\ OthersStay(p) /\ Served
        /\ paid' = paid \cup {resv[p]}
        /\ UNCHANGED <<payments, lateCancel, cancelAsked>>
    BY <1>6, EndTxBooks, ServedByCalls DEF PayCommit, PayCommitLost
  <2>2. pid[p] \in PayIds /\ payments[pid[p]].resv = resv[p]
    BY <2>1 DEF IdsMatch, TypeOK
  <2>3. RefundsAsked'
    BY <2>1, RefundsFrame DEF RefundsAsked
  <2>4. CASE PayCommitLost(p)
    <3>1. UNCHANGED rows
      BY <2>4 DEF PayCommitLost
    <3> QED BY <2>1, <2>2, <2>3, <3>1, MatchFrame
  <2>5. CASE PayCommit(p)
    <3>1. \A i \in DOMAIN rows' : rows'[i].status = "done" => payments'[rows'[i].pay].resv = i
      BY <2>1, <2>2, <2>5 DEF PayCommit, PaidRow, IdsMatch
    <3>2. \A i \in paid' : \E k \in PayIds' : payments'[k].resv = i
      BY <2>1, <2>2 DEF IdsMatch, PayIds
    <3>3. \A q \in Proc : pc'[q] \in {"charged", "updated", "delete"} => payments'[pid'[q]].resv = resv'[q]
      BY <2>1 DEF IdsMatch
    <3> QED BY <2>3, <3>1, <3>2, <3>3 DEF IdsMatch
  <2> QED BY <1>6, <2>4, <2>5
<1> QED BY <1>1, <1>2, <1>3, <1>4, <1>5, <1>6

LEMMA RefundBooks ==
  ASSUME TypeOK, Books, NEW k \in PayIds, Refund(k), payments[k].resv \in cancelAsked,
         UNCHANGED cancelAsked, lateCancel' \subseteq lateCancel
  PROVE  /\ \A j \in PayIds' : payments'[j].canceled => payments'[j].resv \in cancelAsked'
         /\ \A j \in lateCancel' : payments'[j].resv \in cancelAsked'
<1>1. ASSUME NEW j \in PayIds', payments'[j].canceled  PROVE payments'[j].resv \in cancelAsked
  <2>1. j \in PayIds /\ payments'[j].resv = payments[j].resv
    BY RefundIds
  <2>2. CASE j = k
    BY <2>1, <2>2
  <2>3. CASE j # k
    <3>1. payments'[j] = payments[j]
      BY <2>1, <2>3, RefundIds
    <3> QED BY <1>1, <2>1, <3>1 DEF Books, RefundsAsked
  <2> QED BY <2>2, <2>3
<1>2. ASSUME NEW j \in lateCancel'  PROVE payments'[j].resv \in cancelAsked
  <2>1. j \in lateCancel /\ j \in PayIds
    BY DEF TypeOK
  <2> QED BY <2>1, RefundIds DEF Books, RefundsAsked
<1> QED BY <1>1, <1>2

LEMMA CancelBooks ==
  ASSUME TypeOK, Books, NEW p \in Proc,
         \/ \E i \in DOMAIN rows : CancelFind(p, i)
         \/ ServeCancel(p) \/ CancelGiveUp(p) \/ CancelLeak(p) \/ CancelRemove(p)
         \/ CancelCommit(p) \/ CancelCommitLost(p)
  PROVE  Books'
<1> USE DEF Books, Goto, Canceling, OthersStay, service, answers, history, local
<1>1. ASSUME NEW i \in DOMAIN rows, CancelFind(p, i)  PROVE Books'
  <2>1. /\ pc'[p] \in {"delete", "remove"} /\ resv'[p] = i /\ OthersStay(p) /\ Served
        /\ pc'[p] = "delete" => rows[i].status = "done" /\ pid'[p] = rows[i].pay
        /\ cancelAsked' = cancelAsked \cup {i}
        /\ UNCHANGED <<rows, payments, lateCancel, paid>>
    <3>1. Served
      BY <1>1, ServedByCalls DEF CancelFind
    <3>2. CASE AlreadyDone(i)
      BY <1>1, <3>1, <3>2 DEF CancelFind, TypeOK, AlreadyDone
    <3>3. CASE ~AlreadyDone(i)
      BY <1>1, <3>1, <3>3 DEF CancelFind, TypeOK
    <3> QED BY <3>2, <3>3
  <2>2. pc'[p] = "delete" => payments'[pid'[p]].resv = resv'[p]
    BY <2>1 DEF IdsMatch
  <2>3. RefundsAsked'
    BY <2>1, RefundsFrame DEF RefundsAsked
  <2>4. IdsMatch'
    BY <2>1, <2>2, MatchFrame
  <2> QED BY <2>3, <2>4
<1>2. CASE ServeCancel(p)
  <2>1. pid[p] \in PayIds /\ Refund(pid[p])
    BY <1>2 DEF ServeCancel, TypeOK
  <2>2. /\ pc[p] = "delete" /\ pc'[p] = "refunded" /\ resv'[p] = resv[p] /\ OthersStay(p)
        /\ Served /\ UNCHANGED <<rows, lateCancel, paid, cancelAsked>>
    BY <1>2, <2>1, ServedByCalls DEF ServeCancel, TypeOK
  <2>3. payments[pid[p]].resv = resv[p] /\ resv[p] \in cancelAsked
    BY <2>2 DEF IdsMatch, RefundsAsked
  <2>4. IdsMatch'
    BY <2>2, MatchFrame
  <2>5. RefundsAsked'
    BY <2>1, <2>2, <2>3, RefundBooks DEF RefundsAsked
  <2> QED BY <2>4, <2>5
<1>3. CASE CancelGiveUp(p)
  <2>1. /\ pc'[p] = "idle" /\ OthersStay(p) /\ Served
        /\ UNCHANGED <<rows, payments, paid, cancelAsked>>
        /\ pc[p] \in Canceling
        /\ lateCancel' = IF pc[p] = "delete" THEN lateCancel \cup {pid[p]} ELSE lateCancel
    BY <1>3, EndTxBooks, ServedByCalls DEF CancelGiveUp
  <2>2. pc[p] = "delete" => payments[pid[p]].resv \in cancelAsked
    BY <2>1 DEF IdsMatch, RefundsAsked
  <2>3. \A k \in lateCancel' : payments[k].resv \in cancelAsked
    BY <2>1, <2>2 DEF RefundsAsked
  <2> QED BY <2>1, <2>3, RefundsFrame, MatchFrame
<1>4. CASE CancelLeak(p) \/ CancelRemove(p)
  <2>1. /\ pc[p] \in Canceling /\ pc'[p] \in {"leaked", "removed"} /\ OthersStay(p) /\ Served
        /\ UNCHANGED <<rows, payments, lateCancel, paid, cancelAsked, resv>>
    BY <1>4, ServedByCalls DEF CancelLeak, CancelRemove, RemovesAt, TypeOK
  <2> QED BY <2>1, RefundsFrame, MatchFrame DEF RefundsAsked
<1>5. CASE CancelCommit(p) \/ CancelCommitLost(p)
  <2>1. /\ pc'[p] = "idle" /\ OthersStay(p) /\ Served
        /\ UNCHANGED <<payments, lateCancel, paid, cancelAsked>>
        /\ DOMAIN rows' \subseteq DOMAIN rows
        /\ \A i \in DOMAIN rows' : rows'[i] = rows[i]
    BY <1>5, EndTxBooks, ServedByCalls DEF CancelCommit, CancelCommitLost
  <2>2. RefundsAsked'
    BY <2>1, RefundsFrame DEF RefundsAsked
  <2>3. IdsMatch'
    BY <2>1 DEF IdsMatch, PayIds
  <2> QED BY <2>2, <2>3
<1> QED BY <1>1, <1>2, <1>3, <1>4, <1>5

LEMMA LateBooks ==
  ASSUME TypeOK, Books,
         (\E i \in Resv : LatePay(i)) \/ (\E k \in lateCancel : LateCancel(k))
  PROVE  Books'
<1> USE DEF local, answers, history
<1>0. ASSUME Served, UNCHANGED <<rows, pc, resv, pid, paid>>  PROVE IdsMatch'
  <2>1. \A q \in Proc : pc[q] \in {"charged", "updated", "delete"} => pid[q] \in PayIds
    BY DEF TypeOK
  <2>2. \A i \in DOMAIN rows : rows[i].status = "done" => rows[i].pay \in PayIds
    BY DEF TypeOK, RowType
  <2>3. \A q \in Proc : pc'[q] \in {"charged", "updated", "delete"} => payments'[pid'[q]].resv = resv'[q]
    BY <1>0, <2>1 DEF Books, IdsMatch, Served
  <2>4. \A i \in DOMAIN rows' : rows'[i].status = "done" => payments'[rows'[i].pay].resv = i
    BY <1>0, <2>2 DEF Books, IdsMatch, Served
  <2>5. \A i \in paid' : \E k \in PayIds' : payments'[k].resv = i
    BY <1>0 DEF Books, IdsMatch, Served
  <2> QED BY <2>3, <2>4, <2>5 DEF IdsMatch
<1>1. ASSUME NEW i \in Resv, LatePay(i)  PROVE Books'
  <2>1. /\ payments'[NewId] = [resv |-> i, canceled |-> FALSE] /\ Served
        /\ PayIds' = PayIds \cup {NewId} /\ \A k \in PayIds : payments'[k] = payments[k]
    BY <1>1, ChargeIds, ServedByCalls DEF LatePay
  <2>2. ~payments'[NewId].canceled
    BY <2>1
  <2>3. \A k \in PayIds' : payments'[k].canceled => payments'[k].resv \in cancelAsked'
    BY <1>1, <2>1, <2>2 DEF LatePay, Books, RefundsAsked
  <2>4. \A k \in lateCancel' : payments'[k].resv \in cancelAsked'
    BY <1>1, <2>1 DEF LatePay, Books, RefundsAsked, TypeOK
  <2>5. \A p \in Proc : pc'[p] \in Canceling => resv'[p] \in cancelAsked'
    BY <1>1 DEF LatePay, Books, RefundsAsked
  <2> QED BY <1>0, <1>1, <2>1, <2>3, <2>4, <2>5 DEF LatePay, Books, RefundsAsked
<1>2. ASSUME NEW k \in lateCancel, LateCancel(k)  PROVE Books'
  <2>1. k \in PayIds /\ Refund(k) /\ payments[k].resv \in cancelAsked
    BY <1>2 DEF LateCancel, TypeOK, Books, RefundsAsked
  <2>2. Served
    BY <2>1, ServedByCalls
  <2>3. \A p \in Proc : pc'[p] \in Canceling => resv'[p] \in cancelAsked'
    BY <1>2 DEF LateCancel, Books, RefundsAsked
  <2> QED BY <1>0, <1>2, <2>1, <2>2, <2>3, RefundBooks DEF LateCancel, Books, RefundsAsked
<1> QED BY <1>1, <1>2

LEMMA NextBooks == TypeOK /\ Books /\ [Next]_vars => Books'
<1> SUFFICES ASSUME TypeOK, Books, [Next]_vars  PROVE Books'
  OBVIOUS
<1>1. CASE UNCHANGED vars
  BY <1>1 DEF vars, service, local, answers, history, Books, RefundsAsked, IdsMatch, PayIds
<1> QED BY <1>1, PayBooks, CancelBooks, LateBooks DEF Next, Advance

LEMMA BooksAlways == Spec => []Books
<1>1. Init => Books
  <2> SUFFICES ASSUME Init  PROVE Books
    OBVIOUS
  <2>1. PayIds = {} /\ DOMAIN rows = Resv /\ \A i \in Resv : rows[i].status = "requesting"
    BY DEF Init, PayIds
  <2> QED BY <2>1 DEF Init, Books, RefundsAsked, IdsMatch, Canceling
<1>2. TypeOK /\ Books /\ [Next]_vars => Books'
  BY NextBooks
<1> QED BY <1>1, <1>2, Typing, PTL DEF Spec

(* A paid row names a payment of its own reservation, live until somebody   *)
(* asks for a cancel, whatever calls are lost, late or doubled.            *)
THEOREM PaidRowsAreCharged == Spec => []DoneIsCharged
<1>1. TypeOK /\ Books => DoneIsCharged
  BY DEF TypeOK, RowType, Books, RefundsAsked, IdsMatch, DoneIsCharged
<1> QED BY <1>1, Typing, BooksAlways, PTL

(* A commit answered 200 has a live payment until a cancel is asked for.    *)
THEOREM AcknowledgedPaymentsAreLive == Spec => []PaidHasLivePayment
<1>1. TypeOK /\ Books => PaidHasLivePayment
  <2> SUFFICES ASSUME Books, NEW i \in paid \ cancelAsked  PROVE Live(i) # {}
    BY DEF PaidHasLivePayment
  <2>1. PICK k \in PayIds : payments[k].resv = i
    BY DEF Books, IdsMatch
  <2>2. k \in Live(i)
    BY <2>1 DEF Live, Books, RefundsAsked
  <2> QED BY <2>2
<1> QED BY <1>1, Typing, BooksAlways, PTL

-----------------------------------------------------------------------------
(* Row and payment service agree on what nothing has disturbed.            *)

Busy(p, i) == pc[p] \in Paying \cup Canceling /\ resv[p] = i
Payer(p, i) == pc[p] \in Paying /\ resv[p] = i
Recorded(i) == IF rows[i].status = "done" THEN {rows[i].pay} ELSE {}

(* A payer works alone on an unpaid row; what has been charged is what the  *)
(* payer was told, or else what the row records; a cancel past the refund   *)
(* leaves nothing live, and nothing is live once the row is gone.          *)
SlotAgrees(p, i) ==
  /\ Payer(p, i) => /\ i \in DOMAIN rows /\ rows[i].status = "requesting"
                    /\ \A q \in Proc \ {p} : ~Busy(q, i)
  /\ Busy(p, i) /\ pc[p] \in {"charged", "updated", "delete"} => Live(i) \subseteq {pid[p]}
  /\ Busy(p, i) /\ pc[p] \in {"post", "refunded", "remove", "removed"} => Live(i) = {}
RecordAgrees(i) ==
  /\ latePay[i] = 0
  /\ i \notin DOMAIN rows => Live(i) = {}
  /\ i \in DOMAIN rows /\ (\A p \in Proc : ~Payer(p, i)) => Live(i) \subseteq Recorded(i)
  /\ i \in canceled => i \notin DOMAIN rows
Agrees(i) == i \notin disturbed => RecordAgrees(i) /\ \A p \in Proc : SlotAgrees(p, i)
BooksAgree == \A i \in Resv : Agrees(i)

(* A step that takes nothing away from reservation i but handlers and live  *)
(* payments keeps the agreement on it.                                     *)
LEMMA AgreesFrame ==
  ASSUME NEW i \in Resv, Agrees(i), i \in disturbed => i \in disturbed',
         latePay'[i] = latePay[i], i \in canceled' => i \in canceled,
         i \in DOMAIN rows' <=> i \in DOMAIN rows, rows'[i] = rows[i],
         Live(i)' \subseteq Live(i),
         \A q \in Proc : Busy(q, i)' => Busy(q, i) /\ pc'[q] = pc[q] /\ pid'[q] = pid[q],
         \A q \in Proc : Payer(q, i) => Payer(q, i)'
  PROVE  Agrees(i)'
<1> SUFFICES ASSUME i \notin disturbed'  PROVE RecordAgrees(i)' /\ \A p \in Proc : SlotAgrees(p, i)'
  BY DEF Agrees
<1>1. RecordAgrees(i) /\ \A p \in Proc : SlotAgrees(p, i)
  BY DEF Agrees
<1>2. Recorded(i)' = Recorded(i)
  BY DEF Recorded
<1>3. RecordAgrees(i)'
  BY <1>1, <1>2 DEF RecordAgrees
<1>4. ASSUME NEW p \in Proc  PROVE SlotAgrees(p, i)'
  <2>1. Payer(p, i)' => Busy(p, i)' /\ Payer(p, i)
    BY DEF Payer, Busy
  <2> QED BY <1>1, <2>1 DEF SlotAgrees
<1> QED BY <1>3, <1>4

(* Charging and refunding, reservation by reservation.                     *)
LEMMA LiveUnchanged ==
  ASSUME UNCHANGED payments, NEW i  PROVE Live(i)' = Live(i)
  BY DEF Live, PayIds

LEMMA ChargeLive ==
  ASSUME TypeOK, NEW i \in Resv, Charge(i), NEW j \in Resv
  PROVE  Live(j)' = IF j = i THEN Live(j) \cup {NewId} ELSE Live(j)
<1>1. /\ payments'[NewId] = [resv |-> i, canceled |-> FALSE] /\ NewId \notin PayIds
      /\ PayIds' = PayIds \cup {NewId} /\ \A k \in PayIds : payments'[k] = payments[k]
  BY ChargeIds
<1>2. payments'[NewId].resv = i /\ ~payments'[NewId].canceled
  BY <1>1
<1> QED BY <1>1, <1>2 DEF Live

LEMMA RefundLive ==
  ASSUME TypeOK, NEW k \in PayIds, Refund(k), NEW j
  PROVE  Live(j)' \subseteq Live(j) \ {k}
<1> SUFFICES ASSUME NEW m \in Live(j)'  PROVE m \in Live(j) \ {k}
  OBVIOUS
<1>1. m \in PayIds /\ payments'[m].resv = j /\ ~payments'[m].canceled
  BY RefundIds DEF Live
<1>2. m # k
  BY <1>1, RefundIds
<1>3. payments'[m] = payments[m]
  BY <1>1, <1>2, RefundIds
<1> QED BY <1>1, <1>2, <1>3 DEF Live

(* A step of p's handler on reservation i leaves every other one alone.     *)
LEMMA AgreesElsewhere ==
  ASSUME BooksAgree, NEW p \in Proc, NEW i, OthersStay(p),
         pc[p] \in Paying \cup Canceling => resv[p] = i,
         pc'[p] \in Paying \cup Canceling => resv'[p] = i,
         NEW j \in Resv, j # i,
         j \in disturbed => j \in disturbed', j \in canceled' => j \in canceled,
         latePay'[j] = latePay[j],
         j \in DOMAIN rows' <=> j \in DOMAIN rows, rows'[j] = rows[j],
         Live(j)' \subseteq Live(j)
  PROVE  Agrees(j)'
<1>1. \A q \in Proc : Busy(q, j)' => Busy(q, j) /\ pc'[q] = pc[q] /\ pid'[q] = pid[q]
  BY DEF Busy, OthersStay
<1>2. \A q \in Proc : Payer(q, j) => Payer(q, j)'
  BY DEF Payer, OthersStay
<1> QED BY <1>1, <1>2, AgreesFrame DEF BooksAgree

(* A handler that ends, or leaks, with the service and the rows as they     *)
(* were: a payer only if it leaves a mark or has charged nothing.          *)
LEMMA HandlerEndsAgrees ==
  ASSUME TypeOK, BooksAgree, NEW p \in Proc, pc[p] \in Paying \cup Canceling,
         pc'[p] \in {"idle", "leaked"}, OthersStay(p), UNCHANGED <<rows, payments>>,
         disturbed \subseteq disturbed', canceled' \subseteq canceled \cup {resv[p]},
         \A j \in Resv \ {resv[p]} : latePay'[j] = latePay[j],
         \/ resv[p] \in disturbed'
         \/ /\ UNCHANGED <<latePay, canceled>>
            /\ pc[p] \in Paying => pc[p] = "post"
  PROVE  BooksAgree'
<1>1. PICK i \in Resv : i = resv[p]
  BY DEF TypeOK
<1>2. \A j \in Resv : Live(j)' = Live(j)
  BY LiveUnchanged
<1>3. ASSUME NEW j \in Resv, j # i  PROVE Agrees(j)'
  BY <1>1, <1>2, <1>3, AgreesElsewhere DEF Paying, Canceling
<1>4. Agrees(i)'
  <2> SUFFICES ASSUME i \notin disturbed'  PROVE RecordAgrees(i)' /\ \A q \in Proc : SlotAgrees(q, i)'
    BY DEF Agrees
  <2>1. RecordAgrees(i) /\ \A q \in Proc : SlotAgrees(q, i)
    BY <1>1 DEF BooksAgree, Agrees
  <2>2. \A q \in Proc : Busy(q, i)' => Busy(q, i) /\ q # p /\ pc'[q] = pc[q] /\ pid'[q] = pid[q]
    BY DEF Busy, OthersStay, Paying, Canceling
  <2>3. CASE pc[p] \notin Paying
    <3>1. \A q \in Proc : Payer(q, i) => Payer(q, i)'
      BY <2>3 DEF Payer, OthersStay
    <3> QED BY <1>1, <1>2, <2>2, <3>1, AgreesFrame DEF BooksAgree, Agrees
  <2>4. CASE pc[p] \in Paying
    <3>1. Payer(p, i) /\ Busy(p, i) /\ pc[p] = "post"
      BY <1>1, <2>4 DEF Payer, Busy
    <3>2. Live(i) = {} /\ i \in DOMAIN rows /\ \A q \in Proc : ~Busy(q, i)'
      BY <2>1, <2>2, <3>1 DEF SlotAgrees
    <3>3. RecordAgrees(i)'
      BY <1>1, <1>2, <2>1, <3>2 DEF RecordAgrees
    <3>4. \A q \in Proc : SlotAgrees(q, i)'
      BY <3>2 DEF SlotAgrees, Payer, Busy
    <3> QED BY <3>3, <3>4
  <2> QED BY <2>3, <2>4
<1> QED BY <1>3, <1>4 DEF BooksAgree

LEMMA PayFindAgrees ==
  ASSUME TypeOK, BooksAgree, NEW p \in Proc, NEW i \in DOMAIN rows, PayFind(p, i)
  PROVE  BooksAgree'
<1>1. /\ i \in Resv /\ pc[p] = "idle" /\ pc'[p] = "post" /\ resv'[p] = i /\ OthersStay(p)
      /\ UNCHANGED <<rows, payments, latePay, canceled>> /\ disturbed \subseteq disturbed'
      /\ rows[i].status = "requesting"
      /\ \A j \in Resv \ {i} : j \in disturbed' => j \in disturbed
  BY DEF PayFind, Goto, OthersStay, Disturb, AlreadyDone, TypeOK, RowType, service, answers
<1>2. \A j \in Resv : Live(j)' = Live(j)
  BY <1>1, LiveUnchanged
<1>3. ASSUME NEW j \in Resv, j # i  PROVE Agrees(j)'
  BY <1>1, <1>2, <1>3, AgreesElsewhere DEF Paying, Canceling
<1>4. Agrees(i)'
  <2> SUFFICES ASSUME i \notin disturbed'  PROVE RecordAgrees(i)' /\ \A q \in Proc : SlotAgrees(q, i)'
    BY DEF Agrees
  <2>1. RecordAgrees(i)
    BY <1>1 DEF BooksAgree, Agrees
  <2>2. Others(p, i, Paying \cup Canceling) = {}
    BY DEF PayFind, Disturb
  <2>3. \A q \in Proc : ~Busy(q, i)
    BY <1>1, <2>2 DEF Others, Busy, Paying, Canceling
  <2>4. Live(i) = {}
    BY <1>1, <2>1, <2>3 DEF RecordAgrees, Recorded, Payer, Busy
  <2>5. \A q \in Proc \ {p} : ~Busy(q, i)'
    BY <1>1, <2>3 DEF Busy, OthersStay
  <2>6. RecordAgrees(i)'
    BY <1>1, <1>2, <2>1, <2>4 DEF RecordAgrees
  <2>7. \A q \in Proc : SlotAgrees(q, i)'
    BY <1>1, <1>2, <2>4, <2>5 DEF SlotAgrees, Payer, Busy
  <2> QED BY <2>6, <2>7
<1> QED BY <1>3, <1>4 DEF BooksAgree

LEMMA ServePayAgrees ==
  ASSUME TypeOK, BooksAgree, NEW p \in Proc, ServePay(p)
  PROVE  BooksAgree'
<1>0. PICK i \in Resv : i = resv[p]
  BY DEF ServePay, TypeOK, Paying
<1>1. /\ i = resv[p] /\ pc[p] = "post" /\ pc'[p] = "charged" /\ resv'[p] = i /\ pid'[p] = NewId
      /\ OthersStay(p) /\ Charge(i) /\ UNCHANGED <<rows, latePay, canceled, disturbed>>
  BY <1>0 DEF ServePay, KeepId, Goto, OthersStay, TypeOK, Paying, service, answers, history
<1>2. \A j \in Resv : Live(j)' = IF j = i THEN Live(j) \cup {NewId} ELSE Live(j)
  BY <1>1, ChargeLive
<1>3. ASSUME NEW j \in Resv, j # i  PROVE Agrees(j)'
  BY <1>1, <1>2, <1>3, AgreesElsewhere DEF Paying, Canceling
<1>4. Agrees(i)'
  <2> SUFFICES ASSUME i \notin disturbed'  PROVE RecordAgrees(i)' /\ \A q \in Proc : SlotAgrees(q, i)'
    BY DEF Agrees
  <2>1. RecordAgrees(i) /\ SlotAgrees(p, i) /\ Payer(p, i) /\ Busy(p, i) /\ Payer(p, i)'
    BY <1>1 DEF BooksAgree, Agrees, Payer, Busy, Paying
  <2>2. Live(i)' = {NewId} /\ i \in DOMAIN rows /\ rows[i].status = "requesting"
    BY <1>1, <1>2, <2>1 DEF SlotAgrees
  <2>3. \A q \in Proc \ {p} : ~Busy(q, i)'
    BY <1>1, <2>1 DEF SlotAgrees, Busy, OthersStay
  <2>4. RecordAgrees(i)'
    BY <1>1, <2>1, <2>2 DEF RecordAgrees
  <2>5. \A q \in Proc : SlotAgrees(q, i)'
    BY <1>1, <2>2, <2>3 DEF SlotAgrees, Payer, Busy
  <2> QED BY <2>4, <2>5
<1> QED BY <1>3, <1>4 DEF BooksAgree

LEMMA PayUpdateAgrees ==
  ASSUME TypeOK, BooksAgree, NEW p \in Proc, PayUpdate(p)
  PROVE  BooksAgree'
<1>1. /\ pc[p] = "charged" /\ pc' = [pc EXCEPT ![p] = "updated"]
      /\ UNCHANGED <<rows, payments, latePay, canceled, disturbed, resv, pid>>
  BY DEF PayUpdate, Goto, service, answers, history, local
<1>2. pc'[p] = "updated" /\ \A q \in Proc \ {p} : pc'[q] = pc[q]
  BY <1>1 DEF TypeOK
<1>3. ASSUME NEW j \in Resv  PROVE Agrees(j)'
  <2>1. Live(j)' = Live(j) /\ Recorded(j)' = Recorded(j) /\ Agrees(j)
    BY <1>1, LiveUnchanged DEF Recorded, BooksAgree
  <2>2. \A q \in Proc : (Busy(q, j)' <=> Busy(q, j)) /\ (Payer(q, j)' <=> Payer(q, j))
    BY <1>1, <1>2 DEF Busy, Payer, Paying, Canceling
  <2>3. RecordAgrees(j) => RecordAgrees(j)'
    BY <1>1, <2>1, <2>2 DEF RecordAgrees
  <2>4. ASSUME NEW q \in Proc, SlotAgrees(q, j)  PROVE SlotAgrees(q, j)'
    BY <1>1, <1>2, <2>1, <2>2, <2>4 DEF SlotAgrees
  <2> QED BY <1>1, <2>1, <2>3, <2>4 DEF Agrees
<1> QED BY <1>3 DEF BooksAgree

LEMMA PayCommitAgrees ==
  ASSUME TypeOK, BooksAgree, NEW p \in Proc, PayCommit(p)
  PROVE  BooksAgree'
<1>0. PICK i \in Resv : i = resv[p]
  BY DEF PayCommit, TypeOK, Paying
<1>1. /\ i = resv[p] /\ pc[p] = "updated" /\ pc'[p] = "idle" /\ OthersStay(p)
      /\ UNCHANGED <<payments, latePay, canceled, disturbed>>
      /\ DOMAIN rows' = DOMAIN rows
      /\ i \in DOMAIN rows => rows'[i] = PaidRow(p)
  BY <1>0, EndTxBooks DEF PayCommit, TypeOK, Paying, service, history
<1>2. \A j \in Resv : Live(j)' = Live(j)
  BY <1>1, LiveUnchanged
<1>3. ASSUME NEW j \in Resv, j # i  PROVE Agrees(j)'
  <2>1. CASE j \in DOMAIN rows
    <3>1. rows'[j] = rows[j]
      BY <1>1, <1>3, <2>1 DEF PayCommit
    <3> QED BY <1>1, <1>2, <1>3, <3>1, AgreesElsewhere DEF Paying, Canceling
  <2>2. CASE j \notin DOMAIN rows
    <3> SUFFICES ASSUME j \notin disturbed  PROVE RecordAgrees(j)' /\ \A q \in Proc : SlotAgrees(q, j)'
      BY <1>1 DEF Agrees
    <3>1. RecordAgrees(j) /\ \A q \in Proc : SlotAgrees(q, j)
      BY DEF BooksAgree, Agrees
    <3>2. RecordAgrees(j)'
      BY <1>1, <1>2, <2>2, <3>1 DEF RecordAgrees
    <3>3. \A q \in Proc : /\ Busy(q, j)' => Busy(q, j) /\ pc'[q] = pc[q] /\ pid'[q] = pid[q]
                          /\ ~Payer(q, j)'
      BY <1>1, <2>2, <3>1 DEF Busy, Payer, SlotAgrees, OthersStay, Paying, Canceling
    <3>4. \A q \in Proc : SlotAgrees(q, j)'
      BY <1>2, <3>1, <3>3 DEF SlotAgrees
    <3> QED BY <3>2, <3>4
  <2> QED BY <2>1, <2>2
<1>4. Agrees(i)'
  <2> SUFFICES ASSUME i \notin disturbed  PROVE RecordAgrees(i)' /\ \A q \in Proc : SlotAgrees(q, i)'
    BY <1>1 DEF Agrees
  <2>1. RecordAgrees(i) /\ SlotAgrees(p, i) /\ Payer(p, i) /\ Busy(p, i)
    BY <1>1 DEF BooksAgree, Agrees, Payer, Busy, Paying
  <2>2. Live(i) \subseteq {pid[p]} /\ i \in DOMAIN rows
    BY <1>1, <2>1 DEF SlotAgrees
  <2>3. \A q \in Proc : ~Busy(q, i)'
    BY <1>1, <2>1 DEF SlotAgrees, Busy, OthersStay, Paying, Canceling
  <2>4. Recorded(i)' = {pid[p]}
    BY <1>1, <2>2 DEF Recorded, PaidRow
  <2>5. RecordAgrees(i)'
    BY <1>1, <1>2, <2>1, <2>2, <2>4 DEF RecordAgrees
  <2>6. \A q \in Proc : SlotAgrees(q, i)'
    BY <2>3 DEF SlotAgrees, Payer, Busy
  <2> QED BY <2>5, <2>6
<1> QED BY <1>3, <1>4 DEF BooksAgree

LEMMA CancelFindAgrees ==
  ASSUME TypeOK, BooksAgree, NEW p \in Proc, NEW i \in DOMAIN rows, CancelFind(p, i)
  PROVE  BooksAgree'
<1>1. /\ i \in Resv /\ pc[p] = "idle" /\ pc'[p] \in {"delete", "remove"} /\ resv'[p] = i
      /\ OthersStay(p) /\ UNCHANGED <<rows, payments, latePay, canceled>>
      /\ disturbed \subseteq disturbed'
      /\ IF rows[i].status = "done" THEN pc'[p] = "delete" /\ pid'[p] = rows[i].pay
                                    ELSE pc'[p] = "remove"
  <2>1. CASE AlreadyDone(i)
    BY <2>1 DEF CancelFind, Goto, OthersStay, Disturb, AlreadyDone, TypeOK, service, answers
  <2>2. CASE ~AlreadyDone(i)
    BY <2>2 DEF CancelFind, Goto, OthersStay, Disturb, AlreadyDone, TypeOK, service, answers
  <2> QED BY <2>1, <2>2
<1>2. \A j \in Resv : Live(j)' = Live(j)
  BY <1>1, LiveUnchanged
<1>3. ASSUME NEW j \in Resv, j # i  PROVE Agrees(j)'
  BY <1>1, <1>2, <1>3, AgreesElsewhere DEF Paying, Canceling
<1>4. Agrees(i)'
  <2> SUFFICES ASSUME i \notin disturbed'  PROVE RecordAgrees(i)' /\ \A q \in Proc : SlotAgrees(q, i)'
    BY DEF Agrees
  <2>1. RecordAgrees(i) /\ \A q \in Proc : SlotAgrees(q, i)
    BY <1>1 DEF BooksAgree, Agrees
  <2>2. Others(p, i, Paying) = {}
    BY DEF CancelFind, Disturb
  <2>3. \A q \in Proc : ~Payer(q, i) /\ ~Payer(q, i)'
    BY <1>1, <2>2 DEF Others, Payer, OthersStay, Paying
  <2>4. Live(i) \subseteq Recorded(i)
    BY <1>1, <2>1, <2>3 DEF RecordAgrees
  <2>5. RecordAgrees(i)'
    BY <1>1, <1>2, <2>1, <2>4 DEF RecordAgrees, Recorded
  <2>6. SlotAgrees(p, i)'
    BY <1>1, <1>2, <2>3, <2>4 DEF SlotAgrees, Recorded
  <2>7. ASSUME NEW q \in Proc \ {p}  PROVE SlotAgrees(q, i)'
    <3>1. pc'[q] = pc[q] /\ pid'[q] = pid[q] /\ (Busy(q, i)' <=> Busy(q, i))
      BY <1>1 DEF OthersStay, Busy
    <3>2. Live(i)' = Live(i) /\ SlotAgrees(q, i) /\ ~Payer(q, i)'
      BY <1>1, <1>2, <2>1, <2>3
    <3>3. SlotAgrees(q, i)'
      BY <3>1, <3>2 DEF SlotAgrees, Payer
    <3> QED BY <3>3
  <2> QED BY <2>5, <2>6, <2>7
<1> QED BY <1>3, <1>4 DEF BooksAgree

LEMMA ServeCancelAgrees ==
  ASSUME TypeOK, BooksAgree, NEW p \in Proc, ServeCancel(p)
  PROVE  BooksAgree'
<1>0. PICK i \in Resv : i = resv[p]
  BY DEF ServeCancel, TypeOK, Canceling
<1>1. /\ i = resv[p] /\ pc[p] = "delete" /\ pc'[p] = "refunded" /\ resv'[p] = i
      /\ pid[p] \in PayIds /\ Refund(pid[p])
      /\ OthersStay(p) /\ UNCHANGED <<rows, latePay, canceled, disturbed>>
  BY <1>0 DEF ServeCancel, Goto, OthersStay, TypeOK, local, answers, history
<1>2. \A j \in Resv : Live(j)' \subseteq Live(j) \ {pid[p]}
  BY <1>1, RefundLive
<1>3. ASSUME NEW j \in Resv, j # i  PROVE Agrees(j)'
  BY <1>1, <1>2, <1>3, AgreesElsewhere DEF Paying, Canceling
<1>4. Agrees(i)'
  <2> SUFFICES ASSUME i \notin disturbed'  PROVE RecordAgrees(i)' /\ \A q \in Proc : SlotAgrees(q, i)'
    BY DEF Agrees
  <2>1. RecordAgrees(i) /\ \A q \in Proc : SlotAgrees(q, i)
    BY <1>1 DEF BooksAgree, Agrees
  <2>2. Busy(p, i) /\ \A q \in Proc : ~Payer(q, i)
    BY <1>1, <2>1 DEF SlotAgrees, Busy, Payer, Canceling, Paying
  <2>3. Live(i)' = {}
    BY <1>1, <1>2, <2>1, <2>2 DEF SlotAgrees
  <2>4. \A q \in Proc : ~Payer(q, i)'
    BY <1>1, <2>2 DEF Payer, OthersStay, Paying
  <2>5. RecordAgrees(i)'
    BY <1>1, <2>1, <2>3 DEF RecordAgrees
  <2>6. \A q \in Proc : SlotAgrees(q, i)'
    BY <2>3, <2>4 DEF SlotAgrees
  <2> QED BY <2>5, <2>6
<1> QED BY <1>3, <1>4 DEF BooksAgree

LEMMA CancelRemoveAgrees ==
  ASSUME TypeOK, BooksAgree, NEW p \in Proc, CancelRemove(p)
  PROVE  BooksAgree'
<1>1. /\ pc[p] \in {"refunded", "remove"} /\ pc' = [pc EXCEPT ![p] = "removed"]
      /\ UNCHANGED <<rows, payments, latePay, canceled, disturbed, resv, pid>>
  BY DEF CancelRemove, RemovesAt, Goto, service, answers, history, local
<1>2. pc'[p] = "removed" /\ \A q \in Proc \ {p} : pc'[q] = pc[q]
  BY <1>1 DEF TypeOK
<1>3. ASSUME NEW j \in Resv  PROVE Agrees(j)'
  <2>1. Live(j)' = Live(j) /\ Recorded(j)' = Recorded(j) /\ Agrees(j)
    BY <1>1, LiveUnchanged DEF Recorded, BooksAgree
  <2>2. \A q \in Proc : (Busy(q, j)' <=> Busy(q, j)) /\ (Payer(q, j)' <=> Payer(q, j))
    BY <1>1, <1>2 DEF Busy, Payer, Paying, Canceling
  <2>3. RecordAgrees(j) => RecordAgrees(j)'
    BY <1>1, <2>1, <2>2 DEF RecordAgrees
  <2>4. ASSUME NEW q \in Proc, SlotAgrees(q, j)  PROVE SlotAgrees(q, j)'
    BY <1>1, <1>2, <2>1, <2>2, <2>4 DEF SlotAgrees
  <2> QED BY <1>1, <2>1, <2>3, <2>4 DEF Agrees
<1> QED BY <1>3 DEF BooksAgree

LEMMA CancelCommitAgrees ==
  ASSUME TypeOK, BooksAgree, NEW p \in Proc, CancelCommit(p)
  PROVE  BooksAgree'
<1>0. PICK i \in Resv : i = resv[p]
  BY DEF CancelCommit, TypeOK, Canceling
<1>1. /\ i = resv[p] /\ pc[p] = "removed" /\ pc'[p] = "idle" /\ OthersStay(p)
      /\ UNCHANGED <<payments, latePay, disturbed>> /\ canceled' = canceled \cup {i}
      /\ DOMAIN rows' = DOMAIN rows \ {i}
      /\ \A j \in DOMAIN rows' : rows'[j] = rows[j]
  BY <1>0, EndTxBooks DEF CancelCommit, service, history
<1>2. \A j \in Resv : Live(j)' = Live(j)
  BY <1>1, LiveUnchanged
<1>3. ASSUME NEW j \in Resv, j # i, j \notin disturbed'
      PROVE RecordAgrees(j)' /\ \A q \in Proc : SlotAgrees(q, j)'
  <2>1. RecordAgrees(j) /\ \A q \in Proc : SlotAgrees(q, j)
    BY <1>1, <1>3 DEF BooksAgree, Agrees
  <2>2. \A q \in Proc : /\ Busy(q, j)' <=> Busy(q, j)
                        /\ Payer(q, j)' <=> Payer(q, j)
                        /\ Busy(q, j) => pc'[q] = pc[q] /\ pid'[q] = pid[q]
    BY <1>1, <1>3 DEF Busy, Payer, OthersStay, Paying, Canceling
  <2>3. j \in DOMAIN rows => Recorded(j)' = Recorded(j) /\ rows'[j] = rows[j]
    BY <1>1, <1>3 DEF Recorded
  <2>4. RecordAgrees(j)'
    BY <1>1, <1>2, <1>3, <2>1, <2>2, <2>3 DEF RecordAgrees
  <2>5. ASSUME NEW q \in Proc  PROVE SlotAgrees(q, j)'
    <3>1. Payer(q, j) => Busy(q, j)
      BY DEF Payer, Busy
    <3> QED BY <1>1, <1>2, <1>3, <2>1, <2>2, <2>3, <3>1 DEF SlotAgrees
  <2> QED BY <2>4, <2>5
<1>4. ASSUME i \notin disturbed'  PROVE RecordAgrees(i)' /\ \A q \in Proc : SlotAgrees(q, i)'
  <2>1. RecordAgrees(i) /\ \A q \in Proc : SlotAgrees(q, i)
    BY <1>1, <1>4 DEF BooksAgree, Agrees
  <2>2. Busy(p, i) /\ \A q \in Proc : ~Payer(q, i) /\ ~Payer(q, i)'
    BY <1>1, <2>1 DEF SlotAgrees, Busy, Payer, OthersStay, Canceling, Paying
  <2>3. Live(i)' = {}
    BY <1>1, <1>2, <2>1, <2>2 DEF SlotAgrees
  <2>4. RecordAgrees(i)'
    BY <1>1, <2>1, <2>3 DEF RecordAgrees
  <2>5. \A q \in Proc : SlotAgrees(q, i)'
    BY <2>2, <2>3 DEF SlotAgrees
  <2> QED BY <2>4, <2>5
<1> QED BY <1>3, <1>4 DEF BooksAgree, Agrees

LEMMA LateAgrees ==
  ASSUME TypeOK, BooksAgree,
         (\E i \in Resv : LatePay(i)) \/ (\E k \in lateCancel : LateCancel(k))
  PROVE  BooksAgree'
<1>0. ASSUME NEW j \in Resv, Live(j)' \subseteq Live(j), latePay'[j] = latePay[j],
             UNCHANGED <<rows, pc, resv, pid, canceled, disturbed>>
      PROVE  Agrees(j)'
  BY <1>0, AgreesFrame DEF BooksAgree, Busy, Payer
<1>1. ASSUME NEW i \in Resv, LatePay(i)  PROVE BooksAgree'
  <2>1. latePay[i] # 0 /\ Charge(i) /\ UNCHANGED <<rows, pc, resv, pid, canceled, disturbed>>
        /\ \A j \in Resv \ {i} : latePay'[j] = latePay[j]
    BY <1>1 DEF LatePay, TypeOK, local, answers, history
  <2>2. i \in disturbed
    BY <2>1 DEF BooksAgree, Agrees, RecordAgrees
  <2>3. ASSUME NEW j \in Resv, j # i  PROVE Agrees(j)'
    BY <1>0, <2>1, <2>3, ChargeLive
  <2>4. Agrees(i)'
    BY <2>1, <2>2 DEF Agrees
  <2> QED BY <2>3, <2>4 DEF BooksAgree
<1>2. ASSUME NEW k \in lateCancel, LateCancel(k)  PROVE BooksAgree'
  <2>1. k \in PayIds /\ Refund(k) /\ UNCHANGED <<rows, pc, resv, pid, latePay, canceled, disturbed>>
    BY <1>2 DEF LateCancel, TypeOK, local, answers, history
  <2>2. \A j \in Resv : Live(j)' \subseteq Live(j)
    BY <2>1, RefundLive
  <2> QED BY <1>0, <2>1, <2>2 DEF BooksAgree
<1> QED BY <1>1, <1>2

LEMMA NextAgrees == TypeOK /\ BooksAgree /\ [Next]_vars => BooksAgree'
<1> SUFFICES ASSUME TypeOK, BooksAgree, [Next]_vars  PROVE BooksAgree'
  OBVIOUS
<1>1. CASE UNCHANGED vars
  <2>1. \A j \in Resv : Live(j)' = Live(j)
    BY <1>1, LiveUnchanged DEF vars, service
  <2> QED BY <1>1, <2>1, AgreesFrame
          DEF vars, service, local, answers, history, BooksAgree, Busy, Payer
<1>2. ASSUME NEW p \in Proc, PayRefused(p) \/ PayGiveUp(p) \/ PayLeak(p) \/ PayCommitLost(p)
                              \/ CancelGiveUp(p) \/ CancelLeak(p) \/ CancelCommitLost(p)
      PROVE  BooksAgree'
  <2> USE DEF service, answers, history, local, Disturb, Paying, Canceling
  <2>1. CASE PayRefused(p)
    BY <2>1, EndTxBooks, HandlerEndsAgrees DEF PayRefused
  <2>2. CASE PayGiveUp(p)
    BY <2>2, EndTxBooks, HandlerEndsAgrees DEF PayGiveUp, TypeOK
  <2>3. CASE PayLeak(p)
    BY <2>3, HandlerEndsAgrees DEF PayLeak, Goto, OthersStay, TypeOK
  <2>4. CASE PayCommitLost(p)
    BY <2>4, EndTxBooks, HandlerEndsAgrees DEF PayCommitLost
  <2>5. CASE CancelGiveUp(p)
    BY <2>5, EndTxBooks, HandlerEndsAgrees DEF CancelGiveUp
  <2>6. CASE CancelLeak(p)
    BY <2>6, HandlerEndsAgrees DEF CancelLeak, Goto, OthersStay, TypeOK
  <2>7. CASE CancelCommitLost(p)
    BY <2>7, EndTxBooks, HandlerEndsAgrees DEF CancelCommitLost
  <2> QED BY <1>2, <2>1, <2>2, <2>3, <2>4, <2>5, <2>6, <2>7
<1> QED BY <1>1, <1>2, PayFindAgrees, ServePayAgrees, PayUpdateAgrees, PayCommitAgrees,
           CancelFindAgrees, ServeCancelAgrees, CancelRemoveAgrees, CancelCommitAgrees, LateAgrees
        DEF Next, Advance

LEMMA BooksAlwaysAgree == Spec => []BooksAgree
<1>1. Init => BooksAgree
  <2> SUFFICES ASSUME Init, NEW i \in Resv  PROVE RecordAgrees(i) /\ \A p \in Proc : SlotAgrees(p, i)
    BY DEF BooksAgree, Agrees
  <2>1. Live(i) = {} /\ i \in DOMAIN rows /\ \A p \in Proc : ~Busy(p, i) /\ ~Payer(p, i)
    BY DEF Init, Live, PayIds, Busy, Payer, Paying, Canceling
  <2> QED BY <2>1 DEF Init, RecordAgrees, SlotAgrees
<1> QED BY <1>1, NextAgrees, Typing, PTL DEF Spec

(* A confirmed cancel of an undisturbed reservation leaves no live payment, *)
(* for any number of overlapping, retried, timed out and late cancels.     *)
THEOREM CanceledMeansRefunded == Spec => []RefundedWhenCanceled
<1>1. TypeOK /\ BooksAgree => RefundedWhenCanceled
  BY DEF TypeOK, BooksAgree, Agrees, RecordAgrees, RefundedWhenCanceled
<1> QED BY <1>1, Typing, BooksAlwaysAgree, PTL

(* Row and payment service agree on every undisturbed reservation that is   *)
(* not being paid.                                                         *)
THEOREM ChargesAreRecorded == Spec => []ChargedAsRecorded
<1>1. TypeOK /\ BooksAgree => ChargedAsRecorded
  BY DEF TypeOK, BooksAgree, Agrees, RecordAgrees, Recorded, Payer, ChargedAsRecorded
<1> QED BY <1>1, Typing, BooksAlwaysAgree, PTL

-----------------------------------------------------------------------------
(* The payment service as the handlers see it.                             *)

(* The service's side of Checkout, said in the terms of the ledger that    *)
(* PaymentService implements: a payment is made for a reservation.         *)
PaymentBook == INSTANCE PaymentLedger WITH
                 Data <- Resv,
                 ledger <- [k \in DOMAIN payments |->
                              [data |-> payments[k].resv, canceled |-> payments[k].canceled]],
                 issued <- Cardinality(DOMAIN payments)
CallsKeepToTheLedger == PaymentBook!LedgerSpec

BookEntry(k) == [data |-> payments[k].resv, canceled |-> payments[k].canceled]
BookView == [k \in DOMAIN payments |-> BookEntry(k)]

LEMMA ChargeIsEntered ==
  ASSUME TypeOK, NEW i \in Resv, Charge(i)  PROVE PaymentBook!LedgerNext
<1>0. PICK n \in Nat : n = Cardinality(DOMAIN payments)
  BY DEF TypeOK, PayIds
<1>1. /\ DOMAIN payments = 1 .. n /\ NewId = n + 1
      /\ DOMAIN payments' = DOMAIN payments \cup {n + 1}
  BY <1>0, ChargeIds DEF TypeOK, PayIds, NewId
<1>2. Cardinality(DOMAIN payments') = n + 1
  <2>1. (1 .. n) \cup {n + 1} = 1 .. (n + 1)
    BY <1>0
  <2>2. Cardinality(1 .. (n + 1)) = n + 1
    BY <1>0, FS_Interval
  <2> QED BY <1>1, <2>1, <2>2
<1>3. BookEntry(n + 1)' = [data |-> i, canceled |-> FALSE]
  <2>1. payments'[n + 1] = [resv |-> i, canceled |-> FALSE]
    BY <1>1, ChargeIds
  <2> QED BY <2>1 DEF BookEntry
<1>4. \A k \in DOMAIN payments : BookEntry(k)' = BookEntry(k)
  BY ChargeIds DEF BookEntry, PayIds
<1>5. BookView' = [k \in DOMAIN BookView \cup {n + 1} |->
                     IF k = n + 1 THEN [data |-> i, canceled |-> FALSE] ELSE BookView[k]]
  BY <1>1, <1>3, <1>4 DEF BookView
<1>6. PaymentBook!Charge(i)
  BY <1>0, <1>2, <1>5 DEF PaymentBook!Charge, BookView, BookEntry
<1> QED BY <1>6 DEF PaymentBook!LedgerNext

LEMMA RefundIsEntered ==
  ASSUME TypeOK, NEW k \in PayIds, Refund(k)  PROVE PaymentBook!LedgerNext
<1>1. DOMAIN payments' = DOMAIN payments /\ k \in DOMAIN payments
  BY RefundIds DEF PayIds
<1>2. BookEntry(k)' = [data |-> BookEntry(k).data, canceled |-> TRUE]
  <2>1. payments'[k].resv = payments[k].resv /\ payments'[k].canceled
    BY RefundIds
  <2>2. payments'[k].canceled \in BOOLEAN
    BY <1>1, RefundIds DEF PayIds
  <2> QED BY <2>1, <2>2 DEF BookEntry
<1>3. \A j \in DOMAIN payments \ {k} : BookEntry(j)' = BookEntry(j)
  BY RefundIds DEF BookEntry, PayIds
<1>4. BookView' = [j \in DOMAIN BookView |->
                     IF j \in {k} THEN [data |-> BookView[j].data, canceled |-> TRUE] ELSE BookView[j]]
  BY <1>1, <1>2, <1>3 DEF BookView
<1>5. PaymentBook!Cancel({k})
  BY <1>1, <1>4 DEF PaymentBook!Cancel, BookView, BookEntry
<1> QED BY <1>1, <1>5 DEF PaymentBook!LedgerNext

LEMMA NextKeepsToTheLedger ==
  TypeOK /\ [Next]_vars => [PaymentBook!LedgerNext]_(PaymentBook!ledgerVars)
<1> SUFFICES ASSUME TypeOK, [Next]_vars
             PROVE  [PaymentBook!LedgerNext]_(PaymentBook!ledgerVars)
  OBVIOUS
<1>1. ASSUME NEW p \in Proc, ServePay(p) \/ ServeCancel(p)  PROVE PaymentBook!LedgerNext
  <2>1. /\ pc[p] = "post" => resv[p] \in Resv
        /\ pc[p] = "delete" => pid[p] \in PayIds
    BY DEF TypeOK, Paying, Canceling
  <2> QED BY <1>1, <2>1, ChargeIsEntered, RefundIsEntered DEF ServePay, ServeCancel
<1>2. ASSUME NEW i \in Resv, LatePay(i)  PROVE PaymentBook!LedgerNext
  BY <1>2, ChargeIsEntered DEF LatePay
<1>3. ASSUME NEW k \in lateCancel, LateCancel(k)  PROVE PaymentBook!LedgerNext
  BY <1>3, RefundIsEntered DEF LateCancel, TypeOK
<1>4. ASSUME UNCHANGED payments  PROVE UNCHANGED PaymentBook!ledgerVars
  BY <1>4 DEF PaymentBook!ledgerVars
<1>5. ASSUME NEW p \in Proc,
             \/ \E i \in DOMAIN rows : PayFind(p, i) \/ CancelFind(p, i)
             \/ PayUpdate(p) \/ PayCommit(p) \/ CancelRemove(p) \/ CancelCommit(p)
             \/ PayRefused(p) \/ PayGiveUp(p) \/ PayLeak(p) \/ PayCommitLost(p)
             \/ CancelGiveUp(p) \/ CancelLeak(p) \/ CancelCommitLost(p)
      PROVE  UNCHANGED payments
  BY <1>5 DEF PayFind, CancelFind, PayUpdate, PayCommit, CancelRemove, CancelCommit, PayRefused, PayGiveUp,
     PayLeak, PayCommitLost, CancelGiveUp, CancelLeak, CancelCommitLost, service
<1> QED BY <1>1, <1>2, <1>3, <1>4, <1>5 DEF Next, Advance, vars, service

(* What the handlers take the payment service for in Checkout, late calls  *)
(* included, is what the service itself promises: every call is a charge   *)
(* or a cancel of the ledger that PaymentService implements                *)
(* (reservationPaymentHandler and cancel in main.go, server.go).           *)
THEOREM CheckoutUsesTheLedger == Spec => CallsKeepToTheLedger
<1>1. Init => PaymentBook!LedgerInit
  BY FS_EmptySet DEF Init, PaymentBook!LedgerInit
<1> QED BY <1>1, Typing, NextKeepsToTheLedger, PTL DEF Spec, CallsKeepToTheLedger, PaymentBook!LedgerSpec
=============================================================================
