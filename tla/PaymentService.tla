--------------------------- MODULE PaymentService ---------------------------
(***************************************************************************)
(* The payment service (blackbox/payment).  Every RPC is a goroutine; the  *)
(* two maps are read and written under the lock mu, each critical section  *)
(* is one step.  Cancels hold cancelLock from beginning to end, a second   *)
(* at least.  The answers of GetResult are built from objects of a         *)
(* sync.Pool.                                                              *)
(*                                                                         *)
(* Payment ids (xid) and card tokens (uuid) are never handed out twice.    *)
(* Requests that are refused change nothing and are no steps: an invalid   *)
(* card, an unknown token, an unknown payment id in GetPaymentInformation. *)
(* A pool that is empty makes a new object: in the model one that has been *)
(* there all along, so RawData should not be the limit.                    *)
(***************************************************************************)
EXTENDS Naturals, FiniteSets, Functions

CONSTANTS Proc,         \* RPCs
          Token,        \* card tokens
          RawData,      \* objects of rawDataPool
          MaxPay,       \* bound: payments in one behaviour
          MaxInit       \* bound: calls of Initialize in one behaviour

ASSUME ServiceAssumption == MaxPay \in Nat /\ MaxInit \in Nat

VARIABLES
  cards,        \* keys of CardInfoMap
  payments,     \* PayInfoMap: payment id -> [card, canceled]
  pc,           \* where each RPC is
  card,         \* token checked by an ExecutePayment
  pid,          \* payment id of a CancelPayment
  paydata,      \* its copy of the entry
  cancelLock,   \* RPCs that hold it
  pool,         \* objects in rawDataPool
  content,      \* what is written in an object
  raw,          \* objects an answer consists of
  tokens,       \* history: tokens ever handed out
  issued,       \* history: payments ever made
  epoch,        \* history: calls of Initialize so far
  born,         \* history: epoch a payment was made in
  confirmed,    \* history: payments whose cancel was answered 200
  seen          \* history: what a GetResult found in PayInfoMap

maps == <<cards, payments>>
local == <<card, pid, paydata>>
results == <<pool, content, raw, seen>>
history == <<tokens, issued, epoch, born, confirmed>>
vars == <<maps, pc, local, cancelLock, results, history>>

NoToken == "none"
Empty == [k \in {} |-> {}]
NoData == [card |-> NoToken, canceled |-> FALSE]
Nothing == [id |-> 0, entry |-> NoData]

Goto(p, at) == pc' = [pc EXCEPT ![p] = at]
Put(k, entry) == payments' = [j \in DOMAIN payments \cup {k} |->
                                IF j = k THEN entry ELSE payments[j]]

-----------------------------------------------------------------------------
RegistCard(t) ==
  /\ t \notin tokens
  /\ cards' = cards \cup {t} /\ tokens' = tokens \cup {t}
  /\ UNCHANGED <<payments, pc, local, cancelLock, results, issued, epoch, born, confirmed>>

KnowsNoCard(t) == TRUE
KnowsCard(t) == t \in cards

(* ExecutePayment, first critical section: is the token known?             *)
PayCheck(p, t) ==
  /\ pc[p] = "idle" /\ issued + Cardinality({q \in Proc : pc[q] = "pay"}) < MaxPay
  /\ KnowsCard(t)
  /\ card' = [card EXCEPT ![p] = t]
  /\ Goto(p, "pay")
  /\ UNCHANGED <<maps, pid, paydata, cancelLock, results, history>>

(* Second one: enter the payment.  The card may have been wiped since.     *)
PayStore(p) ==
  /\ pc[p] = "pay"
  /\ issued' = issued + 1
  /\ Put(issued + 1, [card |-> card[p], canceled |-> FALSE])
  /\ born' = [k \in DOMAIN born \cup {issued + 1} |-> IF k = issued + 1 THEN epoch ELSE born[k]]
  /\ card' = [card EXCEPT ![p] = NoToken]
  /\ Goto(p, "idle")
  /\ UNCHANGED <<cards, pid, paydata, cancelLock, results, tokens, epoch, confirmed>>

-----------------------------------------------------------------------------
MayCancelAnyTime == TRUE
MayCancel == cancelLock = {}

(* CancelPayment: take cancelLock and copy the entry, then sleep.          *)
CancelLookup(p, k) ==
  /\ pc[p] = "idle" /\ MayCancel
  /\ cancelLock' = cancelLock \cup {p}
  /\ IF k \in DOMAIN payments
     THEN /\ pid' = [pid EXCEPT ![p] = k]
          /\ paydata' = [paydata EXCEPT ![p] = payments[k]]
          /\ Goto(p, "cancel")
     ELSE /\ Goto(p, "notFound")
          /\ UNCHANGED <<pid, paydata>>
  /\ UNCHANGED <<maps, card, results, history>>

(* The change is made to the copy, and has to be stored back.              *)
StoreNothing(p) == UNCHANGED payments
StoreAnew(p) == Put(issued + 1, [paydata[p] EXCEPT !.canceled = TRUE])
StoreCanceled(p) == Put(pid[p], [paydata[p] EXCEPT !.canceled = TRUE])

CancelStore(p) ==
  /\ pc[p] = "cancel"
  /\ StoreCanceled(p)
  /\ confirmed' = confirmed \cup {pid[p]}
  /\ pid' = [pid EXCEPT ![p] = 0]
  /\ paydata' = [paydata EXCEPT ![p] = NoData]
  /\ cancelLock' = cancelLock \ {p}
  /\ Goto(p, "idle")
  /\ UNCHANGED <<cards, card, results, tokens, issued, epoch, born>>

BulkDeletes(S) == [k \in DOMAIN payments \ S |-> payments[k]]
BulkMarks(S) == [k \in DOMAIN payments |->
                   IF k \in S THEN [payments[k] EXCEPT !.canceled = TRUE] ELSE payments[k]]

(* BulkCancelPayment: all known ids in one critical section, the unknown   *)
(* ones are passed over; then sleep with cancelLock.                       *)
BulkCancel(p, S) ==
  /\ pc[p] = "idle" /\ MayCancel
  /\ cancelLock' = cancelLock \cup {p}
  /\ payments' = BulkMarks(S)
  /\ confirmed' = confirmed \cup (S \cap DOMAIN payments)
  /\ Goto(p, "bulk")
  /\ UNCHANGED <<cards, local, results, tokens, issued, epoch, born>>

(* An unknown id (404), or a bulk cancel that has slept.                   *)
CancelEnd(p) ==
  /\ pc[p] \in {"notFound", "bulk"}
  /\ cancelLock' = cancelLock \ {p}
  /\ Goto(p, "idle")
  /\ UNCHANGED <<maps, local, results, history>>

-----------------------------------------------------------------------------
(* Initialize: two new maps.  It does not ask for cancelLock.              *)
Initialize ==
  /\ epoch < MaxInit
  /\ cards' = {} /\ payments' = Empty
  /\ epoch' = epoch + 1
  /\ UNCHANGED <<pc, local, cancelLock, results, tokens, issued, born, confirmed>>

-----------------------------------------------------------------------------
(* GetResult.                                                              *)

Entries(f) == {[id |-> k, entry |-> f[k]] : k \in DOMAIN f}
Written(S) == {content[o] : o \in S}

PutAtOnce(p, S) == pool
PutDeferred(p, S) == pool \ S

(* One object from the pool for every payment, filled in under mu.         *)
ResultFill(p) ==
  /\ pc[p] = "idle"
  /\ \E f \in Injection(DOMAIN payments, pool) :
       LET used == {f[k] : k \in DOMAIN payments}
       IN  /\ content' = [o \in RawData |->
                            IF o \in used
                            THEN LET k == CHOOSE k \in DOMAIN payments : f[k] = o
                                 IN  [id |-> k, entry |-> payments[k]]
                            ELSE content[o]]
           /\ raw' = [raw EXCEPT ![p] = used]
           /\ pool' = PutDeferred(p, used)
  /\ seen' = [seen EXCEPT ![p] = Entries(payments)]
  /\ Goto(p, "filled")
  /\ UNCHANGED <<maps, local, cancelLock, history>>

(* The goroutine has sent the answer and ends: its deferred calls of       *)
(* putRawData run, whether the answer has been marshalled or not.          *)
ResultRelease(p) ==
  /\ pc[p] = "filled"
  /\ pool' = pool \cup raw[p]
  /\ Goto(p, "released")
  /\ UNCHANGED <<maps, local, cancelLock, content, raw, seen, history>>

(* gRPC has marshalled the answer.  (If it was done before the release,    *)
(* nobody can tell.)                                                       *)
ResultSent(p) ==
  /\ pc[p] = "released"
  /\ raw' = [raw EXCEPT ![p] = {}]
  /\ seen' = [seen EXCEPT ![p] = {}]
  /\ Goto(p, "idle")
  /\ UNCHANGED <<maps, local, cancelLock, pool, content, history>>

-----------------------------------------------------------------------------
Init ==
  /\ cards = {} /\ payments = Empty
  /\ pc = [p \in Proc |-> "idle"]
  /\ card = [p \in Proc |-> NoToken]
  /\ pid = [p \in Proc |-> 0]
  /\ paydata = [p \in Proc |-> NoData]
  /\ cancelLock = {}
  /\ pool = RawData
  /\ content = [o \in RawData |-> Nothing]
  /\ raw = [p \in Proc |-> {}] /\ seen = [p \in Proc |-> {}]
  /\ tokens = {} /\ issued = 0 /\ epoch = 0 /\ born = Empty /\ confirmed = {}

Next ==
  \/ \E t \in Token : RegistCard(t)
  \/ Initialize
  \/ \E p \in Proc :
       \/ \E t \in Token : PayCheck(p, t)
       \/ PayStore(p)
       \/ \E k \in 1 .. issued + 1 : CancelLookup(p, k)
       \/ CancelStore(p)
       \/ \E S \in SUBSET (1 .. issued) : BulkCancel(p, S)
       \/ CancelEnd(p)
       \/ ResultFill(p) \/ ResultRelease(p) \/ ResultSent(p)

Spec == Init /\ [][Next]_vars

-----------------------------------------------------------------------------
(* Properties.                                                             *)

PayIds == 1 .. issued
Entry == [card : Token \cup {NoToken}, canceled : BOOLEAN]
Content == [id : Nat, entry : Entry]

(* Type correctness; every payment id in use has been handed out.          *)
TypeOK ==
  /\ cards \subseteq Token /\ tokens \subseteq Token
  /\ issued \in Nat /\ epoch \in Nat
  /\ DOMAIN payments \subseteq PayIds /\ payments \in [DOMAIN payments -> Entry]
  /\ pc \in [Proc -> {"idle", "pay", "cancel", "notFound", "bulk", "filled", "released"}]
  /\ card \in [Proc -> Token \cup {NoToken}]
  /\ pid \in [Proc -> PayIds \cup {0}]
  /\ paydata \in [Proc -> Entry]
  /\ cancelLock \subseteq Proc /\ pool \subseteq RawData
  /\ content \in [RawData -> Content]
  /\ raw \in [Proc -> SUBSET RawData] /\ seen \in [Proc -> SUBSET Content]
  /\ born \in [PayIds -> 0 .. epoch]
  /\ confirmed \subseteq PayIds
  /\ \A p \in Proc : pc[p] = "cancel" => pid[p] \in PayIds

(* A payment is only ever made with a token that was handed out.           *)
ChargedToACard == \A k \in DOMAIN payments : payments[k].card \in tokens

(* A cancel answered 200 stays done: no later write of anybody's copy      *)
(* brings the payment back to life (docs/payment_spec.md, DELETE).         *)
ConfirmedStaysCanceled ==
  \A k \in confirmed \cap DOMAIN payments : payments[k].canceled

Stale == {k \in DOMAIN payments : born[k] < epoch}

(* What Initialize can leave behind: a cancel asleep when it ran writes    *)
(* its copy back.  Such a payment is canceled, so the final check of the   *)
(* benchmark does not count it, and cancelLock keeps it to one.            *)
OneStaleAndCanceled ==
  /\ \A k \in Stale : payments[k].canceled
  /\ \A j, k \in Stale : j = k

(* As long as a GetResult holds its objects, they say what it has found    *)
(* in the map, and no other call or the pool has them.                     *)
HeldResultIsRight ==
  \A p \in Proc : pc[p] = "filled" =>
    /\ Written(raw[p]) = seen[p]
    /\ raw[p] \cap pool = {}
    /\ \A q \in Proc \ {p} : pc[q] = "filled" => raw[p] \cap raw[q] = {}

(* The answer that is marshalled is what GetResult found in the map        *)
(* (server_test.go: the raw data of the four payments comes out).          *)
AnswerIsRight == \A p \in Proc : pc[p] \in {"filled", "released"} => Written(raw[p]) = seen[p]

(* The service implements the ledger of payments.                          *)
Ledger == INSTANCE PaymentLedger WITH
            Data <- Token,
            ledger <- [k \in DOMAIN payments |->
                         [data |-> payments[k].card, canceled |-> payments[k].canceled]]
ImplementsLedger == Ledger!LedgerSpec
=============================================================================
