------------------------ MODULE PaymentServiceProofs ------------------------
(***************************************************************************)
(* Proofs about PaymentService for every number of RPCs, card tokens,      *)
(* payments and calls of Initialize.                                       *)
(***************************************************************************)
EXTENDS PaymentService, TLAPS

-----------------------------------------------------------------------------
(* What the operations on PayInfoMap leave in it.                          *)

LEMMA PutEntry ==
  ASSUME TypeOK, NEW k, NEW e \in Entry, Put(k, e)
  PROVE  /\ DOMAIN payments' = DOMAIN payments \cup {k}
         /\ payments'[k] = e
         /\ \A j \in DOMAIN payments \ {k} : payments'[j] = payments[j]
         /\ payments' \in [DOMAIN payments' -> Entry]
  BY DEF Put, TypeOK

LEMMA CanceledEntry ==
  ASSUME NEW e \in Entry
  PROVE  /\ [e EXCEPT !.canceled = TRUE] \in Entry
         /\ [e EXCEPT !.canceled = TRUE].canceled
         /\ [e EXCEPT !.canceled = TRUE].card = e.card
  BY DEF Entry

(* What an ExecutePayment enters, and what a CancelPayment writes back.     *)
LEMMA PaymentEntered ==
  ASSUME TypeOK, NEW p \in Proc, PayStore(p)
  PROVE  /\ issued + 1 \notin PayIds
         /\ PayIds' = PayIds \cup {issued + 1}
         /\ DOMAIN payments' = DOMAIN payments \cup {issued + 1}
         /\ payments'[issued + 1] = [card |-> card[p], canceled |-> FALSE]
         /\ \A k \in DOMAIN payments : payments'[k] = payments[k]
         /\ payments' \in [DOMAIN payments' -> Entry]
<1> DEFINE e == [card |-> card[p], canceled |-> FALSE]
<1>1. e \in Entry /\ Put(issued + 1, e)
  BY DEF Entry, PayStore, TypeOK
<1>2. /\ issued + 1 \notin PayIds /\ PayIds' = PayIds \cup {issued + 1}
      /\ DOMAIN payments \subseteq PayIds
  BY DEF TypeOK, PayIds, PayStore
<1> HIDE DEF e
<1>3. /\ DOMAIN payments' = DOMAIN payments \cup {issued + 1}
      /\ payments'[issued + 1] = e
      /\ \A k \in DOMAIN payments \ {issued + 1} : payments'[k] = payments[k]
      /\ payments' \in [DOMAIN payments' -> Entry]
  BY <1>1, PutEntry
<1> QED BY <1>2, <1>3 DEF e

LEMMA CancelStored ==
  ASSUME TypeOK, NEW p \in Proc, CancelStore(p)
  PROVE  /\ pid[p] \in PayIds
         /\ DOMAIN payments' = DOMAIN payments \cup {pid[p]}
         /\ payments'[pid[p]] = [paydata[p] EXCEPT !.canceled = TRUE]
         /\ payments'[pid[p]].card = paydata[p].card /\ payments'[pid[p]].canceled
         /\ \A k \in DOMAIN payments \ {pid[p]} : payments'[k] = payments[k]
         /\ payments' \in [DOMAIN payments' -> Entry]
<1> DEFINE e == [paydata[p] EXCEPT !.canceled = TRUE]
<1>1. /\ e \in Entry /\ e.canceled /\ e.card = paydata[p].card
      /\ Put(pid[p], e) /\ pid[p] \in PayIds
  BY CanceledEntry DEF TypeOK, CancelStore, StoreCanceled
<1> HIDE DEF e
<1>2. /\ DOMAIN payments' = DOMAIN payments \cup {pid[p]}
      /\ payments'[pid[p]] = e
      /\ \A k \in DOMAIN payments \ {pid[p]} : payments'[k] = payments[k]
      /\ payments' \in [DOMAIN payments' -> Entry]
  BY <1>1, PutEntry
<1> QED BY <1>1, <1>2 DEF e

LEMMA BulkEntries ==
  ASSUME TypeOK, NEW S, payments' = BulkMarks(S)
  PROVE  /\ DOMAIN payments' = DOMAIN payments
         /\ \A k \in DOMAIN payments :
              /\ payments'[k].card = payments[k].card
              /\ payments'[k].canceled = (k \in S \/ payments[k].canceled)
         /\ payments' \in [DOMAIN payments' -> Entry]
<1>1. payments \in [DOMAIN payments -> Entry]
  BY DEF TypeOK
<1>2. DOMAIN payments' = DOMAIN payments
  BY DEF BulkMarks
<1>3. ASSUME NEW k \in DOMAIN payments
      PROVE  /\ payments'[k] \in Entry
             /\ payments'[k].card = payments[k].card
             /\ payments'[k].canceled = (k \in S \/ payments[k].canceled)
  <2>1. payments[k] \in Entry
    BY <1>1
  <2>2. payments[k].canceled \in BOOLEAN
    BY <2>1 DEF Entry
  <2>3. CASE k \in S
    <3>1. payments'[k] = [payments[k] EXCEPT !.canceled = TRUE]
      BY <2>3 DEF BulkMarks
    <3> QED BY <2>1, <2>3, <3>1, CanceledEntry
  <2>4. CASE k \notin S
    <3>1. payments'[k] = payments[k]
      BY <2>4 DEF BulkMarks
    <3> QED BY <2>1, <2>2, <2>4, <3>1
  <2> QED BY <2>3, <2>4
<1>4. payments' \in [DOMAIN payments' -> Entry]
  <2>1. payments' = [k \in DOMAIN payments' |-> payments'[k]]
    BY <1>2 DEF BulkMarks
  <2> QED BY <1>2, <1>3, <2>1
<1> QED BY <1>2, <1>3, <1>4

-----------------------------------------------------------------------------
(* Type correctness.                                                       *)

LEMMA InitType == Init => TypeOK
  BY DEF Init, TypeOK, Empty, NoData, Nothing, Entry, Content, PayIds

LEMMA PayType ==
  ASSUME TypeOK, NEW p \in Proc, (\E t \in Token : PayCheck(p, t)) \/ PayStore(p)
  PROVE  TypeOK'
<1>1. ASSUME NEW t \in Token, PayCheck(p, t) PROVE TypeOK'
  BY <1>1 DEF PayCheck, TypeOK, Goto, maps, results, history, PayIds
<1>2. CASE PayStore(p)
  <2>1. /\ issued' \in Nat /\ DOMAIN payments' \subseteq PayIds'
        /\ payments' \in [DOMAIN payments' -> Entry]
    <3>1. issued' \in Nat /\ DOMAIN payments \subseteq PayIds
      BY <1>2 DEF TypeOK, PayStore
    <3>2. /\ DOMAIN payments' = DOMAIN payments \cup {issued + 1}
          /\ PayIds' = PayIds \cup {issued + 1}
          /\ payments' \in [DOMAIN payments' -> Entry]
      BY <1>2, PaymentEntered
    <3> QED BY <3>1, <3>2
  <2>2. PayIds' = PayIds \cup {issued + 1}
    BY <1>2, PaymentEntered
  <2>3. born' \in [PayIds' -> 0 .. epoch'] /\ confirmed' \subseteq PayIds'
    BY <1>2, <2>2 DEF TypeOK, PayStore
  <2>4. /\ pid' \in [Proc -> PayIds' \cup {0}]
        /\ \A q \in Proc : pc'[q] = "cancel" => pid'[q] \in PayIds'
    BY <1>2, <2>2 DEF TypeOK, PayStore, Goto
  <2> QED BY <1>2, <2>1, <2>3, <2>4 DEF TypeOK, PayStore, Goto, results
<1> QED BY <1>1, <1>2

LEMMA CancelType ==
  ASSUME TypeOK, NEW p \in Proc,
         \/ \E k \in 1 .. issued + 1 : CancelLookup(p, k)
         \/ CancelStore(p)
         \/ \E S \in SUBSET (1 .. issued) : BulkCancel(p, S)
         \/ CancelEnd(p)
  PROVE  TypeOK'
<1>1. ASSUME NEW k \in 1 .. issued + 1, CancelLookup(p, k) PROVE TypeOK'
  <2> USE DEF CancelLookup, Goto, maps, results, history, PayIds
  <2>1. CASE k \in DOMAIN payments
    <3>1. payments[k] \in Entry /\ k \in PayIds
      BY <2>1 DEF TypeOK
    <3>2. pid' = [pid EXCEPT ![p] = k] /\ paydata' = [paydata EXCEPT ![p] = payments[k]]
      BY <1>1, <2>1
    <3>3. /\ pid' \in [Proc -> PayIds \cup {0}] /\ paydata' \in [Proc -> Entry]
          /\ pid'[p] \in PayIds
      BY <3>1, <3>2 DEF TypeOK
    <3>4. \A q \in Proc : pc'[q] = "cancel" => pid'[q] \in PayIds
      BY <1>1, <2>1, <3>1 DEF TypeOK
    <3> QED BY <1>1, <2>1, <3>3, <3>4 DEF TypeOK
  <2>2. CASE k \notin DOMAIN payments
    BY <1>1, <2>2 DEF TypeOK
  <2> QED BY <2>1, <2>2
<1>2. CASE CancelStore(p)
  <2>1. /\ pid[p] \in PayIds
        /\ DOMAIN payments' = DOMAIN payments \cup {pid[p]}
        /\ payments' \in [DOMAIN payments' -> Entry]
    BY <1>2, CancelStored
  <2>2. DOMAIN payments' \subseteq PayIds'
    BY <1>2, <2>1 DEF TypeOK, PayIds, CancelStore
  <2>3. NoData \in Entry
    BY DEF NoData, Entry
  <2> QED BY <1>2, <2>1, <2>2, <2>3 DEF TypeOK, CancelStore, Goto, results, PayIds
<1>3. ASSUME NEW S \in SUBSET (1 .. issued), BulkCancel(p, S) PROVE TypeOK'
  <2>1. DOMAIN payments' = DOMAIN payments /\ payments' \in [DOMAIN payments' -> Entry]
    BY <1>3, BulkEntries DEF BulkCancel
  <2> QED BY <1>3, <2>1 DEF TypeOK, BulkCancel, Goto, results, local, PayIds
<1>4. CASE CancelEnd(p)
  BY <1>4 DEF TypeOK, CancelEnd, Goto, maps, local, results, history, PayIds
<1> QED BY <1>1, <1>2, <1>3, <1>4

(* What a GetResult finds, and writes in an object, is well-typed.         *)
LEMMA FillType ==
  ASSUME TypeOK, NEW p \in Proc, ResultFill(p)
  PROVE  TypeOK'
<1>1. PICK f \in Injection(DOMAIN payments, pool) :
        LET used == {f[k] : k \in DOMAIN payments}
        IN  /\ content' = [o \in RawData |->
                             IF o \in used
                             THEN LET k == CHOOSE k \in DOMAIN payments : f[k] = o
                                  IN  [id |-> k, entry |-> payments[k]]
                             ELSE content[o]]
            /\ raw' = [raw EXCEPT ![p] = used]
            /\ pool' = PutDeferred(p, used)
  BY DEF ResultFill
<1> DEFINE used == {f[k] : k \in DOMAIN payments}
           key(o) == CHOOSE k \in DOMAIN payments : f[k] = o
<1>2. \A k \in DOMAIN payments : k \in Nat /\ payments[k] \in Entry
  BY DEF TypeOK, PayIds
<1>3. \A o \in used : key(o) \in DOMAIN payments
  OBVIOUS
<1>4. used \subseteq RawData
  BY DEF Injection, TypeOK
<1>5. content' = [o \in RawData |-> IF o \in used THEN [id |-> key(o), entry |-> payments[key(o)]]
                                    ELSE content[o]]
  BY <1>1
<1> HIDE DEF key
<1>6. content' \in [RawData -> Content]
  BY <1>2, <1>3, <1>5 DEF TypeOK, Content
<1>7. Entries(payments) \in SUBSET Content
  BY <1>2 DEF Entries, Content
<1>8. seen' \in [Proc -> SUBSET Content]
  BY <1>7 DEF ResultFill, TypeOK
<1>9. raw' \in [Proc -> SUBSET RawData] /\ pool' \subseteq RawData
  BY <1>1, <1>4 DEF TypeOK, PutDeferred
<1> QED BY <1>6, <1>8, <1>9 DEF TypeOK, ResultFill, Goto, maps, local, history, PayIds

LEMMA NextType == TypeOK /\ [Next]_vars => TypeOK'
<1> SUFFICES ASSUME TypeOK, [Next]_vars PROVE TypeOK'
  OBVIOUS
<1>1. ASSUME NEW t \in Token, RegistCard(t) PROVE TypeOK'
  BY <1>1 DEF TypeOK, RegistCard, local, results, PayIds
<1>2. CASE Initialize
  <2>1. DOMAIN payments' = {} /\ payments' \in [DOMAIN payments' -> Entry]
    BY <1>2 DEF Initialize, Empty
  <2>2. born' \in [PayIds' -> 0 .. epoch'] /\ epoch' \in Nat
    BY <1>2 DEF TypeOK, Initialize, PayIds
  <2> QED BY <1>2, <2>1, <2>2 DEF TypeOK, Initialize, local, results, PayIds
<1>3. ASSUME NEW p \in Proc, ResultRelease(p) \/ ResultSent(p) PROVE TypeOK'
  BY <1>3 DEF TypeOK, ResultRelease, ResultSent, Goto, maps, local, history, PayIds
<1>4. CASE UNCHANGED vars
  BY <1>4 DEF TypeOK, vars, maps, local, results, history, PayIds
<1> QED BY <1>1, <1>2, <1>3, <1>4, PayType, CancelType, FillType DEF Next

(* Maps, RPCs and result objects stay well-typed, and every payment id in  *)
(* use was handed out by an ExecutePayment (server.go:106).                *)
THEOREM Typing == Spec => []TypeOK
  BY InitType, NextType, PTL DEF Spec

-----------------------------------------------------------------------------
(* Tokens: every token a payment is made with, or about to be, was handed  *)
(* out.                                                                    *)
TokensKnown ==
  /\ ChargedToACard
  /\ cards \subseteq tokens
  /\ \A p \in Proc : /\ pc[p] = "pay" => card[p] \in tokens
                     /\ pc[p] = "cancel" => paydata[p].card \in tokens

LEMMA NextTokens == TypeOK /\ TokensKnown /\ [Next]_vars => TokensKnown'
<1> SUFFICES ASSUME TypeOK, TokensKnown, [Next]_vars PROVE TokensKnown'
  OBVIOUS
<1> USE DEF TokensKnown, ChargedToACard, Goto
<1>1. ASSUME NEW t \in Token, RegistCard(t) PROVE TokensKnown'
  BY <1>1 DEF RegistCard, local, TypeOK
<1>2. CASE Initialize
  BY <1>2 DEF Initialize, Empty, local
<1>3. ASSUME NEW p \in Proc, NEW t \in Token, PayCheck(p, t) PROVE TokensKnown'
  BY <1>3 DEF PayCheck, KnowsCard, maps, history, TypeOK
<1>4. ASSUME NEW p \in Proc, PayStore(p) PROVE TokensKnown'
  <2>1. card[p] \in tokens
    BY <1>4 DEF PayStore
  <2>2. /\ DOMAIN payments' = DOMAIN payments \cup {issued + 1}
        /\ payments'[issued + 1].card \in tokens
        /\ \A k \in DOMAIN payments : payments'[k] = payments[k]
    <3>1. payments'[issued + 1] = [card |-> card[p], canceled |-> FALSE]
      BY <1>4, PaymentEntered
    <3>2. payments'[issued + 1].card = card[p]
      BY <3>1
    <3>3. /\ DOMAIN payments' = DOMAIN payments \cup {issued + 1}
          /\ \A k \in DOMAIN payments : payments'[k] = payments[k]
      BY <1>4, PaymentEntered
    <3> QED BY <2>1, <3>2, <3>3
  <2> QED BY <1>4, <2>2 DEF PayStore, TypeOK
<1>5. ASSUME NEW p \in Proc, NEW k \in 1 .. issued + 1, CancelLookup(p, k) PROVE TokensKnown'
  BY <1>5 DEF CancelLookup, maps, history, TypeOK
<1>6. ASSUME NEW p \in Proc, CancelStore(p) PROVE TokensKnown'
  <2>1. paydata[p].card \in tokens
    BY <1>6 DEF CancelStore
  <2>2. /\ DOMAIN payments' = DOMAIN payments \cup {pid[p]}
        /\ payments'[pid[p]].card \in tokens
        /\ \A k \in DOMAIN payments \ {pid[p]} : payments'[k] = payments[k]
    BY <1>6, <2>1, CancelStored
  <2> QED BY <1>6, <2>2 DEF CancelStore, TypeOK
<1>7. ASSUME NEW p \in Proc, NEW S \in SUBSET (1 .. issued), BulkCancel(p, S) PROVE TokensKnown'
  <2>1. \A k \in DOMAIN payments' : k \in DOMAIN payments /\ payments'[k].card = payments[k].card
    BY <1>7, BulkEntries DEF BulkCancel
  <2> QED BY <1>7, <2>1 DEF BulkCancel, local, TypeOK
<1>8. ASSUME NEW p \in Proc, CancelEnd(p) PROVE TokensKnown'
  BY <1>8 DEF CancelEnd, maps, local, history, TypeOK
<1>9. ASSUME NEW p \in Proc, ResultFill(p) \/ ResultRelease(p) \/ ResultSent(p) PROVE TokensKnown'
  BY <1>9 DEF ResultFill, ResultRelease, ResultSent, maps, local, history, TypeOK
<1>10. CASE UNCHANGED vars
  BY <1>10 DEF vars, maps, local, history
<1> QED BY <1>1, <1>2, <1>3, <1>4, <1>5, <1>6, <1>7, <1>8, <1>9, <1>10 DEF Next

LEMMA InitTokens == Init => TokensKnown
  BY DEF Init, TokensKnown, ChargedToACard, Empty

(* The payment service charges no token that RegistCard has not given out  *)
(* (server.go:97), Initialize and slow requests or not.                    *)
THEOREM ChargesAreToCards == Spec => []ChargedToACard
<1>1. TokensKnown => ChargedToACard
  BY DEF TokensKnown
<1> QED BY <1>1, Typing, InitTokens, NextTokens, PTL DEF Spec

-----------------------------------------------------------------------------
(* Confirmed cancels.                                                      *)

LEMMA NextConfirmed ==
  TypeOK /\ ConfirmedStaysCanceled /\ [Next]_vars => ConfirmedStaysCanceled'
<1> SUFFICES ASSUME TypeOK, ConfirmedStaysCanceled, [Next]_vars PROVE ConfirmedStaysCanceled'
  OBVIOUS
<1> USE DEF ConfirmedStaysCanceled
<1>1. ASSUME NEW p \in Proc, PayStore(p) PROVE ConfirmedStaysCanceled'
  <2>1. issued + 1 \notin confirmed /\ confirmed' = confirmed
    BY <1>1, PaymentEntered DEF TypeOK, PayStore
  <2> QED BY <1>1, <2>1, PaymentEntered
<1>2. ASSUME NEW p \in Proc, CancelStore(p) PROVE ConfirmedStaysCanceled'
  <2>1. confirmed' = confirmed \cup {pid[p]}
    BY <1>2 DEF CancelStore
  <2> QED BY <1>2, <2>1, CancelStored
<1>3. ASSUME NEW p \in Proc, NEW S \in SUBSET (1 .. issued), BulkCancel(p, S)
      PROVE  ConfirmedStaysCanceled'
  BY <1>3, BulkEntries DEF BulkCancel
<1>4. CASE Initialize
  BY <1>4 DEF Initialize, Empty
<1>5. ASSUME UNCHANGED <<payments, confirmed>> PROVE ConfirmedStaysCanceled'
  BY <1>5
<1> QED BY <1>1, <1>2, <1>3, <1>4, <1>5 DEF Next, RegistCard, PayCheck, CancelLookup, CancelEnd,
           ResultFill, ResultRelease, ResultSent, vars, maps, history

(* A cancel that was answered stays done, whichever copies other cancels   *)
(* write back (server.go:146, 181) and whenever Initialize runs.           *)
THEOREM CancelsStayDone == Spec => []ConfirmedStaysCanceled
<1>1. Init => ConfirmedStaysCanceled
  BY DEF Init, ConfirmedStaysCanceled
<1> QED BY <1>1, Typing, NextConfirmed, PTL DEF Spec

-----------------------------------------------------------------------------
(* One cancel at a time, and what Initialize can leave behind.             *)

OneCanceler ==
  /\ \A p \in Proc : pc[p] \in {"cancel", "notFound", "bulk"} <=> p \in cancelLock
  /\ \A p, q \in cancelLock : p = q

(* While a stale payment is in the map, a cancel that sleeps is one of it, *)
(* or of a payment of the current epoch.                                   *)
StaleInv ==
  /\ OneStaleAndCanceled
  /\ \A k \in Stale, p \in Proc : pc[p] = "cancel" => pid[p] = k \/ born[pid[p]] = epoch

LEMMA NextCanceler == TypeOK /\ OneCanceler /\ [Next]_vars => OneCanceler'
<1> SUFFICES ASSUME TypeOK, OneCanceler, [Next]_vars PROVE OneCanceler'
  OBVIOUS
<1> USE DEF OneCanceler, Goto
<1>1. ASSUME NEW p \in Proc, NEW k \in 1 .. issued + 1, CancelLookup(p, k) PROVE OneCanceler'
  BY <1>1 DEF CancelLookup, MayCancel, TypeOK
<1>2. ASSUME NEW p \in Proc, CancelStore(p) PROVE OneCanceler'
  BY <1>2 DEF CancelStore, TypeOK
<1>3. ASSUME NEW p \in Proc, NEW S \in SUBSET (1 .. issued), BulkCancel(p, S) PROVE OneCanceler'
  BY <1>3 DEF BulkCancel, MayCancel, TypeOK
<1>4. ASSUME NEW p \in Proc, CancelEnd(p) PROVE OneCanceler'
  BY <1>4 DEF CancelEnd, TypeOK
<1>5. ASSUME NEW p \in Proc, \/ \E t \in Token : PayCheck(p, t)
                             \/ PayStore(p) \/ ResultFill(p) \/ ResultRelease(p) \/ ResultSent(p)
      PROVE  OneCanceler'
  BY <1>5 DEF PayCheck, PayStore, ResultFill, ResultRelease, ResultSent, TypeOK
<1>6. ASSUME UNCHANGED <<pc, cancelLock>> PROVE OneCanceler'
  BY <1>6
<1> QED BY <1>1, <1>2, <1>3, <1>4, <1>5, <1>6 DEF Next, RegistCard, Initialize, vars

LEMMA NextStale == TypeOK /\ OneCanceler /\ StaleInv /\ [Next]_vars => StaleInv'
<1> SUFFICES ASSUME TypeOK, OneCanceler, StaleInv, [Next]_vars PROVE StaleInv'
  OBVIOUS
<1> USE DEF StaleInv, OneStaleAndCanceled, Stale
<1>1. ASSUME NEW p \in Proc, PayStore(p) PROVE StaleInv'
  <2>1. issued + 1 \notin PayIds /\ DOMAIN payments \subseteq PayIds /\ epoch \in Nat
    BY <1>1, PaymentEntered DEF TypeOK
  <2>2. /\ epoch' = epoch /\ born'[issued + 1] = epoch
        /\ \A k \in PayIds : born'[k] = born[k]
    BY <1>1, <2>1 DEF PayStore, TypeOK
  <2>3. /\ DOMAIN payments' = DOMAIN payments \cup {issued + 1}
        /\ \A k \in DOMAIN payments : payments'[k] = payments[k]
    BY <1>1, PaymentEntered
  <2>4. Stale' = Stale /\ \A k \in Stale : payments'[k] = payments[k]
    BY <2>1, <2>2, <2>3
  <2>5. /\ pid' = pid
        /\ \A q \in Proc : pc'[q] = "cancel" => pc[q] = "cancel" /\ pid[q] \in PayIds
    BY <1>1 DEF PayStore, Goto, TypeOK
  <2> QED BY <2>2, <2>4, <2>5
<1>2. ASSUME NEW p \in Proc, NEW k \in 1 .. issued + 1, CancelLookup(p, k) PROVE StaleInv'
  <2>1. /\ UNCHANGED <<payments, born, epoch>>
        /\ \A q \in Proc : pc'[q] = "cancel" => q = p
    BY <1>2 DEF CancelLookup, MayCancel, OneCanceler, Goto, maps, history, TypeOK
  <2>2. pc'[p] = "cancel" => pid'[p] \in DOMAIN payments
    BY <1>2 DEF CancelLookup, Goto, TypeOK
  <2>3. \A j \in DOMAIN payments : j \in Stale \/ born[j] = epoch
    BY DEF TypeOK
  <2> QED BY <2>1, <2>2, <2>3
<1>3. ASSUME NEW p \in Proc, CancelStore(p) PROVE StaleInv'
  <2>1. /\ UNCHANGED <<born, epoch>> /\ pc[p] = "cancel"
        /\ \A q \in Proc : pc'[q] # "cancel"
    BY <1>3 DEF CancelStore, OneCanceler, Goto, TypeOK
  <2>2. /\ DOMAIN payments' = DOMAIN payments \cup {pid[p]}
        /\ payments'[pid[p]].canceled
        /\ \A k \in DOMAIN payments \ {pid[p]} : payments'[k] = payments[k]
    BY <1>3, CancelStored
  <2>3. \A k \in Stale : pid[p] = k \/ born[pid[p]] = epoch
    BY <2>1
  <2>4. Stale' \subseteq Stale \cup {pid[p]}
    BY <2>1, <2>2
  <2>5. \A k \in Stale' : payments'[k].canceled
    BY <2>2, <2>4
  <2>6. epoch \in Nat
    BY DEF TypeOK
  <2>7. \A j, k \in Stale' : j = k
    BY <2>1, <2>3, <2>4, <2>6
  <2> QED BY <2>1, <2>5, <2>7
<1>4. ASSUME NEW p \in Proc, NEW S \in SUBSET (1 .. issued), BulkCancel(p, S) PROVE StaleInv'
  <2>1. UNCHANGED <<born, epoch, pid>> /\ \A q \in Proc : pc'[q] = "cancel" => pc[q] = "cancel"
    BY <1>4 DEF BulkCancel, Goto, TypeOK, local
  <2>2. /\ DOMAIN payments' = DOMAIN payments
        /\ \A k \in DOMAIN payments : payments[k].canceled => payments'[k].canceled
    BY <1>4, BulkEntries DEF BulkCancel
  <2> QED BY <2>1, <2>2
<1>5. CASE Initialize
  BY <1>5 DEF Initialize, Empty
<1>6. ASSUME NEW p \in Proc, \/ \E t \in Token : PayCheck(p, t)
                             \/ CancelEnd(p) \/ ResultFill(p) \/ ResultRelease(p) \/ ResultSent(p)
      PROVE  StaleInv'
  <2>1. UNCHANGED <<payments, born, epoch, pid>> /\ \A q \in Proc : pc'[q] = "cancel" => pc[q] = "cancel"
    BY <1>6 DEF PayCheck, CancelEnd, ResultFill, ResultRelease, ResultSent,
                Goto, TypeOK, maps, local, history
  <2> QED BY <2>1
<1>7. ASSUME UNCHANGED <<payments, born, epoch, pid, pc>> PROVE StaleInv'
  BY <1>7
<1> QED BY <1>1, <1>2, <1>3, <1>4, <1>5, <1>6, <1>7
        DEF Next, RegistCard, vars, maps, local, history

LEMMA InitStale == Init => OneCanceler /\ StaleInv
  BY DEF Init, OneCanceler, StaleInv, OneStaleAndCanceled, Stale, Empty

(* A cancel asleep during Initialize brings its payment back (server.go:   *)
(* 140, 146), canceled; cancelLock sees to it that there is never more     *)
(* than one such payment, however often Initialize runs.                   *)
THEOREM InitializeLeavesOne == Spec => []OneStaleAndCanceled
<1>1. StaleInv => OneStaleAndCanceled
  BY DEF StaleInv
<1> QED BY <1>1, Typing, InitStale, NextCanceler, NextStale, PTL DEF Spec

-----------------------------------------------------------------------------
(* The service implements the ledger of payments.                          *)

(* The payment of PayInfoMap as the ledger sees it.                        *)
View(k) == [data |-> payments[k].card, canceled |-> payments[k].canceled]
LedgerView == [k \in DOMAIN payments |-> View(k)]

(* The copy that a cancel holds says what the map says, if the payment is  *)
(* still there.                                                            *)
CopyAgrees ==
  \A p \in Proc : pc[p] = "cancel" /\ pid[p] \in DOMAIN payments
                    => payments[pid[p]].card = paydata[p].card

LEMMA NextCopy == TypeOK /\ OneCanceler /\ CopyAgrees /\ [Next]_vars => CopyAgrees'
<1> SUFFICES ASSUME TypeOK, OneCanceler, CopyAgrees, [Next]_vars PROVE CopyAgrees'
  OBVIOUS
<1> USE DEF CopyAgrees
<1>1. ASSUME NEW p \in Proc, PayStore(p) PROVE CopyAgrees'
  <2>1. /\ UNCHANGED <<pid, paydata>>
        /\ \A q \in Proc : pc'[q] = "cancel" => pc[q] = "cancel" /\ pid[q] \in PayIds
    BY <1>1 DEF PayStore, Goto, TypeOK
  <2> QED BY <1>1, <2>1, PaymentEntered
<1>2. ASSUME NEW p \in Proc, NEW k \in 1 .. issued + 1, CancelLookup(p, k) PROVE CopyAgrees'
  BY <1>2 DEF CancelLookup, Goto, maps, TypeOK
<1>3. ASSUME NEW p \in Proc, CancelStore(p) PROVE CopyAgrees'
  BY <1>3 DEF CancelStore, OneCanceler, Goto, TypeOK
<1>4. ASSUME NEW p \in Proc, NEW S \in SUBSET (1 .. issued), BulkCancel(p, S) PROVE CopyAgrees'
  <2>1. UNCHANGED <<pid, paydata>> /\ \A q \in Proc : pc'[q] = "cancel" => pc[q] = "cancel"
    BY <1>4 DEF BulkCancel, Goto, TypeOK, local
  <2> QED BY <1>4, <2>1, BulkEntries DEF BulkCancel
<1>5. CASE Initialize
  BY <1>5 DEF Initialize, Empty
<1>6. ASSUME NEW p \in Proc, \/ \E t \in Token : PayCheck(p, t)
                             \/ CancelEnd(p) \/ ResultFill(p) \/ ResultRelease(p) \/ ResultSent(p)
      PROVE  CopyAgrees'
  <2>1. /\ UNCHANGED <<payments, pid, paydata>>
        /\ \A q \in Proc : pc'[q] = "cancel" => pc[q] = "cancel"
    BY <1>6 DEF PayCheck, CancelEnd, ResultFill, ResultRelease, ResultSent, Goto, TypeOK, maps, local
  <2> QED BY <2>1
<1>7. ASSUME UNCHANGED <<payments, pid, paydata, pc>> PROVE CopyAgrees'
  BY <1>7
<1> QED BY <1>1, <1>2, <1>3, <1>4, <1>5, <1>6, <1>7 DEF Next, RegistCard, vars, maps, local

LEMMA ChargeStep ==
  ASSUME TypeOK, TokensKnown, NEW p \in Proc, PayStore(p)
  PROVE  Ledger!LedgerNext
<1>1. PICK d \in Token : d = card[p]
  BY DEF TokensKnown, TypeOK, PayStore
<1>2. /\ DOMAIN payments' = DOMAIN payments \cup {issued + 1}
      /\ payments'[issued + 1] = [card |-> d, canceled |-> FALSE]
      /\ \A k \in DOMAIN payments : payments'[k] = payments[k]
      /\ issued + 1 \notin DOMAIN payments /\ issued' = issued + 1
  BY <1>1, PaymentEntered DEF TypeOK, PayStore
<1>3. ASSUME NEW k, k = issued + 1 PROVE View(k)' = [data |-> d, canceled |-> FALSE]
  <2>1. payments'[k] = [card |-> d, canceled |-> FALSE]
    BY <1>2, <1>3
  <2>2. payments'[k].card = d /\ payments'[k].canceled = FALSE
    BY <2>1
  <2> QED BY <2>2 DEF View
<1>4. \A k \in DOMAIN payments : View(k)' = View(k)
  BY <1>2 DEF View
<1>5. LedgerView' = [k \in DOMAIN LedgerView \cup {issued + 1} |->
                       IF k = issued + 1 THEN [data |-> d, canceled |-> FALSE]
                       ELSE LedgerView[k]]
  BY <1>2, <1>3, <1>4 DEF LedgerView
<1>6. Ledger!Charge(d)
  BY <1>2, <1>5 DEF Ledger!Charge, LedgerView, View
<1> QED BY <1>6 DEF Ledger!LedgerNext

LEMMA CancelStep ==
  ASSUME TypeOK, TokensKnown, CopyAgrees, NEW p \in Proc, CancelStore(p)
  PROVE  Ledger!LedgerNext
<1>1. PICK k \in PayIds, d \in Token :
           k = pid[p] /\ d = paydata[p].card /\ issued' = issued
  BY CancelStored DEF TypeOK, TokensKnown, CancelStore
<1>2. /\ DOMAIN payments' = DOMAIN payments \cup {k}
      /\ payments'[k].card = d
      /\ payments'[k].canceled = TRUE
      /\ \A j \in DOMAIN payments \ {k} : payments'[j] = payments[j]
  <2>1. payments'[k] \in Entry /\ payments'[k].canceled
    BY <1>1, CancelStored
  <2>2. payments'[k].canceled = TRUE
    BY <2>1 DEF Entry
  <2> QED BY <1>1, <2>2, CancelStored
<1>3. CASE k \notin DOMAIN payments
  <2>1. LedgerView' = [j \in DOMAIN LedgerView \cup {k} |->
                         IF j = k THEN [data |-> d, canceled |-> TRUE]
                         ELSE LedgerView[j]]
    BY <1>2, <1>3 DEF LedgerView, View
  <2>2. Ledger!Return(k, d)
    BY <1>1, <1>3, <2>1 DEF Ledger!Return, LedgerView, View, PayIds
  <2> QED BY <1>1, <2>2 DEF Ledger!LedgerNext, PayIds
<1>4. CASE k \in DOMAIN payments /\ payments[k].card = d
  <2>1. LedgerView' = [j \in DOMAIN LedgerView |->
                         IF j \in {k} THEN [data |-> LedgerView[j].data, canceled |-> TRUE]
                         ELSE LedgerView[j]]
    BY <1>2, <1>4 DEF LedgerView, View
  <2>2. Ledger!Cancel({k})
    BY <1>1, <2>1 DEF Ledger!Cancel, LedgerView, View
  <2> QED BY <1>4, <2>2 DEF Ledger!LedgerNext
<1>5. k \in DOMAIN payments => payments[k].card = d
  BY <1>1 DEF CopyAgrees, CancelStore
<1> QED BY <1>3, <1>4, <1>5

LEMMA BulkStep ==
  ASSUME TypeOK, NEW p \in Proc, NEW S \in SUBSET (1 .. issued), BulkCancel(p, S)
  PROVE  Ledger!LedgerNext
<1>0. PICK T \in SUBSET DOMAIN payments : T = S \cap DOMAIN payments
  OBVIOUS
<1>1. /\ DOMAIN payments' = DOMAIN payments
      /\ \A k \in DOMAIN payments :
           /\ payments'[k].card = payments[k].card
           /\ payments'[k].canceled = (k \in S \/ payments[k].canceled)
  BY BulkEntries DEF BulkCancel
<1>2. \A k \in DOMAIN payments : payments[k].canceled \in BOOLEAN
  BY DEF TypeOK, Entry
<1>3. \A k \in DOMAIN payments :
        View(k)' = IF k \in T THEN [data |-> View(k).data, canceled |-> TRUE] ELSE View(k)
  BY <1>0, <1>1, <1>2 DEF View
<1>4. LedgerView' = [k \in DOMAIN LedgerView |->
                       IF k \in T THEN [data |-> LedgerView[k].data, canceled |-> TRUE]
                       ELSE LedgerView[k]]
  BY <1>1, <1>3 DEF LedgerView
<1>5. Ledger!Cancel(T)
  BY <1>4 DEF Ledger!Cancel, LedgerView, View, BulkCancel
<1> QED BY <1>5 DEF Ledger!LedgerNext

LEMMA NextLedger ==
  TypeOK /\ TokensKnown /\ CopyAgrees /\ [Next]_vars => [Ledger!LedgerNext]_(Ledger!ledgerVars)
<1> SUFFICES ASSUME TypeOK, TokensKnown, CopyAgrees, [Next]_vars
             PROVE  [Ledger!LedgerNext]_(Ledger!ledgerVars)
  OBVIOUS
<1>1. CASE Initialize
  <2>1. UNCHANGED issued /\ payments' = [k \in {} |-> {}]
    BY <1>1 DEF Initialize, Empty
  <2>2. LedgerView' = [k \in {} |-> {}]
    BY <2>1 DEF LedgerView, View
  <2>3. Ledger!Wipe
    BY <2>1, <2>2 DEF Ledger!Wipe, LedgerView, View
  <2> QED BY <2>3 DEF Ledger!LedgerNext
<1>2. ASSUME UNCHANGED <<payments, issued>> PROVE UNCHANGED Ledger!ledgerVars
  BY <1>2 DEF Ledger!ledgerVars
<1> QED BY <1>1, <1>2, ChargeStep, CancelStep, BulkStep
        DEF Next, RegistCard, PayCheck, CancelLookup, CancelEnd, ResultFill, ResultRelease,
            ResultSent, vars, maps, history

(* The five calls that write PayInfoMap are steps of the ledger: no charge *)
(* changes or disappears one by one, and no cancel is undone.              *)
THEOREM ServiceImplementsLedger == Spec => ImplementsLedger
<1>1. Init => Ledger!LedgerInit /\ CopyAgrees
  BY DEF Init, Empty, Ledger!LedgerInit, CopyAgrees
<1> QED BY <1>1, Typing, InitTokens, NextTokens, InitStale, NextCanceler, NextCopy, NextLedger,
           PTL DEF Spec, ImplementsLedger, Ledger!LedgerSpec

-----------------------------------------------------------------------------
(* Result objects in use.                                                  *)

LEMMA FillHeld ==
  ASSUME TypeOK, HeldResultIsRight, NEW p \in Proc, ResultFill(p)
  PROVE  HeldResultIsRight'
<1>1. PICK f \in Injection(DOMAIN payments, pool) :
        LET used == {f[k] : k \in DOMAIN payments}
        IN  /\ content' = [o \in RawData |->
                             IF o \in used
                             THEN LET k == CHOOSE k \in DOMAIN payments : f[k] = o
                                  IN  [id |-> k, entry |-> payments[k]]
                             ELSE content[o]]
            /\ raw' = [raw EXCEPT ![p] = used]
            /\ pool' = PutDeferred(p, used)
  BY DEF ResultFill
<1> DEFINE used == {f[k] : k \in DOMAIN payments}
           key(o) == CHOOSE k \in DOMAIN payments : f[k] = o
<1>2. used \subseteq pool /\ pool \subseteq RawData
  BY DEF Injection, TypeOK
<1>3. \A k \in DOMAIN payments : key(f[k]) = k
  BY DEF Injection, IsInjective
<1>4. content' = [o \in RawData |-> IF o \in used THEN [id |-> key(o), entry |-> payments[key(o)]]
                                    ELSE content[o]]
  BY <1>1
<1>5. /\ raw'[p] = used /\ pool' = pool \ used
      /\ \A q \in Proc \ {p} : raw'[q] = raw[q] /\ seen'[q] = seen[q] /\ pc'[q] = pc[q]
      /\ seen'[p] = Entries(payments)
  BY <1>1 DEF PutDeferred, ResultFill, Goto, TypeOK
<1> HIDE DEF key
<1>6. \A k \in DOMAIN payments : content'[f[k]] = [id |-> k, entry |-> payments[k]]
  BY <1>2, <1>3, <1>4
<1>7. Written(raw[p])' = seen'[p]
  <2>1. Written(raw[p])' = {content'[o] : o \in used}
    BY <1>5 DEF Written
  <2>2. {content'[o] : o \in used} = {content'[f[k]] : k \in DOMAIN payments}
    OBVIOUS
  <2>3. {content'[f[k]] : k \in DOMAIN payments} = Entries(payments)
    <3>1. ASSUME NEW x
          PROVE  (\E k \in DOMAIN payments : x = content'[f[k]])
                   <=> \E k \in DOMAIN payments : x = [id |-> k, entry |-> payments[k]]
      BY <1>6
    <3> QED BY ONLY <3>1 DEF Entries
  <2> QED BY <1>5, <2>1, <2>2, <2>3
<1> HIDE DEF used
<1>8. ASSUME NEW q \in Proc \ {p}, pc'[q] = "filled"
      PROVE  /\ Written(raw[q])' = seen'[q]
             /\ raw'[q] \cap pool' = {} /\ raw'[q] \cap used = {}
  <2>1. /\ Written(raw[q]) = seen[q] /\ raw[q] \cap pool = {}
        /\ raw[q] \subseteq RawData
    BY <1>5, <1>8 DEF HeldResultIsRight, TypeOK
  <2>2. raw[q] \cap used = {} /\ raw[q] \cap pool' = {}
    BY <1>2, <1>5, <2>1
  <2>3. \A o \in raw[q] : content'[o] = content[o]
    BY <1>4, <2>1, <2>2
  <2> QED BY <1>5, <2>1, <2>2, <2>3 DEF Written
<1>9. raw'[p] \cap pool' = {}
  BY <1>5
<1>10. ASSUME NEW q \in Proc, NEW r \in Proc \ {q}, pc'[q] = "filled", pc'[r] = "filled"
       PROVE  raw'[q] \cap raw'[r] = {}
  <2>1. CASE q # p /\ r # p
    BY <1>5, <1>10, <2>1 DEF HeldResultIsRight
  <2>2. CASE q = p
    BY <1>5, <1>8, <1>10, <2>2
  <2>3. CASE r = p
    BY <1>5, <1>8, <1>10, <2>3
  <2> QED BY <2>1, <2>2, <2>3
<1> QED BY <1>7, <1>8, <1>9, <1>10 DEF HeldResultIsRight

LEMMA NextHeld == TypeOK /\ HeldResultIsRight /\ [Next]_vars => HeldResultIsRight'
<1> SUFFICES ASSUME TypeOK, HeldResultIsRight, [Next]_vars PROVE HeldResultIsRight'
  OBVIOUS
<1>1. ASSUME UNCHANGED results, \A q \in Proc : pc'[q] = "filled" => pc[q] = "filled"
      PROVE  HeldResultIsRight'
  BY <1>1 DEF HeldResultIsRight, Written, results
<1>2. ASSUME NEW p \in Proc, ResultRelease(p) PROVE HeldResultIsRight'
  <2>1. /\ pool' = pool \cup raw[p] /\ UNCHANGED <<raw, content, seen>>
        /\ pc[p] = "filled" /\ \A q \in Proc : pc'[q] = "filled" => q # p /\ pc[q] = "filled"
    BY <1>2 DEF ResultRelease, Goto, TypeOK
  <2> QED BY <2>1 DEF HeldResultIsRight, Written
<1>3. ASSUME NEW p \in Proc, ResultSent(p) PROVE HeldResultIsRight'
  <2>1. /\ UNCHANGED <<pool, content>>
        /\ \A q \in Proc : pc'[q] = "filled" =>
             q # p /\ pc[q] = "filled" /\ raw'[q] = raw[q] /\ seen'[q] = seen[q]
    BY <1>3 DEF ResultSent, Goto, TypeOK
  <2> QED BY <2>1 DEF HeldResultIsRight, Written
<1>4. ASSUME NEW p \in Proc, NEW k \in 1 .. issued + 1, CancelLookup(p, k) PROVE HeldResultIsRight'
  BY <1>1, <1>4 DEF CancelLookup, Goto, TypeOK
<1>5. ASSUME NEW p \in Proc, NEW S \in SUBSET (1 .. issued), BulkCancel(p, S)
      PROVE  HeldResultIsRight'
  BY <1>1, <1>5 DEF BulkCancel, Goto, TypeOK
<1>6. ASSUME NEW p \in Proc, NEW t \in Token, PayCheck(p, t) PROVE HeldResultIsRight'
  BY <1>1, <1>6 DEF PayCheck, Goto, TypeOK
<1>7. ASSUME NEW p \in Proc, PayStore(p) \/ CancelStore(p) \/ CancelEnd(p)
      PROVE  HeldResultIsRight'
  BY <1>1, <1>7 DEF PayStore, CancelStore, CancelEnd, Goto, TypeOK
<1>8. ASSUME UNCHANGED <<pc, results>> PROVE HeldResultIsRight'
  BY <1>1, <1>8
<1> QED BY <1>2, <1>3, <1>4, <1>5, <1>6, <1>7, <1>8, FillHeld
        DEF Next, RegistCard, Initialize, vars

(* Until its goroutine ends, the objects of a GetResult are its own and    *)
(* hold what it found in the map (server.go:257-272).                      *)
THEOREM HeldResultsAreRight == Spec => []HeldResultIsRight
<1>1. Init => HeldResultIsRight
  BY DEF Init, HeldResultIsRight
<1> QED BY <1>1, Typing, NextHeld, PTL DEF Spec

=============================================================================
