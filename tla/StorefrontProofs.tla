-------------------------- MODULE StorefrontProofs --------------------------
(***************************************************************************)
(* Proofs about accounts, views and initialize, for any number of          *)
(* accounts, cookie jars, requests, seats and calls of initialize.         *)
(***************************************************************************)
EXTENDS Storefront, FiniteSetTheorems, TLAPS

-----------------------------------------------------------------------------
(* The inductive invariant.                                                *)

Session == [user_id : Nat, epoch : Nat, account : Account \cup {NoAccount}]
Row == [user : Nat, seats : Nat, booking : Nat, made : Session]
SeatRow == [id : Nat, seat : Nat, booking : Nat, stray : BOOLEAN]
View == [row : Row, rows : SUBSET SeatRow, cut : BOOLEAN, wiped : BOOLEAN]

PlainPcs == {"idle", "leaked", InitPc["seats"], InitPc["reservations"], "truncate users"}
PlainSlot == [pc : PlainPcs]
PanicSlot == [pc : {"panicked"}, id : Nat, cut : BOOLEAN]
UserSlot == [pc : {"check", "user", "insert"}, who : Session, seats : Nat]
MakingSlot == [pc : {"insert seats", "commit"}, id : Nat, stray : BOOLEAN, row : Row]
CancelSlot == [pc : {"cancel find", "cancel", "cancel seats", "cancel commit"},
               who : Session, id : AskedIds]
FindSlot == [pc : {"view find"}, who : Session, ask : {0} \cup AskedIds]
ViewSlot == [pc : {"view"}, who : Session, left : UNION {[S -> Row] : S \in SUBSET Nat},
             shown : SUBSET View, wipes : Nat]
Slot == PlainSlot \cup PanicSlot \cup UserSlot \cup MakingSlot \cup CancelSlot \cup FindSlot \cup ViewSlot

Making(s) == s.pc \in {"insert seats", "commit"}
Viewing(s) == s.pc = "view"
HasWho(s) == s.pc \in {"check", "user", "insert", "cancel find", "cancel", "cancel seats",
                       "cancel commit", "view find", "view"}

(* Every table row that is in the table, about to get there or read, and   *)
(* every cookie that somebody has, acts under or made such a row with.     *)
RowsOf(s) == (IF Making(s) THEN {s.row} ELSE {})
               \cup (IF Viewing(s) THEN {s.left[i] : i \in DOMAIN s.left} \cup {v.row : v \in s.shown}
                                   ELSE {})
RowsInUse == {reservations[i] : i \in DOMAIN reservations} \cup UNION {RowsOf(slot[p]) : p \in Proc}

CookiesInUse == {session[b] : b \in Browser} \cup {slot[p].who : p \in {q \in Proc : HasWho(slot[q])}}
                  \cup {w.made : w \in RowsInUse}

TablesTyped ==
  /\ nextUser \in Nat \ {0} /\ nextId \in Nat \ {0} /\ bookings \in Nat /\ epoch \in Nat /\ wipes \in Nat
  /\ users \in [DOMAIN users -> Account] /\ DOMAIN users \subseteq 1 .. (nextUser - 1)
  /\ session \in [Browser -> Session]
  /\ reservations \in [DOMAIN reservations -> Row]
  /\ DOMAIN reservations \subseteq 1 .. (nextId - 1)
  /\ seatRows \subseteq SeatRow

(* A booking is one row, whoever holds a copy of it.                       *)
RowsAgree ==
  /\ \A w \in RowsInUse : w.booking \in 1 .. bookings /\ w.user = w.made.user_id
  /\ \A w, x \in RowsInUse : w.booking = x.booking => w = x

(* Until users is truncated, a user id stands for one account.             *)
CookiesAgree ==
  /\ \A c \in CookiesInUse :
       /\ c.epoch <= epoch
       /\ c.user_id = NoUser => c.account = NoAccount
       /\ c.epoch = epoch /\ c.user_id # NoUser =>
            c.user_id \in DOMAIN users /\ users[c.user_id] = c.account
  /\ \A c, d \in CookiesInUse : c.epoch = d.epoch /\ c.user_id = d.user_id => c.account = d.account

(* The tables an open transaction keeps TRUNCATE from.                     *)
LocksKept(s, h) ==
  /\ s.pc \in {"check", "user", "insert", "insert seats", "commit"} => "reservations" \in h
  /\ s.pc = "commit" /\ s.row.seats > 0 => "seats" \in h
  /\ s.pc \in {"idle", "view find", "view", "panicked", "cancel find", "truncate seats",
               "truncate reservations", "truncate users"} => h = {}

(* A reservation to be is not in the tables; its seats are stray when a    *)
(* TRUNCATE of reservations comes before its COMMIT.                       *)
MakingOK(s) ==
  Making(s) => /\ s.id \in 1 .. (nextId - 1) /\ s.id \notin DOMAIN reservations
               /\ \A r \in seatRows : r.booking # s.row.booking
               /\ s.pc = "commit" /\ Truncating("reservations") => s.stray \/ s.row.seats = 0

OwnRows(v) == {r \in v.rows : r.booking = v.row.booking}

(* What has been read belongs to whoever asked and is whole; until         *)
(* reservations is truncated, what is left to read has not changed hands.  *)
ViewingOK(s) ==
  Viewing(s) =>
    /\ s.wipes <= wipes
    /\ \A i \in DOMAIN s.left : s.left[i].user = s.who.user_id
    /\ \A v \in s.shown :
         /\ v.row.user = s.who.user_id
         /\ ~v.wiped => \A r \in v.rows \ OwnRows(v) : r.stray
         /\ ~v.wiped /\ ~v.cut /\ OwnRows(v) # {} => Cardinality(OwnRows(v)) = v.row.seats
    /\ s.wipes = wipes => \A i \in DOMAIN s.left :
         /\ i \in 1 .. (nextId - 1)
         /\ i \in DOMAIN reservations => reservations[i].booking = s.left[i].booking

SlotOK(s, h) == s \in Slot /\ h \subseteq {"reservations", "seats"}
                  /\ LocksKept(s, h) /\ MakingOK(s) /\ ViewingOK(s)

(* Two transactions make different reservations, and none that a view      *)
(* still has to read.                                                      *)
Apart(s, t) ==
  /\ Making(s) /\ Making(t) => s.id # t.id /\ s.row.booking # t.row.booking
  /\ Making(s) /\ Viewing(t) /\ t.wipes = wipes => s.id \notin DOMAIN t.left

SlotsOK ==
  /\ slot \in [Proc -> Slot] /\ holds \in [Proc -> SUBSET {"reservations", "seats"}]
  /\ \A p \in Proc : SlotOK(slot[p], holds[p])
  /\ \A p, q \in Proc : p # q => Apart(slot[p], slot[q])

(* The seat rows of one booking: one for each of its seats.                *)
Block(r, n) == {[id |-> r.id, seat |-> k, booking |-> r.booking, stray |-> r.stray] : k \in 1 .. n}

SeatsOK ==
  /\ SeatRowsBelong
  /\ Truncating("reservations") => \A r \in seatRows : r.stray
  /\ \A r \in seatRows : r.booking \in 1 .. bookings
  /\ \A r \in seatRows, w \in RowsInUse : w.booking = r.booking =>
       {x \in seatRows : x.booking = r.booking} = Block(r, w.seats)
  /\ ~Truncating("reservations") =>
       \A i \in DOMAIN reservations : reservations[i].seats > 0 => \E r \in seatRows : r.id = i

StoreIInv == TablesTyped /\ RowsAgree /\ CookiesAgree /\ SlotsOK /\ SeatsOK

-----------------------------------------------------------------------------
(* What the parts of the invariant need to carry over.                     *)

LEMMA RowsKept ==
  ASSUME RowsAgree, RowsInUse' \subseteq RowsInUse, bookings \in Nat,
         bookings' = bookings \/ bookings' = bookings + 1
  PROVE  RowsAgree'
  BY DEF RowsAgree

LEMMA CookiesKept ==
  ASSUME CookiesAgree, CookiesInUse' \subseteq CookiesInUse, epoch' = epoch, users' = users
  PROVE  CookiesAgree'
  BY DEF CookiesAgree

LEMMA InitPcs == InitPc["seats"] = "truncate seats" /\ InitPc["reservations"] = "truncate reservations"
  BY DEF InitPc

(* The conditions on a slot only depend on some of the tables.             *)
LEMMA SlotOKCarries ==
  ASSUME NEW s, NEW h, SlotOK(s, h),
         nextId' = nextId, reservations' = reservations, seatRows' = seatRows, wipes' = wipes,
         Truncating("reservations")' => Truncating("reservations")
  PROVE  SlotOK(s, h)'
<1>1. MakingOK(s)'
  BY DEF SlotOK, MakingOK, Making
<1>2. ViewingOK(s)'
  BY DEF SlotOK, ViewingOK, Viewing, OwnRows
<1> QED BY <1>1, <1>2 DEF SlotOK, LocksKept

LEMMA SlotsTyped ==
  ASSUME SlotsOK  PROVE slot \in [Proc -> Slot] /\ holds \in [Proc -> SUBSET {"reservations", "seats"}]
  BY DEF SlotsOK

(* A step of one request that leaves the tables alone.                     *)
LEMMA QuietStep ==
  ASSUME StoreIInv, NEW p \in Proc, NEW s, NEW h,
         slot' = [slot EXCEPT ![p] = s], holds' = [holds EXCEPT ![p] = h],
         UNCHANGED <<accounts, tables, bookings, epoch, wipes>>,
         s.pc # "truncate reservations", slot[p].pc # "truncate reservations",
         SlotOK(s, h), \A q \in Proc \ {p} : Apart(s, slot[q]) /\ Apart(slot[q], s),
         RowsOf(s) \subseteq RowsInUse, HasWho(s) => s.who \in CookiesInUse
  PROVE  StoreIInv'
<1>1. /\ TablesTyped /\ RowsAgree /\ CookiesAgree /\ SlotsOK /\ SeatsOK
      /\ slot \in [Proc -> Slot] /\ holds \in [Proc -> SUBSET {"reservations", "seats"}]
  BY DEF StoreIInv, SlotsOK
<1>2. UNCHANGED <<users, nextUser, session, reservations, nextId, seatRows, bookings, epoch, wipes>>
  BY DEF accounts, tables
<1>3. TablesTyped'
  BY <1>1, <1>2 DEF TablesTyped
<1>4. \A q \in Proc : /\ slot'[q] = IF q = p THEN s ELSE slot[q]
                      /\ holds'[q] = IF q = p THEN h ELSE holds[q]
  BY <1>1
<1>5. Truncating("reservations")' <=> Truncating("reservations")
  BY <1>4, InitPcs DEF Truncating
<1>6. RowsInUse' \subseteq RowsInUse
  <2>1. ASSUME NEW q \in Proc  PROVE RowsOf(slot'[q]) \subseteq RowsInUse
    BY <1>4 DEF RowsInUse
  <2> QED BY <1>2, <2>1 DEF RowsInUse, RowsOf, Making, Viewing
<1>7. CookiesInUse' \subseteq CookiesInUse
  <2>1. ASSUME NEW q \in Proc, HasWho(slot'[q])  PROVE slot'[q].who \in CookiesInUse
    BY <1>4, <2>1 DEF CookiesInUse
  <2> QED BY <1>2, <1>6, <2>1 DEF CookiesInUse, HasWho
<1>8. RowsAgree' /\ CookiesAgree'
  <2>1. bookings \in Nat /\ bookings' = bookings
    <3>1. bookings \in Nat
      BY <1>1 DEF TablesTyped
    <3> QED BY <1>2, <3>1
  <2>2. RowsAgree'
    BY <1>1, <1>6, <2>1, RowsKept
  <2> QED BY <1>1, <1>2, <1>7, <2>2, CookiesKept
<1>9. SlotsOK'
  <2>1. \A q \in Proc : SlotOK(slot'[q], holds'[q])
    BY <1>1, <1>4 DEF SlotsOK
  <2>2. \A q \in Proc : SlotOK(slot[q], holds[q])'
    BY <1>2, <1>5, <2>1, SlotOKCarries
  <2>3. slot' \in [Proc -> Slot] /\ holds' \in [Proc -> SUBSET {"reservations", "seats"}]
    BY <1>1 DEF SlotOK
  <2>4. ASSUME NEW q \in Proc, NEW r \in Proc, q # r  PROVE Apart(slot[q], slot[r])'
    <3>1. Apart(slot'[q], slot'[r])
      BY <1>1, <1>4, <2>4 DEF SlotsOK
    <3> QED BY <1>2, <3>1 DEF Apart, Making, Viewing
  <2> QED BY <2>2, <2>3, <2>4 DEF SlotsOK
<1>10. SeatsOK'
  <2>1. SeatRowsBelong'
    BY <1>1, <1>2 DEF SeatsOK, SeatRowsBelong
  <2>2. \A r \in seatRows', w \in RowsInUse' : w.booking = r.booking =>
          {x \in seatRows' : x.booking = r.booking} = Block(r, w.seats)
    BY <1>1, <1>2, <1>6 DEF SeatsOK
  <2> QED BY <1>1, <1>2, <1>5, <2>1, <2>2 DEF SeatsOK
<1> QED BY <1>3, <1>8, <1>9, <1>10 DEF StoreIInv

-----------------------------------------------------------------------------
(* Accounts.                                                               *)

LEMMA NewCookie ==
  ASSUME CookiesAgree, users' = users, epoch' = epoch, NEW n,
         CookiesInUse' \subseteq CookiesInUse \cup {n},
         n.epoch <= epoch,
         \/ n.user_id = NoUser /\ n.account = NoAccount
         \/ n.user_id # NoUser /\ n.epoch = epoch /\ n.user_id \in DOMAIN users /\ users[n.user_id] = n.account
  PROVE  CookiesAgree'
<1>1. \A c \in CookiesInUse \cup {n} :
        /\ c.epoch <= epoch
        /\ c.user_id = NoUser => c.account = NoAccount
        /\ c.epoch = epoch /\ c.user_id # NoUser =>
             c.user_id \in DOMAIN users /\ users[c.user_id] = c.account
  BY DEF CookiesAgree
<1>2. \A c, d \in CookiesInUse \cup {n} :
        c.epoch = d.epoch /\ c.user_id = d.user_id => c.account = d.account
  BY <1>1 DEF CookiesAgree
<1> QED BY <1>1, <1>2 DEF CookiesAgree

(* A step that only touches users and sessions.                            *)
LEMMA AccountStep ==
  ASSUME StoreIInv, UNCHANGED <<tables, slot, holds, history>>, TablesTyped', CookiesAgree'
  PROVE  StoreIInv'
<1>1. UNCHANGED <<reservations, nextId, seatRows, slot, holds, bookings, epoch, wipes, inits>>
  BY DEF tables, history
<1>2. RowsInUse' = RowsInUse
  BY <1>1 DEF RowsInUse, RowsOf, Making, Viewing
<1>3. RowsAgree'
  BY <1>1, <1>2 DEF StoreIInv, RowsAgree
<1>4. SlotsOK'
  <2>1. Truncating("reservations")' <=> Truncating("reservations")
    BY <1>1 DEF Truncating
  <2>2. \A p \in Proc : SlotOK(slot[p], holds[p])'
    BY <1>1, <2>1, SlotOKCarries DEF StoreIInv, SlotsOK
  <2>3. \A p, q \in Proc : p # q => Apart(slot[p], slot[q])'
    BY <1>1 DEF StoreIInv, SlotsOK, Apart, Making, Viewing
  <2> QED BY <1>1, <2>2, <2>3 DEF StoreIInv, SlotsOK
<1>5. SeatsOK'
  <2>1. SeatRowsBelong'
    BY <1>1 DEF StoreIInv, SeatsOK, SeatRowsBelong
  <2>2. Truncating("reservations")' <=> Truncating("reservations")
    BY <1>1 DEF Truncating
  <2> QED BY <1>1, <1>2, <2>1, <2>2 DEF StoreIInv, SeatsOK
<1> QED BY <1>3, <1>4, <1>5 DEF StoreIInv

LEMMA SignUpInv ==
  ASSUME StoreIInv, NEW a \in Account, SignUp(a)  PROVE StoreIInv'
<1>1. /\ users' = [u \in DOMAIN users \cup {nextUser} |-> IF u = nextUser THEN a ELSE users[u]]
      /\ nextUser' = nextUser + 1
      /\ UNCHANGED <<session, tables, slot, holds, history>>
  BY DEF SignUp
<1>2. UNCHANGED <<session, reservations, nextId, seatRows, slot, holds, bookings, epoch, wipes>>
  BY <1>1 DEF tables, history
<1>3. TablesTyped
  BY DEF StoreIInv
<1>4. /\ nextUser \in Nat \ {0} /\ DOMAIN users \subseteq 1 .. (nextUser - 1)
      /\ users \in [DOMAIN users -> Account]
  BY <1>3 DEF TablesTyped
<1>5. /\ users' \in [DOMAIN users' -> Account] /\ DOMAIN users' \subseteq 1 .. (nextUser' - 1)
      /\ nextUser' \in Nat \ {0}
    <2>1. DOMAIN users' = DOMAIN users \cup {nextUser}
      BY <1>1
    <2>2. DOMAIN users \cup {nextUser} \subseteq 1 .. nextUser
      <3>1. nextUser \in 1 .. nextUser
        BY <1>4
      <3> QED BY <1>4, <3>1
    <2>3. nextUser' - 1 = nextUser
      BY <1>1, <1>4
    <2> QED BY <1>1, <1>4, <2>1, <2>2, <2>3
<1>6. TablesTyped'
  BY <1>2, <1>3, <1>5 DEF TablesTyped
<1>7. CookiesInUse' = CookiesInUse
  BY <1>2 DEF CookiesInUse, HasWho, RowsInUse, RowsOf, Making, Viewing
<1>8. \A u \in DOMAIN users : u \in DOMAIN users' /\ users'[u] = users[u]
  BY <1>1, <1>4
<1>9. CookiesAgree'
  BY <1>2, <1>7, <1>8 DEF StoreIInv, CookiesAgree
<1> QED BY <1>1, <1>6, <1>9, AccountStep

LEMMA SetSessionInv ==
  ASSUME StoreIInv, NEW b \in Browser, NEW c \in Session, SetSession(b, c),
         c.epoch <= epoch,
         \/ c.user_id = NoUser /\ c.account = NoAccount
         \/ c.user_id # NoUser /\ c.epoch = epoch /\ c.user_id \in DOMAIN users /\ users[c.user_id] = c.account
  PROVE  StoreIInv'
<1>1. /\ session' = [session EXCEPT ![b] = c]
      /\ UNCHANGED <<users, nextUser, tables, slot, holds, history>>
  BY DEF SetSession
<1>2. UNCHANGED <<users, nextUser, reservations, nextId, seatRows, slot, holds, bookings, epoch, wipes>>
  BY <1>1 DEF tables, history
<1>3. TablesTyped /\ session \in [Browser -> Session]
  BY DEF StoreIInv, TablesTyped
<1>4. session' \in [Browser -> Session] /\ \A d \in Browser : session'[d] \in {session[d], c}
  BY <1>1, <1>3
<1>5. TablesTyped'
  BY <1>2, <1>3, <1>4 DEF TablesTyped
<1>6. CookiesInUse' \subseteq CookiesInUse \cup {c}
  <2>1. RowsInUse' = RowsInUse
    BY <1>2 DEF RowsInUse, RowsOf, Making, Viewing
  <2>2. {slot'[p].who : p \in {q \in Proc : HasWho(slot'[q])}} = {slot[p].who : p \in {q \in Proc : HasWho(slot[q])}}
    BY <1>2
  <2>3. {session'[d] : d \in Browser} \subseteq {session[d] : d \in Browser} \cup {c}
    BY <1>4
  <2> QED BY <2>1, <2>2, <2>3 DEF CookiesInUse, HasWho
<1>7. CookiesAgree
  BY DEF StoreIInv
<1>8. CookiesAgree'
  BY <1>2, <1>6, <1>7, NewCookie
<1> QED BY <1>1, <1>5, <1>8, AccountStep

LEMMA LoginInv ==
  ASSUME StoreIInv, NEW a \in Account, NEW b \in Browser, Login(b, a)  PROVE StoreIInv'
<1>1. PICK u \in DOMAIN users :
        users[u] = a /\ SetSession(b, [user_id |-> u, epoch |-> epoch, account |-> a])
  BY DEF Login
<1>2. u \in Nat /\ u # NoUser /\ epoch \in Nat
  BY DEF StoreIInv, TablesTyped, NoUser
<1> DEFINE c == [user_id |-> u, epoch |-> epoch, account |-> a]
<1>3. c \in Session /\ c.epoch <= epoch /\ c.epoch = epoch /\ c.user_id = u /\ c.account = a
  BY <1>2 DEF Session
<1>4. SetSession(b, c)
  BY <1>1
<1> HIDE DEF c
<1> QED BY <1>1, <1>2, <1>3, <1>4, SetSessionInv

LEMMA LogoutInv ==
  ASSUME StoreIInv, NEW b \in Browser, Logout(b)  PROVE StoreIInv'
<1>1. epoch \in Nat
  BY DEF StoreIInv, TablesTyped
<1>2. /\ LoggedOut \in Session /\ LoggedOut.epoch <= epoch
      /\ LoggedOut.user_id = NoUser /\ LoggedOut.account = NoAccount
  BY <1>1 DEF LoggedOut, Session, NoUser
<1>3. SetSession(b, LoggedOut)
  BY DEF Logout
<1> QED BY <1>2, <1>3, SetSessionInv

-----------------------------------------------------------------------------
(* Steps of one request that leave the tables alone.                       *)

LEMMA IdlePc == Idle.pc = "idle"
  BY DEF Idle

(* The request ends, leaks or is an initialize about to begin.             *)
LEMMA PlainStep ==
  ASSUME StoreIInv, NEW p \in Proc, slot[p].pc # "truncate reservations",
         NEW pc \in {"idle", "leaked", "truncate seats"},
         NEW h \in SUBSET {"reservations", "seats"},
         pc # "leaked" => h = {},
         slot' = [slot EXCEPT ![p] = [pc |-> pc]], holds' = [holds EXCEPT ![p] = h],
         UNCHANGED <<accounts, tables, bookings, epoch, wipes>>
  PROVE  StoreIInv'
<1> DEFINE s == [pc |-> pc]
<1>1. s.pc = pc /\ ~Making(s) /\ ~Viewing(s) /\ ~HasWho(s)
  BY DEF Making, Viewing, HasWho
<1>2. s \in Slot
  BY InitPcs DEF Slot, PlainSlot, PlainPcs
<1>3. h \subseteq {"reservations", "seats"}
  OBVIOUS
<1>4. LocksKept(s, h)
  BY DEF LocksKept
<1>5. slot' = [slot EXCEPT ![p] = s]
  OBVIOUS
<1> HIDE DEF s
<1>6. SlotOK(s, h)
  BY <1>1, <1>2, <1>3, <1>4 DEF SlotOK, MakingOK, ViewingOK
<1>7. \A q \in Proc \ {p} : Apart(s, slot[q]) /\ Apart(slot[q], s)
  BY <1>1 DEF Apart
<1>8. RowsOf(s) = {}
  BY <1>1 DEF RowsOf
<1>9. s.pc # "truncate reservations"
  BY <1>1
<1> QED BY <1>1, <1>5, <1>6, <1>7, <1>8, <1>9, QuietStep

LEMMA AnswerStep ==
  ASSUME StoreIInv, NEW p \in Proc, slot[p].pc # "truncate reservations", Answer(p),
         UNCHANGED <<accounts, tables, bookings, epoch, wipes>>
  PROVE  StoreIInv'
<1>1. slot' = [slot EXCEPT ![p] = [pc |-> "idle"]] /\ holds' = [holds EXCEPT ![p] = {}]
  BY DEF Answer, Idle
<1> DEFINE pc == "idle"  h == {}
<1>2. /\ pc \in {"idle", "leaked", "truncate seats"}
      /\ h = {} /\ h \in SUBSET {"reservations", "seats"}
      /\ slot' = [slot EXCEPT ![p] = [pc |-> pc]] /\ holds' = [holds EXCEPT ![p] = h]
  BY <1>1
<1> HIDE DEF pc, h
<1> QED BY <1>2, PlainStep

(* What the invariant says of the one slot a step is about.                *)
LEMMA SlotFacts ==
  ASSUME StoreIInv, NEW p \in Proc
  PROVE  /\ slot \in [Proc -> Slot] /\ holds \in [Proc -> SUBSET {"reservations", "seats"}]
         /\ slot[p] \in Slot /\ SlotOK(slot[p], holds[p])
         /\ HasWho(slot[p]) => slot[p].who \in CookiesInUse
         /\ RowsOf(slot[p]) \subseteq RowsInUse
         /\ \A q \in Proc \ {p} : Apart(slot[p], slot[q]) /\ Apart(slot[q], slot[p])
         /\ \A b \in Browser : session[b] \in CookiesInUse /\ session[b] \in Session
  BY DEF StoreIInv, SlotsOK, CookiesInUse, RowsInUse, TablesTyped

(* A step that only moves the request on, with locks of its own.           *)
LEMMA WhoStep ==
  ASSUME StoreIInv, NEW p \in Proc, slot[p].pc # "truncate reservations",
         NEW s \in Slot, HasWho(s), ~Viewing(s), s.who \in CookiesInUse,
         NEW h \in SUBSET {"reservations", "seats"}, LocksKept(s, h),
         slot' = [slot EXCEPT ![p] = s], holds' = [holds EXCEPT ![p] = h],
         UNCHANGED <<accounts, tables, bookings, epoch, wipes>>
  PROVE  StoreIInv'
<1>1. ~Making(s) /\ s.pc # "truncate reservations"
  BY DEF Making, HasWho
<1>2. SlotOK(s, h)
  BY <1>1 DEF SlotOK, MakingOK, ViewingOK
<1>3. \A q \in Proc \ {p} : Apart(s, slot[q]) /\ Apart(slot[q], s)
  BY <1>1 DEF Apart
<1>4. RowsOf(s) = {}
  BY <1>1 DEF RowsOf
<1> QED BY <1>1, <1>2, <1>3, <1>4, QuietStep

LEMMA ReserveScanInv ==
  ASSUME StoreIInv, NEW p \in Proc, NEW b \in Browser, NEW n \in SeatCounts, ReserveScan(p, b, n)
  PROVE  StoreIInv'
<1>1. PICK pc \in {"check", "user"} :
        slot' = [slot EXCEPT ![p] = [pc |-> pc, who |-> session[b], seats |-> n]]
  <2>1. \A dup \in BOOLEAN : (IF dup THEN "check" ELSE "user") \in {"check", "user"}
    OBVIOUS
  <2> QED BY <2>1 DEF ReserveScan, Serve
<1> DEFINE s == [pc |-> pc, who |-> session[b], seats |-> n]
           h == holds[p] \cup {"reservations"}
<1>2. /\ slot[p].pc = "idle" /\ slot' = [slot EXCEPT ![p] = s] /\ holds' = [holds EXCEPT ![p] = h]
      /\ UNCHANGED <<accounts, tables, bookings, epoch, wipes>>
  BY <1>1 DEF ReserveScan, Touch, Idle, history
<1>3. s \in Slot /\ s.who \in CookiesInUse
  BY SlotFacts, StorefrontAssumption DEF Slot, UserSlot
<1>4. h \in SUBSET {"reservations", "seats"} /\ "reservations" \in h
  BY SlotFacts
<1> HIDE DEF h
<1>5. HasWho(s) /\ ~Viewing(s) /\ LocksKept(s, h)
  BY <1>4 DEF HasWho, Viewing, LocksKept
<1> HIDE DEF s
<1> QED BY <1>2, <1>3, <1>4, <1>5, WhoStep

LEMMA ReserveCheckInv ==
  ASSUME StoreIInv, NEW p \in Proc, ReserveCheck(p)  PROVE StoreIInv'
<1> DEFINE s == [slot[p] EXCEPT !.pc = "user"]
           h == holds[p] \cup {"seats"}
<1>1. /\ slot[p].pc = "check" /\ UNCHANGED <<accounts, tables, bookings, epoch, wipes>>
      /\ slot' = [slot EXCEPT ![p] = s] /\ holds' = [holds EXCEPT ![p] = h]
  BY DEF ReserveCheck, history, Serve, Touch
<1>2. slot[p] \in UserSlot
  BY <1>1, SlotFacts, InitPcs DEF Slot, PlainSlot, PanicSlot, PlainPcs, MakingSlot, CancelSlot, FindSlot, ViewSlot
<1>3. s.pc = "user" /\ s \in Slot /\ s.who = slot[p].who
  BY <1>2 DEF Slot, UserSlot
<1>4. "reservations" \in h /\ h \in SUBSET {"reservations", "seats"}
  BY <1>1, SlotFacts DEF SlotOK, LocksKept
<1> HIDE DEF h
<1>5. HasWho(s) /\ HasWho(slot[p]) /\ ~Viewing(s) /\ LocksKept(s, h)
  BY <1>1, <1>3, <1>4 DEF HasWho, Viewing, LocksKept
<1> HIDE DEF s
<1> QED BY <1>1, <1>3, <1>4, <1>5, SlotFacts, WhoStep

LEMMA FailsInv ==
  ASSUME StoreIInv, NEW p \in Proc, Fails(p)  PROVE StoreIInv'
<1>1. slot[p].pc # "truncate reservations" /\ Answer(p)
  BY DEF Fails, MayFail
<1>2. UNCHANGED <<accounts, tables, bookings, epoch, wipes>>
  BY DEF Fails, history
<1> QED BY <1>1, <1>2, AnswerStep

LEMMA ReserveUserInv ==
  ASSUME StoreIInv, NEW p \in Proc, ReserveUser(p)  PROVE StoreIInv'
<1> DEFINE s == [slot[p] EXCEPT !.pc = "insert"]
<1>1. slot[p].pc = "user" /\ UNCHANGED <<accounts, tables, bookings, epoch, wipes>>
  BY DEF ReserveUser, history
<1>2. CASE Answer(p)
  BY <1>1, <1>2, AnswerStep
<1>3. CASE Serve(p, s) /\ UNCHANGED holds
  <2>1. slot[p] \in UserSlot
    BY <1>1, SlotFacts, InitPcs DEF Slot, PlainSlot, PanicSlot, PlainPcs, MakingSlot, CancelSlot, FindSlot, ViewSlot
  <2>2. s.pc = "insert" /\ s \in Slot /\ s.who = slot[p].who
    BY <2>1 DEF Slot, UserSlot
  <2>3. "reservations" \in holds[p]
    BY <1>1, SlotFacts DEF SlotOK, LocksKept
  <2>4. HasWho(s) /\ HasWho(slot[p]) /\ ~Viewing(s) /\ LocksKept(s, holds[p])
    BY <1>1, <2>2, <2>3 DEF HasWho, Viewing, LocksKept
  <2>5. slot' = [slot EXCEPT ![p] = s] /\ holds' = [holds EXCEPT ![p] = holds[p]]
    BY <1>3, SlotFacts DEF Serve
  <2> HIDE DEF s
  <2> QED BY <1>1, <2>2, <2>4, <2>5, SlotFacts, WhoStep
<1> QED BY <1>2, <1>3 DEF ReserveUser

LEMMA CancelUserInv ==
  ASSUME StoreIInv, NEW p \in Proc, NEW b \in Browser, NEW i \in AskedIds, CancelUser(p, b, i)
  PROVE  StoreIInv'
<1> DEFINE s == [pc |-> "cancel find", who |-> session[b], id |-> i]
<1>1. /\ slot[p].pc = "idle" /\ slot' = [slot EXCEPT ![p] = s]
      /\ UNCHANGED <<accounts, tables, holds, bookings, epoch, wipes>>
  <2>1. slot[p] = Idle /\ Serve(p, s) /\ UNCHANGED <<accounts, tables, holds, history>>
    BY DEF CancelUser
  <2>2. slot[p].pc = "idle"
    BY <2>1, IdlePc
  <2>3. UNCHANGED <<bookings, epoch, wipes>>
    BY <2>1 DEF history
  <2> QED BY <2>1, <2>2, <2>3 DEF Serve
<1>2. s \in Slot /\ s.who \in CookiesInUse
  BY SlotFacts DEF Slot, CancelSlot
<1>3. holds[p] = {} /\ holds' = [holds EXCEPT ![p] = holds[p]]
  BY <1>1, SlotFacts DEF SlotOK, LocksKept
<1>4. HasWho(s) /\ ~Viewing(s) /\ LocksKept(s, holds[p])
  BY <1>3 DEF HasWho, Viewing, LocksKept
<1> HIDE DEF s
<1> QED BY <1>1, <1>2, <1>3, <1>4, WhoStep

LEMMA ViewUserInv ==
  ASSUME StoreIInv, NEW p \in Proc, NEW b \in Browser, NEW ask \in {0} \cup AskedIds, ViewUser(p, b, ask)
  PROVE  StoreIInv'
<1> DEFINE s == [pc |-> "view find", who |-> session[b], ask |-> ask]
<1>1. /\ slot[p].pc = "idle" /\ slot' = [slot EXCEPT ![p] = s]
      /\ UNCHANGED <<accounts, tables, holds, bookings, epoch, wipes>>
  <2>1. slot[p] = Idle /\ Serve(p, s) /\ UNCHANGED <<accounts, tables, holds, history>>
    BY DEF ViewUser
  <2>2. slot[p].pc = "idle"
    BY <2>1, IdlePc
  <2>3. UNCHANGED <<bookings, epoch, wipes>>
    BY <2>1 DEF history
  <2> QED BY <2>1, <2>2, <2>3 DEF Serve
<1>2. s \in Slot /\ s.who \in CookiesInUse
  BY SlotFacts DEF Slot, FindSlot
<1>3. holds[p] = {} /\ holds' = [holds EXCEPT ![p] = holds[p]]
  BY <1>1, SlotFacts DEF SlotOK, LocksKept
<1>4. HasWho(s) /\ ~Viewing(s) /\ LocksKept(s, holds[p])
  BY <1>3 DEF HasWho, Viewing, LocksKept
<1> HIDE DEF s
<1> QED BY <1>1, <1>2, <1>3, <1>4, WhoStep

(* A statement of the cancel handler that moves it on to pc with locks h.  *)
LEMMA CancelStep ==
  ASSUME StoreIInv, NEW p \in Proc, slot[p].pc \in {"cancel find", "cancel", "cancel seats"},
         NEW pc \in {"cancel", "cancel seats", "cancel commit"},
         NEW h \in SUBSET {"reservations", "seats"},
         Serve(p, [slot[p] EXCEPT !.pc = pc]), holds' = [holds EXCEPT ![p] = h],
         UNCHANGED <<accounts, tables, bookings, epoch, wipes>>
  PROVE  StoreIInv'
<1> DEFINE s == [slot[p] EXCEPT !.pc = pc]
<1>1. slot[p] \in CancelSlot
  BY SlotFacts, InitPcs DEF Slot, PlainSlot, PanicSlot, PlainPcs, MakingSlot, UserSlot, FindSlot, ViewSlot
<1>2. s.pc = pc /\ s \in Slot /\ s.who = slot[p].who
  BY <1>1 DEF Slot, CancelSlot
<1>3. HasWho(s) /\ HasWho(slot[p]) /\ ~Viewing(s) /\ LocksKept(s, h)
  BY <1>2 DEF HasWho, Viewing, LocksKept
<1>4. slot' = [slot EXCEPT ![p] = s]
  BY DEF Serve
<1> HIDE DEF s
<1> QED BY <1>2, <1>3, <1>4, SlotFacts, WhoStep

LEMMA CancelFindInv ==
  ASSUME StoreIInv, NEW p \in Proc, CancelFind(p)  PROVE StoreIInv'
<1>1. slot[p].pc = "cancel find" /\ UNCHANGED <<accounts, tables, bookings, epoch, wipes>>
  BY DEF CancelFind, history
<1>2. CASE Answer(p)
  BY <1>1, <1>2, AnswerStep
<1>3. CASE Serve(p, [slot[p] EXCEPT !.pc = "cancel"]) /\ Touch(p, "reservations")
  <2>1. holds[p] \cup {"reservations"} \in SUBSET {"reservations", "seats"}
    BY SlotFacts
  <2>2. holds' = [holds EXCEPT ![p] = holds[p] \cup {"reservations"}]
    BY <1>3 DEF Touch
  <2> QED BY <1>1, <1>3, <2>1, <2>2, CancelStep
<1> QED BY <1>2, <1>3 DEF CancelFind

LEMMA CancelLeakInv ==
  ASSUME StoreIInv, NEW p \in Proc, CancelLeak(p)  PROVE StoreIInv'
<1>1. /\ slot[p].pc = "cancel" /\ UNCHANGED <<accounts, tables, bookings, epoch, wipes>>
      /\ slot' = [slot EXCEPT ![p] = [pc |-> "leaked"]] /\ UNCHANGED holds
  BY DEF CancelLeak, history, Serve, Leaked
<1>2. holds' = [holds EXCEPT ![p] = holds[p]] /\ holds[p] \in SUBSET {"reservations", "seats"}
  BY <1>1, SlotFacts
<1> QED BY <1>1, <1>2, PlainStep

LEMMA CancelRowInv ==
  ASSUME StoreIInv, NEW p \in Proc, CancelRow(p)  PROVE StoreIInv'
<1>1. slot[p].pc = "cancel" /\ UNCHANGED <<accounts, tables, bookings, epoch, wipes>>
  BY DEF CancelRow, history
<1>2. CASE Answer(p)
  BY <1>1, <1>2, AnswerStep
<1>3. CASE Serve(p, [slot[p] EXCEPT !.pc = "cancel seats"]) /\ UNCHANGED holds
  <2>1. holds' = [holds EXCEPT ![p] = holds[p]] /\ holds[p] \in SUBSET {"reservations", "seats"}
    BY <1>3, SlotFacts
  <2> QED BY <1>1, <1>3, <2>1, CancelStep
<1> QED BY <1>2, <1>3 DEF CancelRow

LEMMA CancelSeatsInv ==
  ASSUME StoreIInv, NEW p \in Proc, CancelSeats(p)  PROVE StoreIInv'
<1>1. /\ slot[p].pc = "cancel seats" /\ UNCHANGED <<accounts, tables, bookings, epoch, wipes>>
      /\ Serve(p, [slot[p] EXCEPT !.pc = "cancel commit"])
      /\ holds' = [holds EXCEPT ![p] = holds[p] \cup {"seats"}]
  BY DEF CancelSeats, history, Touch
<1>2. holds[p] \cup {"seats"} \in SUBSET {"reservations", "seats"}
  BY SlotFacts
<1> QED BY <1>1, <1>2, CancelStep

LEMMA ViewAnswerInv ==
  ASSUME StoreIInv, NEW p \in Proc, ViewAnswer(p)  PROVE StoreIInv'
<1>1. /\ slot[p].pc \in {"view", "panicked"} /\ Serve(p, Idle)
      /\ UNCHANGED <<accounts, tables, holds, history>>
  BY DEF ViewAnswer
<1>2. UNCHANGED <<bookings, epoch, wipes>>
  BY <1>1 DEF history
<1>3. holds[p] = {} /\ holds' = [holds EXCEPT ![p] = {}]
  BY <1>1, SlotFacts DEF SlotOK, LocksKept
<1>4. Answer(p)
  BY <1>1, <1>3 DEF Serve, Answer
<1> QED BY <1>1, <1>2, <1>4, AnswerStep

LEMMA InitBeginInv ==
  ASSUME StoreIInv, NEW p \in Proc, InitBegin(p)  PROVE StoreIInv'
<1>1. /\ slot[p].pc = "idle" /\ UNCHANGED <<accounts, tables, holds, bookings, epoch, wipes>>
      /\ slot' = [slot EXCEPT ![p] = [pc |-> "truncate seats"]]
  <2>1. slot[p] = Idle /\ Serve(p, [pc |-> "truncate seats"])
        /\ UNCHANGED <<accounts, tables, holds, bookings, epoch, wipes>>
    BY InitPcs DEF InitBegin
  <2>2. slot[p].pc = "idle"
    BY <2>1, IdlePc
  <2> QED BY <2>1, <2>2 DEF Serve
<1>2. holds' = [holds EXCEPT ![p] = {}]
  BY <1>1, SlotFacts DEF SlotOK, LocksKept
<1> QED BY <1>1, <1>2, PlainStep

(* A slot that makes a reservation, or has one to show.                    *)
LEMMA MakingTyped ==
  ASSUME StoreIInv, NEW p \in Proc, Making(slot[p])
  PROVE  /\ slot[p] \in MakingSlot /\ slot[p].row \in Row /\ slot[p].row \in RowsInUse
         /\ slot[p].row.made \in CookiesInUse /\ slot[p].row.seats \in Nat
<1>1. slot[p] \in MakingSlot
  BY SlotFacts, InitPcs DEF Making, Slot, PlainSlot, PanicSlot, PlainPcs, UserSlot, CancelSlot, FindSlot, ViewSlot
<1>2. slot[p].row \in RowsInUse
  BY SlotFacts DEF RowsOf
<1> QED BY <1>1, <1>2 DEF MakingSlot, Row, CookiesInUse

LEMMA ViewingTyped ==
  ASSUME StoreIInv, NEW p \in Proc, Viewing(slot[p])
  PROVE  /\ slot[p] \in ViewSlot
         /\ \A i \in DOMAIN slot[p].left : i \in Nat /\ slot[p].left[i] \in Row /\ slot[p].left[i] \in RowsInUse
         /\ \A v \in slot[p].shown : v \in View /\ v.row \in RowsInUse
         /\ slot[p].who \in CookiesInUse
<1>1. slot[p] \in ViewSlot
  BY SlotFacts, InitPcs DEF Viewing, Slot, PlainSlot, PanicSlot, PlainPcs, UserSlot, CancelSlot, FindSlot, MakingSlot
<1>2. RowsOf(slot[p]) \subseteq RowsInUse /\ slot[p].who \in CookiesInUse
  BY SlotFacts DEF HasWho, Viewing
<1> QED BY <1>1, <1>2 DEF ViewSlot, RowsOf

LEMMA InsertSeatsInv ==
  ASSUME StoreIInv, NEW p \in Proc, InsertSeats(p)  PROVE StoreIInv'
<1> DEFINE s == [slot[p] EXCEPT !.pc = "commit", !.stray = Truncating("reservations")]
           h == IF slot[p].row.seats = 0 THEN holds[p] ELSE holds[p] \cup {"seats"}
<1>1. slot[p].pc = "insert seats" /\ Making(slot[p])
  BY DEF InsertSeats, Making
<1>2. UNCHANGED <<accounts, tables, bookings, epoch, wipes>>
  BY DEF InsertSeats, history
<1>3. slot' = [slot EXCEPT ![p] = s] /\ holds' = [holds EXCEPT ![p] = h]
  BY SlotFacts DEF InsertSeats, Serve, Touch
<1>4. /\ s \in Slot /\ s.pc = "commit" /\ s.row = slot[p].row /\ s.id = slot[p].id
      /\ s.stray = Truncating("reservations")
  BY <1>1, MakingTyped DEF Slot, MakingSlot, Truncating
<1>5. h \subseteq {"reservations", "seats"} /\ "reservations" \in h
      /\ (s.row.seats > 0 => "seats" \in h)
  <2>1. "reservations" \in holds[p] /\ holds[p] \subseteq {"reservations", "seats"}
    BY <1>1, SlotFacts DEF SlotOK, LocksKept
  <2> HIDE DEF s
  <2>2. s.row.seats > 0 => slot[p].row.seats # 0
    <3>1. s.row.seats = slot[p].row.seats
      BY <1>4
    <3> QED BY <3>1
  <2> QED BY <2>1, <2>2
<1> HIDE DEF s, h
<1>6. Making(s) /\ ~Viewing(s) /\ ~HasWho(s) /\ RowsOf(s) = RowsOf(slot[p])
  BY <1>1, <1>4 DEF Making, Viewing, HasWho, RowsOf
<1>7. MakingOK(s)
  BY <1>1, <1>4, SlotFacts DEF SlotOK, MakingOK, Making
<1>8. SlotOK(s, h)
  BY <1>4, <1>5, <1>6, <1>7 DEF SlotOK, LocksKept, ViewingOK
<1>9. \A q \in Proc \ {p} : Apart(s, slot[q]) /\ Apart(slot[q], s)
  BY <1>1, <1>4, <1>6, SlotFacts DEF Apart
<1> QED BY <1>1, <1>2, <1>3, <1>4, <1>6, <1>8, <1>9, SlotFacts, QuietStep

LEMMA ViewFindInv ==
  ASSUME StoreIInv, NEW p \in Proc, ViewFind(p)  PROVE StoreIInv'
<1> DEFINE who == slot[p].who
           found == RowsFor(who, slot[p].ask)
           s == [pc |-> "view", who |-> who, left |-> [i \in found |-> reservations[i]],
                 shown |-> {}, wipes |-> wipes]
<1>1. slot[p].pc = "view find" /\ UNCHANGED <<accounts, tables, holds, history>>
  BY DEF ViewFind
<1>2. UNCHANGED <<bookings, epoch, wipes>>
  BY <1>1 DEF history
<1>3. holds[p] = {} /\ holds' = [holds EXCEPT ![p] = {}]
  BY <1>1, SlotFacts DEF SlotOK, LocksKept
<1>4. CASE Serve(p, Idle)
  <2>1. Answer(p)
    BY <1>3, <1>4 DEF Serve, Answer
  <2> QED BY <1>1, <1>2, <2>1, AnswerStep
<1>5. CASE Serve(p, s)
  <2>1. HasWho(slot[p]) /\ who \in CookiesInUse
    BY <1>1, SlotFacts DEF HasWho
  <2>2. slot[p] \in FindSlot
    BY <1>1, SlotFacts, InitPcs DEF Slot, PlainSlot, PanicSlot, PlainPcs, UserSlot, CancelSlot, MakingSlot, ViewSlot
  <2>3. TablesTyped
    BY DEF StoreIInv
  <2>4. /\ found \subseteq DOMAIN reservations /\ found \subseteq 1 .. (nextId - 1) /\ found \subseteq Nat
        /\ \A i \in found : reservations[i].user = who.user_id /\ reservations[i] \in Row
    BY <2>3 DEF RowsFor, Owned, TablesTyped
  <2> HIDE DEF found
  <2>5. [i \in found |-> reservations[i]] \in UNION {[S -> Row] : S \in SUBSET Nat}
    BY <2>4
  <2>6. wipes \in Nat /\ who \in Session
    BY <2>2, <2>3 DEF FindSlot, TablesTyped
  <2>7. s \in Slot /\ s.pc = "view" /\ s.who = who /\ s.shown = {} /\ s.wipes = wipes
    BY <2>5, <2>6 DEF Slot, ViewSlot
  <2>8. DOMAIN s.left = found /\ \A i \in found : s.left[i] = reservations[i]
    OBVIOUS
  <2>9. slot' = [slot EXCEPT ![p] = s]
    BY <1>5 DEF Serve
  <2> HIDE DEF s
  <2>10. ~Making(s) /\ Viewing(s) /\ HasWho(s)
    BY <2>7 DEF Making, Viewing, HasWho
  <2>11. RowsOf(s) \subseteq RowsInUse
    BY <2>4, <2>7, <2>8, <2>10 DEF RowsOf, RowsInUse
  <2>12. ViewingOK(s)
    BY <2>4, <2>6, <2>7, <2>8 DEF ViewingOK
  <2>13. SlotOK(s, {})
    BY <2>7, <2>10, <2>12 DEF SlotOK, LocksKept, MakingOK
  <2>14. \A q \in Proc \ {p} : Apart(s, slot[q]) /\ Apart(slot[q], s)
    <3>1. ASSUME NEW q \in Proc, Making(slot[q])  PROVE slot[q].id \notin found
      BY <2>4, <3>1, SlotFacts DEF SlotOK, MakingOK
    <3> QED BY <2>8, <2>10, <3>1 DEF Apart
  <2>15. s.pc # "truncate reservations" /\ slot[p].pc # "truncate reservations"
    BY <1>1, <2>7
  <2> QED BY <1>1, <1>2, <1>3, <2>1, <2>7, <2>9, <2>11, <2>13, <2>14, <2>15, QuietStep
<1> QED BY <1>4, <1>5 DEF ViewFind

(* A booking's seat rows are as many as its seats.                         *)
LEMMA BlockSize ==
  ASSUME NEW r, NEW n \in Nat  PROVE Cardinality(Block(r, n)) = n
<1> DEFINE f == [k \in 1 .. n |-> [id |-> r.id, seat |-> k, booking |-> r.booking, stray |-> r.stray]]
<1>1. f \in Bijection(1 .. n, Block(r, n))
  <2>1. f \in [1 .. n -> Block(r, n)]
    BY DEF Block
  <2>2. \A j, k \in 1 .. n : j # k => f[j] # f[k]
    <3>1. \A k \in 1 .. n : f[k].seat = k
      OBVIOUS
    <3> QED BY <3>1
  <2>3. \A x \in Block(r, n) : \E k \in 1 .. n : f[k] = x
    BY DEF Block
  <2> HIDE DEF f
  <2> QED BY <2>1, <2>2, <2>3 DEF Bijection, Injection, Surjection, IsInjective
<1>2. ExistsBijection(1 .. n, Block(r, n))
  BY <1>1 DEF ExistsBijection
<1> QED BY <1>2, FS_CountingElements

(* What a view is given of the seats of the reservation with id i.         *)
LEMMA SeatsRead ==
  ASSUME StoreIInv, NEW w \in RowsInUse, w \in Row, NEW i,
         i \in DOMAIN reservations => reservations[i].booking = w.booking,
         NEW rows \in SUBSET SeatsOf(i), NEW own, own = {r \in rows : r.booking = w.booking}
  PROVE  /\ \A r \in rows \ own : r.stray
         /\ rows = SeatsOf(i) /\ own # {} => Cardinality(own) = w.seats
<1>1. SeatsOK
  BY DEF StoreIInv
<1>2. ASSUME NEW r \in rows \ own  PROVE r.stray
  <2>1. r \in seatRows /\ r.id = i /\ r.booking # w.booking
    BY DEF SeatsOf
  <2> QED BY <1>1, <2>1 DEF SeatsOK, SeatRowsBelong
<1>3. ASSUME rows = SeatsOf(i), own # {}  PROVE Cardinality(own) = w.seats
  <2>1. PICK r \in own : TRUE
    BY <1>3
  <2>2. r \in seatRows /\ r.id = i /\ r.booking = w.booking
    BY <2>1 DEF SeatsOf
  <2>3. {x \in seatRows : x.booking = r.booking} = Block(r, w.seats)
    BY <1>1, <2>2 DEF SeatsOK
  <2>4. \A x \in Block(r, w.seats) : x.id = i
    BY <2>2 DEF Block
  <2>5. own = Block(r, w.seats)
    BY <1>3, <2>2, <2>3, <2>4 DEF SeatsOf
  <2>6. w.seats \in Nat
    BY DEF Row
  <2> QED BY <2>5, <2>6, BlockSize
<1> QED BY <1>2, <1>3

(* A view that panics.                                                     *)
LEMMA PanicStep ==
  ASSUME StoreIInv, NEW p \in Proc, slot[p].pc = "view", NEW i \in Nat, NEW c \in BOOLEAN,
         Serve(p, [pc |-> "panicked", id |-> i, cut |-> c]), holds[p] = {}, UNCHANGED holds,
         UNCHANGED <<accounts, tables, bookings, epoch, wipes>>
  PROVE  StoreIInv'
<1> DEFINE s == [pc |-> "panicked", id |-> i, cut |-> c]
<1>1. s.pc = "panicked" /\ s \in Slot /\ ~Making(s) /\ ~Viewing(s) /\ ~HasWho(s)
  BY DEF Making, Viewing, HasWho, Slot, PanicSlot
<1>2. slot' = [slot EXCEPT ![p] = s] /\ holds' = [holds EXCEPT ![p] = {}]
  BY SlotFacts DEF Serve
<1> HIDE DEF s
<1>3. SlotOK(s, {})
  BY <1>1 DEF SlotOK, LocksKept, MakingOK, ViewingOK
<1>4. \A q \in Proc \ {p} : Apart(s, slot[q]) /\ Apart(slot[q], s)
  BY <1>1 DEF Apart
<1>5. RowsOf(s) = {}
  BY <1>1 DEF RowsOf
<1> QED BY <1>1, <1>2, <1>3, <1>4, <1>5, QuietStep

LEMMA RespondInv ==
  ASSUME StoreIInv, NEW p \in Proc, slot[p].pc = "view", NEW i \in DOMAIN slot[p].left,
         NEW rows \in SUBSET SeatsOf(i), Respond(p, i, rows)
  PROVE  StoreIInv'
<1>1. slot[p].pc = "view" /\ Viewing(slot[p]) /\ UNCHANGED <<accounts, tables, holds, history>>
  BY DEF Respond, Viewing
<1>2. UNCHANGED <<bookings, epoch, wipes>>
  BY <1>1 DEF history
<1>3. holds[p] = {} /\ holds' = [holds EXCEPT ![p] = {}]
  BY <1>1, SlotFacts DEF SlotOK, LocksKept
<1>4. CASE Serve(p, [pc |-> "panicked", id |-> i, cut |-> rows # SeatsOf(i)])
  <2>1. i \in Nat
    BY <1>1, ViewingTyped
  <2>2. PICK c \in BOOLEAN : c = (rows # SeatsOf(i))
    OBVIOUS
  <2>3. Serve(p, [pc |-> "panicked", id |-> i, cut |-> c])
    BY <1>4, <2>2
  <2> QED BY <1>1, <1>2, <1>3, <2>1, <2>3, PanicStep
<1>5. CASE Serve(p, [slot[p] EXCEPT
                       !.left = Restrict(@, DOMAIN @ \ {i}),
                       !.shown = @ \cup {[row |-> slot[p].left[i], rows |-> rows, cut |-> rows # SeatsOf(i),
                                           wiped |-> wipes # slot[p].wipes]}])
  <2> DEFINE v == [row |-> slot[p].left[i], rows |-> rows, cut |-> rows # SeatsOf(i), wiped |-> wipes # slot[p].wipes]
             left == [j \in DOMAIN slot[p].left \ {i} |-> slot[p].left[j]]
             s == [slot[p] EXCEPT !.left = left, !.shown = slot[p].shown \cup {v}]
  <2>1. slot' = [slot EXCEPT ![p] = s]
    BY <1>5 DEF Serve, Restrict
  <2>2. /\ slot[p] \in ViewSlot /\ slot[p].left[i] \in Row /\ slot[p].left[i] \in RowsInUse
        /\ slot[p].who \in CookiesInUse
        /\ \A j \in DOMAIN slot[p].left : j \in Nat /\ slot[p].left[j] \in Row
    BY <1>1, ViewingTyped
  <2>3. v \in View /\ v.row = slot[p].left[i] /\ v.rows = rows /\ (v.cut <=> rows # SeatsOf(i))
        /\ (v.wiped <=> wipes # slot[p].wipes)
    <3>1. rows \subseteq SeatRow
      BY DEF StoreIInv, TablesTyped, SeatsOf
    <3> QED BY <2>2, <3>1 DEF View
  <2>4. left \in UNION {[S -> Row] : S \in SUBSET Nat}
    <3>1. DOMAIN slot[p].left \ {i} \in SUBSET Nat
      BY <2>2
    <3>2. left \in [DOMAIN slot[p].left \ {i} -> Row]
      BY <2>2
    <3> HIDE DEF left
    <3> QED BY <3>1, <3>2
  <2>5. DOMAIN left = DOMAIN slot[p].left \ {i} /\ \A j \in DOMAIN left : left[j] = slot[p].left[j]
    OBVIOUS
  <2> HIDE DEF v, left
  <2>6. /\ s \in ViewSlot /\ s.pc = "view" /\ s.who = slot[p].who /\ s.wipes = slot[p].wipes
        /\ s.left = left /\ s.shown = slot[p].shown \cup {v}
    BY <2>2, <2>3, <2>4 DEF ViewSlot
  <2> HIDE DEF s
  <2>7. s \in Slot /\ Viewing(s) /\ ~Making(s) /\ HasWho(s) /\ s.pc # "truncate reservations"
    BY <2>6 DEF Slot, Viewing, Making, HasWho
  <2>8. RowsOf(s) \subseteq RowsInUse
    <3>1. RowsOf(slot[p]) \subseteq RowsInUse
      BY SlotFacts
    <3>2. RowsOf(s) \subseteq RowsOf(slot[p])
      BY <1>1, <2>3, <2>5, <2>6, <2>7 DEF RowsOf, Making, Viewing
    <3> QED BY <3>1, <3>2
  <2>9. ViewingOK(slot[p])
    BY SlotFacts DEF SlotOK
  <2>10. /\ v.row.user = s.who.user_id
         /\ ~v.wiped => \A r \in v.rows \ OwnRows(v) : r.stray
         /\ ~v.wiped /\ ~v.cut /\ OwnRows(v) # {} => Cardinality(OwnRows(v)) = v.row.seats
    <3>1. v.row.user = s.who.user_id
      BY <1>1, <2>3, <2>6, <2>9 DEF ViewingOK
    <3>2. OwnRows(v) = {r \in rows : r.booking = slot[p].left[i].booking}
      BY <2>3 DEF OwnRows
    <3>3. ~v.wiped => (i \in DOMAIN reservations => reservations[i].booking = slot[p].left[i].booking)
      BY <1>1, <2>3, <2>9 DEF ViewingOK
    <3>4. ~v.wiped => /\ \A r \in rows \ OwnRows(v) : r.stray
                      /\ rows = SeatsOf(i) /\ OwnRows(v) # {} => Cardinality(OwnRows(v)) = slot[p].left[i].seats
      BY <2>2, <3>2, <3>3, SeatsRead
    <3> QED BY <2>3, <3>1, <3>4
  <2>11. ViewingOK(s)
    BY <1>1, <2>5, <2>6, <2>9, <2>10 DEF ViewingOK
  <2>12. SlotOK(s, {})
    BY <2>6, <2>7, <2>11 DEF SlotOK, LocksKept, MakingOK
  <2>13. \A q \in Proc \ {p} : Apart(s, slot[q]) /\ Apart(slot[q], s)
    BY <1>1, <2>5, <2>6, <2>7, SlotFacts DEF Apart
  <2> QED BY <1>1, <1>2, <1>3, <2>1, <2>2, <2>6, <2>7, <2>8, <2>12, <2>13, QuietStep
<1> QED BY <1>4, <1>5 DEF Respond

LEMMA ViewSeatsInv ==
  ASSUME StoreIInv, NEW p \in Proc, ViewSeats(p)  PROVE StoreIInv'
  BY RespondInv DEF ViewSeats

LEMMA ViewSeatsFailsInv ==
  ASSUME StoreIInv, NEW p \in Proc, ViewSeatsFails(p)  PROVE StoreIInv'
<1>1. PICK i \in DOMAIN slot[p].left : \E rows \in SUBSET SeatsOf(i) : Respond(p, i, rows)
  BY DEF ViewSeatsFails
<1>2. PICK rows \in SUBSET SeatsOf(i) : Respond(p, i, rows)
  BY <1>1
<1> QED BY <1>2, RespondInv DEF ViewSeatsFails

-----------------------------------------------------------------------------
(* Steps that change the tables.                                           *)

(* The slots of a step of p, and what it adds to the rows in use.          *)
LEMMA InUseStep ==
  ASSUME StoreIInv, NEW p \in Proc, NEW s, slot' = [slot EXCEPT ![p] = s], session' = session,
         NEW N, RowsOf(s) \subseteq RowsInUse \cup N, \A w \in N : w.made \in CookiesInUse,
         \A i \in DOMAIN reservations' : reservations'[i] \in RowsInUse, ~HasWho(s)
  PROVE  RowsInUse' \subseteq RowsInUse \cup N /\ CookiesInUse' \subseteq CookiesInUse
<1>1. \A q \in Proc : slot'[q] = IF q = p THEN s ELSE slot[q]
  BY SlotFacts
<1>2. RowsInUse' \subseteq RowsInUse \cup N
  <2>1. ASSUME NEW q \in Proc  PROVE RowsOf(slot'[q]) \subseteq RowsInUse \cup N
    BY <1>1, SlotFacts DEF RowsInUse
  <2> QED BY <2>1 DEF RowsInUse, RowsOf, Making, Viewing
<1>3. \A w \in RowsInUse' : w.made \in CookiesInUse
  BY <1>2 DEF CookiesInUse
<1>4. ASSUME NEW q \in Proc, HasWho(slot'[q])  PROVE slot'[q].who \in CookiesInUse
  BY <1>1, <1>4 DEF CookiesInUse
<1>5. CookiesInUse' \subseteq CookiesInUse
  <2>1. \A b \in Browser : session'[b] \in CookiesInUse
    BY SlotFacts
  <2> QED BY <1>3, <1>4, <2>1 DEF CookiesInUse, HasWho
<1> QED BY <1>2, <1>5

LEMMA SlotsStep ==
  ASSUME StoreIInv, NEW p \in Proc, NEW s \in Slot, NEW h \in SUBSET {"reservations", "seats"},
         slot' = [slot EXCEPT ![p] = s], holds' = [holds EXCEPT ![p] = h], LocksKept(s, h),
         \A q \in Proc : MakingOK(slot[q])' /\ ViewingOK(slot[q])',
         \A q, r \in Proc : q # r => Apart(slot[q], slot[r])'
  PROVE  SlotsOK'
<1>1. slot' \in [Proc -> Slot] /\ holds' \in [Proc -> SUBSET {"reservations", "seats"}]
  BY SlotFacts
<1>2. \A q \in Proc : /\ slot'[q] = IF q = p THEN s ELSE slot[q]
                      /\ holds'[q] = IF q = p THEN h ELSE holds[q]
  BY SlotFacts
<1>3. \A q \in Proc : LocksKept(slot'[q], holds'[q])
  BY <1>2, SlotFacts DEF SlotOK
<1>4. \A q \in Proc : LocksKept(slot[q], holds[q])'
  BY <1>3 DEF LocksKept
<1> QED BY <1>1, <1>4 DEF SlotsOK, SlotOK

LEMMA Numbers ==
  ASSUME NEW n \in Nat \ {0}
  PROVE  /\ n \notin 1 .. (n - 1) /\ n \in 1 .. ((n + 1) - 1) /\ n + 1 \in Nat \ {0}
         /\ \A i \in 1 .. (n - 1) : i \in 1 .. ((n + 1) - 1)
  OBVIOUS

LEMMA InsertReservationInv ==
  ASSUME StoreIInv, NEW p \in Proc, InsertReservation(p)  PROVE StoreIInv'
<1> DEFINE who == slot[p].who
           w == [user |-> who.user_id, seats |-> slot[p].seats, booking |-> bookings + 1, made |-> who]
           s == [pc |-> "insert seats", id |-> nextId, stray |-> FALSE, row |-> w]
<1>1. /\ slot[p].pc = "insert" /\ bookings' = bookings + 1 /\ nextId' = nextId + 1
      /\ slot' = [slot EXCEPT ![p] = s]
      /\ UNCHANGED <<accounts, reservations, seatRows, holds, epoch, wipes>>
  BY DEF InsertReservation, Serve
<1>2. UNCHANGED <<users, nextUser, session>>
  BY <1>1 DEF accounts
<1>3. TablesTyped /\ RowsAgree /\ CookiesAgree /\ SlotsOK /\ SeatsOK
  BY DEF StoreIInv
<1>4. /\ nextId \in Nat \ {0} /\ bookings \in Nat /\ DOMAIN reservations \subseteq 1 .. (nextId - 1)
      /\ nextId' \in Nat \ {0} /\ bookings' \in Nat
  <2>1. nextId \in Nat \ {0} /\ bookings \in Nat /\ DOMAIN reservations \subseteq 1 .. (nextId - 1)
    BY <1>3 DEF TablesTyped
  <2> HIDE DEF w, s
  <2>2. nextId' \in Nat \ {0}
    BY <1>1, <2>1, Numbers
  <2>3. bookings' \in Nat
    BY <1>1, <2>1
  <2> QED BY <2>1, <2>2, <2>3
<1>5. slot[p] \in UserSlot
  BY <1>1, SlotFacts, InitPcs DEF Slot, PlainSlot, PanicSlot, PlainPcs, MakingSlot, CancelSlot, FindSlot, ViewSlot
<1>6. who \in CookiesInUse /\ who \in Session /\ "reservations" \in holds[p]
  BY <1>1, <1>5, SlotFacts DEF HasWho, UserSlot, SlotOK, LocksKept
<1>7. w \in Row /\ w.booking = bookings + 1 /\ w.user = w.made.user_id /\ w.made = who
  BY <1>4, <1>5, <1>6 DEF UserSlot, Row, Session
<1> HIDE DEF w
<1>8. s \in Slot /\ s.pc = "insert seats" /\ s.id = nextId /\ s.row = w
  BY <1>4, <1>7 DEF Slot, MakingSlot
<1> HIDE DEF s
<1>9. Making(s) /\ ~Viewing(s) /\ ~HasWho(s) /\ RowsOf(s) = {w} /\ LocksKept(s, holds[p])
  BY <1>6, <1>8 DEF Making, Viewing, HasWho, RowsOf, LocksKept
<1>10. RowsInUse' \subseteq RowsInUse \cup {w} /\ CookiesInUse' \subseteq CookiesInUse
  <2>1. \A i \in DOMAIN reservations' : reservations'[i] \in RowsInUse
    BY <1>1 DEF RowsInUse
  <2>2. \A x \in {w} : x.made \in CookiesInUse
    BY <1>6, <1>7
  <2>3. RowsOf(s) \subseteq RowsInUse \cup {w}
    BY <1>9
  <2> QED BY <1>1, <1>2, <1>9, <2>1, <2>2, <2>3, InUseStep
<1>11. \A x \in RowsInUse : x.booking \in 1 .. bookings /\ x.booking # w.booking
  <2>1. \A n \in 1 .. bookings : n # bookings + 1
    BY <1>4
  <2> QED BY <1>3, <1>7, <2>1 DEF RowsAgree
<1>12. \A n \in 1 .. bookings : n \in 1 .. bookings'
  BY <1>1, <1>4
<1>13. RowsAgree'
  <2>1. w.booking \in 1 .. bookings'
    BY <1>1, <1>4, <1>7
  <2>2. \A x \in RowsInUse \cup {w} : x.booking \in 1 .. bookings' /\ x.user = x.made.user_id
    BY <1>3, <1>7, <1>11, <1>12, <2>1 DEF RowsAgree
  <2>3. \A x, y \in RowsInUse \cup {w} : x.booking = y.booking => x = y
    BY <1>3, <1>11 DEF RowsAgree
  <2> QED BY <1>10, <2>2, <2>3 DEF RowsAgree
<1>14. CookiesAgree'
  BY <1>1, <1>2, <1>3, <1>10, CookiesKept
<1>15. TablesTyped'
  <2>1. DOMAIN reservations \subseteq 1 .. (nextId' - 1)
    BY <1>1, <1>4, Numbers
  <2> QED BY <1>1, <1>2, <1>3, <1>4, <2>1 DEF TablesTyped
<1>16. \A q \in Proc : /\ slot'[q] = IF q = p THEN s ELSE slot[q]
  BY <1>1, SlotFacts
<1>17. Truncating("reservations")' <=> Truncating("reservations")
  BY <1>1, <1>8, <1>16, InitPcs DEF Truncating
<1>18. \A i \in 1 .. (nextId - 1) : i \in 1 .. (nextId' - 1) /\ i # nextId
  BY <1>1, <1>4, Numbers
<1>19. MakingOK(slot[p])'
  <2>1. nextId \in 1 .. (nextId' - 1) /\ nextId \notin DOMAIN reservations
    BY <1>1, <1>4, Numbers
  <2>2. \A r \in seatRows : r.booking # w.booking
    <3>1. \A n \in 1 .. bookings : n # bookings + 1
      BY <1>4
    <3> QED BY <1>3, <1>7, <3>1 DEF SeatsOK
  <2>3. slot'[p].id = nextId /\ slot'[p].row = w /\ slot'[p].pc = "insert seats"
    BY <1>8, <1>16
  <2> QED BY <1>1, <2>1, <2>2, <2>3 DEF MakingOK
<1>20. ASSUME NEW q \in Proc  PROVE MakingOK(slot[q])' /\ ViewingOK(slot[q])'
  <2>1. CASE q = p
    <3>1. slot'[p].pc # "view"
      BY <1>8, <1>16
    <3> QED BY <1>19, <2>1, <3>1 DEF ViewingOK, Viewing
  <2>2. CASE q # p
    <3>1. slot'[q] = slot[q] /\ MakingOK(slot[q]) /\ ViewingOK(slot[q])
      BY <1>16, <2>2, SlotFacts DEF SlotOK
    <3>2. MakingOK(slot[q])'
      BY <1>1, <1>17, <1>18, <3>1 DEF MakingOK, Making
    <3>3. ViewingOK(slot[q])'
      BY <1>1, <1>18, <3>1 DEF ViewingOK, Viewing, OwnRows
    <3> QED BY <3>2, <3>3
  <2> QED BY <2>1, <2>2
<1>21. ASSUME NEW q \in Proc, NEW r \in Proc, q # r  PROVE Apart(slot[q], slot[r])'
  <2>1. ASSUME NEW t \in Proc, t # p  PROVE Apart(s, slot[t]) /\ Apart(slot[t], s)
    <3>1. Making(slot[t]) => slot[t].id # s.id /\ slot[t].row.booking # s.row.booking
      <4>1. Making(slot[t]) => slot[t].id \in 1 .. (nextId - 1) /\ slot[t].row \in RowsInUse
        BY SlotFacts, MakingTyped DEF SlotOK, MakingOK
      <4> QED BY <1>8, <1>11, <1>18, <4>1
    <3>2. Viewing(slot[t]) /\ slot[t].wipes = wipes => s.id \notin DOMAIN slot[t].left
      <4>1. Viewing(slot[t]) /\ slot[t].wipes = wipes => DOMAIN slot[t].left \subseteq 1 .. (nextId - 1)
        BY SlotFacts DEF SlotOK, ViewingOK
      <4> QED BY <1>8, <1>18, <4>1
    <3> QED BY <1>9, <3>1, <3>2 DEF Apart
  <2>2. Apart(slot'[q], slot'[r])
    BY <1>16, <1>21, <2>1, SlotFacts
  <2> QED BY <1>1, <2>2 DEF Apart, Making, Viewing
<1>22. SlotsOK'
  <2>1. holds' = [holds EXCEPT ![p] = holds[p]] /\ holds[p] \in SUBSET {"reservations", "seats"}
    BY <1>1, SlotFacts
  <2> QED BY <1>1, <1>8, <1>9, <1>20, <1>21, <2>1, SlotsStep
<1>23. SeatsOK'
  <2>1. SeatRowsBelong'
    BY <1>1, <1>3 DEF SeatsOK, SeatRowsBelong
  <2>2. \A r \in seatRows : r.booking \in 1 .. bookings /\ r.booking # w.booking
    <3>1. \A n \in 1 .. bookings : n # bookings + 1
      BY <1>4
    <3> QED BY <1>3, <1>7, <3>1 DEF SeatsOK
  <2>3. \A r \in seatRows, x \in RowsInUse' : x.booking = r.booking =>
          {y \in seatRows : y.booking = r.booking} = Block(r, x.seats)
    BY <1>3, <1>10, <2>2 DEF SeatsOK
  <2> QED BY <1>1, <1>3, <1>12, <1>17, <2>1, <2>2, <2>3 DEF SeatsOK
<1> QED BY <1>13, <1>14, <1>15, <1>22, <1>23 DEF StoreIInv

(* A step that leaves p idle; what its table change has to respect.        *)
LEMMA IdleStep ==
  ASSUME StoreIInv, NEW p \in Proc, slot[p].pc # "truncate reservations", Answer(p),
         UNCHANGED <<accounts, bookings, epoch, wipes>>,
         \A i \in DOMAIN reservations' : reservations'[i] \in RowsInUse,
         TablesTyped', SeatsOK',
         \A q \in Proc \ {p} : MakingOK(slot[q])' /\ ViewingOK(slot[q])'
  PROVE  StoreIInv'
<1>1. UNCHANGED <<users, nextUser, session>>
  BY DEF accounts
<1>2. slot' = [slot EXCEPT ![p] = Idle] /\ holds' = [holds EXCEPT ![p] = {}]
  BY DEF Answer
<1>3. Idle \in Slot /\ ~Making(Idle) /\ ~Viewing(Idle) /\ ~HasWho(Idle) /\ LocksKept(Idle, {})
  BY DEF Idle, Slot, PlainSlot, PlainPcs, Making, Viewing, HasWho, LocksKept
<1>4. RowsOf(Idle) = {}
  BY <1>3 DEF RowsOf
<1>5. RowsInUse' \subseteq RowsInUse /\ CookiesInUse' \subseteq CookiesInUse
  <2> DEFINE N == {}
  <2>1. RowsOf(Idle) \subseteq RowsInUse \cup N /\ \A w \in N : w.made \in CookiesInUse
    BY <1>4
  <2>2. RowsInUse \cup N = RowsInUse
    OBVIOUS
  <2> HIDE DEF N
  <2> QED BY <1>1, <1>2, <1>3, <2>1, <2>2, InUseStep
<1>6. RowsAgree'
  <2>1. bookings \in Nat
    BY DEF StoreIInv, TablesTyped
  <2> QED BY <1>5, <2>1, RowsKept DEF StoreIInv
<1>7. CookiesAgree'
  BY <1>1, <1>5, CookiesKept DEF StoreIInv
<1>8. \A q \in Proc : slot'[q] = IF q = p THEN Idle ELSE slot[q]
  BY <1>2, SlotFacts
<1>9. MakingOK(slot[p])' /\ ViewingOK(slot[p])'
  <2>1. ~Making(slot'[p]) /\ ~Viewing(slot'[p])
    BY <1>3, <1>8
  <2> QED BY <2>1 DEF MakingOK, ViewingOK, Making, Viewing
<1>10. ASSUME NEW q \in Proc, NEW r \in Proc, q # r  PROVE Apart(slot[q], slot[r])'
  <2>1. Apart(slot'[q], slot'[r])
    BY <1>3, <1>8, <1>10, SlotFacts DEF Apart
  <2> QED BY <2>1 DEF Apart, Making, Viewing
<1>11. SlotsOK'
  <2>1. \A q \in Proc : MakingOK(slot[q])' /\ ViewingOK(slot[q])'
    BY <1>9
  <2> QED BY <1>2, <1>3, <1>10, <2>1, SlotsStep
<1> QED BY <1>6, <1>7, <1>11 DEF StoreIInv

LEMMA CommitReserveInv ==
  ASSUME StoreIInv, NEW p \in Proc, CommitReserve(p)  PROVE StoreIInv'
<1> DEFINE id == slot[p].id
           w == slot[p].row
           added == [id : {id}, seat : 1 .. w.seats, booking : {w.booking}, stray : {slot[p].stray}]
<1>1. /\ slot[p].pc = "commit" /\ Answer(p) /\ UNCHANGED <<accounts, nextId, history>>
      /\ reservations' = [i \in DOMAIN reservations \cup {id} |-> IF i = id THEN w ELSE reservations[i]]
      /\ seatRows' = seatRows \cup added
  BY DEF CommitReserve
<1>2. UNCHANGED <<users, nextUser, session>> /\ UNCHANGED <<bookings, epoch, wipes>>
  BY <1>1 DEF accounts, history
<1>3. TablesTyped /\ RowsAgree /\ SeatsOK
  BY DEF StoreIInv
<1>4. Making(slot[p])
  BY <1>1 DEF Making
<1>5. slot[p] \in MakingSlot /\ w \in Row /\ w \in RowsInUse /\ w.seats \in Nat
  BY <1>4, MakingTyped
<1>6. /\ id \in 1 .. (nextId - 1) /\ id \notin DOMAIN reservations
      /\ \A r \in seatRows : r.booking # w.booking
      /\ Truncating("reservations") => slot[p].stray \/ w.seats = 0
  BY <1>1, <1>4, SlotFacts DEF SlotOK, MakingOK
<1>7. \A r \in added : r.id = id /\ r.booking = w.booking /\ r.stray = slot[p].stray /\ r.seat \in 1 .. w.seats
  OBVIOUS
<1>8. added \subseteq SeatRow
  <2>1. id \in Nat /\ w.booking \in Nat /\ slot[p].stray \in BOOLEAN /\ 1 .. w.seats \subseteq Nat
    <3>1. id \in Nat /\ slot[p].stray \in BOOLEAN
      BY <1>5 DEF MakingSlot
    <3>2. w.booking \in Nat
      BY <1>5 DEF Row
    <3>3. 1 .. w.seats \subseteq Nat
      OBVIOUS
    <3> QED BY <3>1, <3>2, <3>3
  <2> QED BY <2>1 DEF SeatRow
<1>9. \A r \in added : added = Block(r, w.seats)
  <2>1. ASSUME NEW r \in added  PROVE added \subseteq Block(r, w.seats)
    <3>1. ASSUME NEW x \in added  PROVE x \in Block(r, w.seats)
      <4>1. x = [id |-> r.id, seat |-> x.seat, booking |-> r.booking, stray |-> r.stray]
        BY <1>7
      <4> QED BY <1>7, <4>1 DEF Block
    <3> QED BY <3>1
  <2>2. ASSUME NEW r \in added  PROVE Block(r, w.seats) \subseteq added
    <3>1. r.id = id /\ r.booking = w.booking /\ r.stray = slot[p].stray
      BY <1>7
    <3> QED BY <3>1 DEF Block
  <2> QED BY <2>1, <2>2
<1>10. w.seats > 0 => \E r \in added : r.id = id
  <2>1. w.seats > 0 => 1 \in 1 .. w.seats
    BY <1>5
  <2> HIDE DEF id
  <2>2. w.seats > 0 => [id |-> id, seat |-> 1, booking |-> w.booking, stray |-> slot[p].stray] \in added
    BY <2>1
  <2> HIDE DEF added
  <2> QED BY <1>7, <2>2
<1> HIDE DEF id, w, added
<1>11. /\ DOMAIN reservations' = DOMAIN reservations \cup {id} /\ reservations'[id] = w
       /\ \A i \in DOMAIN reservations : reservations'[i] = reservations[i]
  BY <1>1, <1>6
<1>12. \A i \in DOMAIN reservations' : reservations'[i] \in RowsInUse
  BY <1>5, <1>11 DEF RowsInUse
<1>13. TablesTyped'
  <2>1. reservations' \in [DOMAIN reservations' -> Row]
    <3>1. \A i \in DOMAIN reservations' : reservations'[i] \in Row
      BY <1>3, <1>5, <1>11 DEF TablesTyped
    <3> QED BY <1>1, <3>1
  <2>2. DOMAIN reservations' \subseteq 1 .. (nextId - 1)
    BY <1>3, <1>6, <1>11 DEF TablesTyped
  <2> QED BY <1>1, <1>2, <1>3, <1>8, <2>1, <2>2 DEF TablesTyped
<1>14. \A q \in Proc : slot'[q] = IF q = p THEN Idle ELSE slot[q]
  BY <1>1, SlotFacts DEF Answer
<1>15. Truncating("reservations")' <=> Truncating("reservations")
  BY <1>1, <1>14, InitPcs, IdlePc DEF Truncating
<1>16. SeatsOK'
  <2>1. SeatRowsBelong'
    BY <1>1, <1>3, <1>6, <1>7, <1>11 DEF SeatsOK, SeatRowsBelong
  <2>2. added = {} \/ (Truncating("reservations") => slot[p].stray)
    <3>1. w.seats = 0 => 1 .. w.seats = {}
      BY <1>5
    <3> QED BY <1>6, <1>7, <3>1
  <2>3. Truncating("reservations") => \A r \in seatRows' : r.stray
    BY <1>1, <1>3, <1>7, <2>2 DEF SeatsOK
  <2>4. \A r \in seatRows' : r.booking \in 1 .. bookings
    BY <1>1, <1>3, <1>5, <1>7 DEF SeatsOK, RowsAgree
  <2>5. RowsInUse' \subseteq RowsInUse
    <3>1. ASSUME NEW q \in Proc  PROVE RowsOf(slot'[q]) \subseteq RowsInUse
      <4>1. RowsOf(Idle) = {}
        BY DEF RowsOf, Making, Viewing, Idle
      <4> QED BY <1>14, <4>1, SlotFacts
    <3> QED BY <1>12, <3>1 DEF RowsInUse, RowsOf, Making, Viewing
  <2>6. ASSUME NEW r \in seatRows', NEW x \in RowsInUse', x.booking = r.booking
        PROVE  {y \in seatRows' : y.booking = r.booking} = Block(r, x.seats)
    <3>1. CASE r \in added
      <4>1. x = w
        BY <1>3, <1>5, <1>7, <2>5, <2>6, <3>1 DEF RowsAgree
      <4>2. {y \in seatRows' : y.booking = r.booking} = added
        BY <1>1, <1>6, <1>7, <3>1
      <4> QED BY <1>9, <3>1, <4>1, <4>2
    <3>2. CASE r \in seatRows
      <4>1. {y \in seatRows' : y.booking = r.booking} = {y \in seatRows : y.booking = r.booking}
        BY <1>1, <1>6, <1>7, <3>2
      <4> QED BY <1>3, <2>5, <2>6, <3>2, <4>1 DEF SeatsOK
    <3> QED BY <1>1, <3>1, <3>2
  <2>7. ASSUME ~Truncating("reservations"), NEW i \in DOMAIN reservations', reservations'[i].seats > 0
        PROVE  \E r \in seatRows' : r.id = i
    BY <1>1, <1>3, <1>10, <1>11, <2>7 DEF SeatsOK
  <2> QED BY <1>2, <1>15, <2>1, <2>3, <2>4, <2>6, <2>7 DEF SeatsOK
<1>17. ASSUME NEW q \in Proc \ {p}  PROVE MakingOK(slot[q])' /\ ViewingOK(slot[q])'
  <2>1. slot'[q] = slot[q] /\ MakingOK(slot[q]) /\ ViewingOK(slot[q]) /\ Apart(slot[p], slot[q])
    BY <1>14, SlotFacts DEF SlotOK
  <2>2. MakingOK(slot[q])'
    <3>1. Making(slot[q]) => slot[q].id # id /\ slot[q].row.booking # w.booking
      BY <1>4, <2>1 DEF Apart, id, w
    <3> QED BY <1>1, <1>7, <1>11, <1>15, <2>1, <3>1 DEF MakingOK, Making
  <2>3. ViewingOK(slot[q])'
    <3>1. Viewing(slot[q]) /\ slot[q].wipes = wipes => id \notin DOMAIN slot[q].left
      BY <1>4, <2>1 DEF Apart, id
    <3> QED BY <1>1, <1>2, <1>11, <2>1, <3>1 DEF ViewingOK, Viewing, OwnRows
  <2> QED BY <2>2, <2>3
<1> QED BY <1>1, <1>2, <1>12, <1>13, <1>16, <1>17, IdleStep

LEMMA CancelCommitInv ==
  ASSUME StoreIInv, NEW p \in Proc, CancelCommit(p)  PROVE StoreIInv'
<1> DEFINE id == slot[p].id
<1>1. /\ slot[p].pc = "cancel commit" /\ Answer(p) /\ UNCHANGED <<accounts, nextId, history>>
      /\ reservations' = [i \in DOMAIN reservations \ {id} |-> reservations[i]]
      /\ seatRows' = {r \in seatRows : r.id # id}
  BY DEF CancelCommit, Restrict
<1> HIDE DEF id
<1>2. UNCHANGED <<users, nextUser, session>> /\ UNCHANGED <<bookings, epoch, wipes>>
  BY <1>1 DEF accounts, history
<1>3. TablesTyped /\ SeatsOK
  BY DEF StoreIInv
<1>4. /\ DOMAIN reservations' = DOMAIN reservations \ {id}
      /\ \A i \in DOMAIN reservations' : reservations'[i] = reservations[i]
  BY <1>1
<1>5. \A i \in DOMAIN reservations' : reservations'[i] \in RowsInUse
  BY <1>4 DEF RowsInUse
<1>6. TablesTyped'
  <2>1. reservations' \in [DOMAIN reservations' -> Row]
    BY <1>1, <1>3, <1>4 DEF TablesTyped
  <2> QED BY <1>1, <1>2, <1>3, <1>4, <2>1 DEF TablesTyped
<1>7. \A q \in Proc : slot'[q] = IF q = p THEN Idle ELSE slot[q]
  BY <1>1, SlotFacts DEF Answer
<1>8. Truncating("reservations")' <=> Truncating("reservations")
  BY <1>1, <1>7, InitPcs, IdlePc DEF Truncating
<1>9. SeatsOK'
  <2>1. SeatRowsBelong'
    BY <1>1, <1>3, <1>4 DEF SeatsOK, SeatRowsBelong
  <2>2. RowsInUse' \subseteq RowsInUse
    <3>1. ASSUME NEW q \in Proc  PROVE RowsOf(slot'[q]) \subseteq RowsInUse
      <4>1. RowsOf(Idle) = {}
        BY DEF RowsOf, Making, Viewing, Idle
      <4> QED BY <1>7, <4>1, SlotFacts
    <3> QED BY <1>5, <3>1 DEF RowsInUse, RowsOf, Making, Viewing
  <2>3. ASSUME NEW r \in seatRows', NEW x \in RowsInUse', x.booking = r.booking
        PROVE  {y \in seatRows' : y.booking = r.booking} = Block(r, x.seats)
    <3>1. {y \in seatRows : y.booking = r.booking} = Block(r, x.seats)
      BY <1>1, <1>3, <2>2, <2>3 DEF SeatsOK
    <3>2. \A y \in Block(r, x.seats) : y.id # id
      <4>1. \A y \in Block(r, x.seats) : y.id = r.id
        BY DEF Block
      <4>2. r.id # id
        BY <1>1
      <4> QED BY <4>1, <4>2
    <3> QED BY <1>1, <3>1, <3>2
  <2>4. ASSUME ~Truncating("reservations"), NEW i \in DOMAIN reservations', reservations'[i].seats > 0
        PROVE  \E r \in seatRows' : r.id = i
    BY <1>1, <1>3, <1>4, <2>4 DEF SeatsOK
  <2> QED BY <1>1, <1>2, <1>3, <1>8, <2>1, <2>3, <2>4 DEF SeatsOK
<1>10. ASSUME NEW q \in Proc \ {p}  PROVE MakingOK(slot[q])' /\ ViewingOK(slot[q])'
  <2>1. slot'[q] = slot[q] /\ MakingOK(slot[q]) /\ ViewingOK(slot[q])
    BY <1>7, SlotFacts DEF SlotOK
  <2>2. MakingOK(slot[q])'
    BY <1>1, <1>4, <1>8, <2>1 DEF MakingOK, Making
  <2>3. ViewingOK(slot[q])'
    BY <1>1, <1>2, <1>4, <2>1 DEF ViewingOK, Viewing, OwnRows
  <2> QED BY <2>2, <2>3
<1> QED BY <1>1, <1>2, <1>5, <1>6, <1>9, <1>10, IdleStep

(* The three TRUNCATEs.                                                    *)
LEMMA EmptyTable ==
  ASSUME NEW S, NEW T, T = << >>  PROVE DOMAIN T = {} /\ T \in [DOMAIN T -> S]
<1>1. DOMAIN T = {} /\ T = [x \in {} |-> x]
  OBVIOUS
<1> QED BY <1>1

LEMMA Later ==
  ASSUME NEW n \in Nat
  PROVE  n + 1 \in Nat /\ \A m \in Nat : m <= n => m <= n + 1 /\ m # n + 1
  OBVIOUS

LEMMA PlainTyped ==
  ASSUME StoreIInv, NEW p \in Proc,
         slot[p].pc \in {"truncate seats", "truncate reservations", "truncate users"}
  PROVE  slot[p] \in PlainSlot /\ holds[p] = {} /\ RowsOf(slot[p]) = {}
<1>1. slot[p] \in PlainSlot
  BY SlotFacts DEF Slot, PanicSlot, MakingSlot, UserSlot, CancelSlot, FindSlot, ViewSlot
<1>2. holds[p] = {} /\ RowsOf(slot[p]) = {}
  BY SlotFacts DEF SlotOK, LocksKept, RowsOf, Making, Viewing
<1> QED BY <1>1, <1>2

(* An initialize goes on; what its table change has to respect.            *)
LEMMA TruncateStep ==
  ASSUME StoreIInv, NEW p \in Proc,
         slot[p].pc \in {"truncate seats", "truncate reservations", "truncate users"},
         NEW s \in PlainSlot, s.pc # "leaked",
         slot' = [slot EXCEPT ![p] = s], UNCHANGED <<holds, session, bookings>>,
         \A i \in DOMAIN reservations' : reservations'[i] \in RowsInUse,
         TablesTyped', SeatsOK', CookiesInUse' \subseteq CookiesInUse => CookiesAgree',
         \A q \in Proc \ {p} : MakingOK(slot[q])' /\ ViewingOK(slot[q])' /\ (Viewing(slot[q]) => wipes' = wipes \/ slot[q].wipes # wipes')
  PROVE  StoreIInv'
<1>1. s \in Slot /\ ~Making(s) /\ ~Viewing(s) /\ ~HasWho(s)
  BY InitPcs DEF PlainSlot, PlainPcs, Slot, Making, Viewing, HasWho
<1>2. RowsOf(s) = {} /\ LocksKept(s, holds[p])
  BY <1>1, InitPcs, PlainTyped DEF RowsOf, PlainSlot, PlainPcs, LocksKept
<1>3. RowsInUse' \subseteq RowsInUse /\ CookiesInUse' \subseteq CookiesInUse
  <2> DEFINE N == {}
  <2>1. RowsOf(s) \subseteq RowsInUse \cup N /\ \A w \in N : w.made \in CookiesInUse
    BY <1>2
  <2>2. RowsInUse \cup N = RowsInUse
    OBVIOUS
  <2> HIDE DEF N
  <2> QED BY <1>1, <2>1, <2>2, InUseStep
<1>4. RowsAgree'
  <2>1. bookings \in Nat
    BY DEF StoreIInv, TablesTyped
  <2> QED BY <1>3, <2>1, RowsKept DEF StoreIInv
<1>5. \A q \in Proc : slot'[q] = IF q = p THEN s ELSE slot[q]
  BY SlotFacts
<1>6. MakingOK(slot[p])' /\ ViewingOK(slot[p])'
  <2>1. ~Making(slot'[p]) /\ ~Viewing(slot'[p])
    BY <1>1, <1>5
  <2> QED BY <2>1 DEF MakingOK, ViewingOK, Making, Viewing
<1>7. ASSUME NEW q \in Proc, NEW r \in Proc, q # r  PROVE Apart(slot[q], slot[r])'
  <2>1. CASE q = p \/ r = p
    <3>1. ~Making(slot'[q]) \/ (~Making(slot'[r]) /\ ~Viewing(slot'[r]))
      BY <1>1, <1>5, <2>1
    <3> QED BY <3>1 DEF Apart, Making, Viewing
  <2>2. CASE q # p /\ r # p
    <3>1. slot'[q] = slot[q] /\ slot'[r] = slot[r] /\ Apart(slot[q], slot[r])
      BY <1>5, <1>7, <2>2, SlotFacts
    <3>2. Viewing(slot[r]) => wipes' = wipes \/ slot[r].wipes # wipes'
      BY <2>2
    <3> QED BY <3>1, <3>2 DEF Apart, Making, Viewing
  <2> QED BY <2>1, <2>2
<1>8. SlotsOK'
  <2>1. \A q \in Proc : MakingOK(slot[q])' /\ ViewingOK(slot[q])'
    BY <1>6
  <2>2. holds' = [holds EXCEPT ![p] = holds[p]] /\ holds[p] \in SUBSET {"reservations", "seats"}
    BY SlotFacts
  <2> QED BY <1>1, <1>2, <1>7, <2>1, <2>2, SlotsStep
<1> QED BY <1>3, <1>4, <1>8 DEF StoreIInv

LEMMA TruncateSeatsInv ==
  ASSUME StoreIInv, NEW p \in Proc, TruncateSeats(p)  PROVE StoreIInv'
<1> DEFINE s == [slot[p] EXCEPT !.pc = "truncate reservations"]
<1>1. /\ slot[p].pc = "truncate seats" /\ MayTruncate(p, "seats") /\ seatRows' = {}
      /\ slot' = [slot EXCEPT ![p] = s]
      /\ UNCHANGED <<accounts, reservations, nextId, holds, history>>
  BY InitPcs DEF TruncateSeats, Serve
<1>2. UNCHANGED <<users, nextUser, session>> /\ UNCHANGED <<bookings, epoch, wipes>>
  BY <1>1 DEF accounts, history
<1>3. s \in PlainSlot /\ s.pc = "truncate reservations"
  BY <1>1, PlainTyped, InitPcs DEF PlainSlot, PlainPcs
<1> HIDE DEF s
<1>4. \A q \in Proc : slot'[q] = IF q = p THEN s ELSE slot[q]
  BY <1>1, SlotFacts
<1>5. Truncating("reservations")'
  BY <1>3, <1>4, InitPcs DEF Truncating
<1>6. TablesTyped'
  BY <1>1, <1>2 DEF StoreIInv, TablesTyped
<1>7. SeatsOK'
  BY <1>1, <1>5 DEF SeatsOK, SeatRowsBelong
<1>8. \A i \in DOMAIN reservations' : reservations'[i] \in RowsInUse
  BY <1>1 DEF RowsInUse
<1>9. CookiesInUse' \subseteq CookiesInUse => CookiesAgree'
  BY <1>2, CookiesKept DEF StoreIInv
<1>10. ASSUME NEW q \in Proc \ {p}  PROVE MakingOK(slot[q])' /\ ViewingOK(slot[q])'
  <2>1. slot'[q] = slot[q] /\ MakingOK(slot[q]) /\ ViewingOK(slot[q]) /\ LocksKept(slot[q], holds[q])
    BY <1>4, SlotFacts DEF SlotOK
  <2>2. slot[q].pc = "commit" => slot[q].row.seats = 0
    <3>1. slot[q].pc = "commit" => slot[q].row.seats \in Nat
      BY MakingTyped DEF Making
    <3>2. slot[q].pc = "commit" => ~(slot[q].row.seats > 0)
      BY <1>1, <2>1 DEF LocksKept, MayTruncate
    <3> QED BY <3>1, <3>2
  <2>3. MakingOK(slot[q])'
    BY <1>1, <2>1, <2>2 DEF MakingOK, Making
  <2>4. ViewingOK(slot[q])'
    BY <1>1, <1>2, <2>1 DEF ViewingOK, Viewing, OwnRows
  <2> QED BY <2>3, <2>4
<1> QED BY <1>1, <1>2, <1>3, <1>6, <1>7, <1>8, <1>9, <1>10, TruncateStep

LEMMA TruncateReservationsInv ==
  ASSUME StoreIInv, NEW p \in Proc, TruncateReservations(p)  PROVE StoreIInv'
<1> DEFINE s == [slot[p] EXCEPT !.pc = "truncate users"]
<1>1. /\ slot[p].pc = "truncate reservations" /\ MayTruncate(p, "reservations")
      /\ reservations' = << >> /\ nextId' = 1 /\ wipes' = wipes + 1
      /\ slot' = [slot EXCEPT ![p] = s]
      /\ UNCHANGED <<accounts, seatRows, holds, bookings, epoch>>
  BY InitPcs DEF TruncateReservations, Serve
<1>2. UNCHANGED <<users, nextUser, session>>
  BY <1>1 DEF accounts
<1>3. s \in PlainSlot /\ s.pc = "truncate users"
  BY <1>1, PlainTyped DEF PlainSlot, PlainPcs
<1> HIDE DEF s
<1>4. \A q \in Proc : slot'[q] = IF q = p THEN s ELSE slot[q]
  BY <1>1, SlotFacts
<1>5. Truncating("reservations")
  BY <1>1, InitPcs DEF Truncating
<1>6. DOMAIN reservations' = {} /\ reservations' \in [DOMAIN reservations' -> Row]
  <2>1. reservations' = << >>
    BY <1>1
  <2> QED BY <2>1, EmptyTable
<1>7. TablesTyped /\ SeatsOK /\ wipes \in Nat
  BY DEF StoreIInv, TablesTyped
<1>8. wipes' \in Nat /\ \A n \in Nat : n <= wipes => n <= wipes' /\ n # wipes'
  <2>1. wipes' = wipes + 1
    BY <1>1
  <2> QED BY <1>7, <2>1, Later
<1>9. TablesTyped'
  <2>1. nextId' = 1 /\ UNCHANGED <<seatRows, bookings, epoch>>
    BY <1>1
  <2>2. nextId' \in Nat \ {0}
    BY <2>1
  <2> QED BY <1>2, <1>6, <1>7, <1>8, <2>1, <2>2 DEF TablesTyped
<1>10. SeatsOK'
  <2>1. RowsInUse' \subseteq RowsInUse
    <3>1. ASSUME NEW q \in Proc  PROVE RowsOf(slot'[q]) \subseteq RowsInUse
      <4>1. RowsOf(s) = {}
        BY <1>3 DEF RowsOf, Making, Viewing
      <4> QED BY <1>4, <4>1, SlotFacts
    <3> QED BY <1>6, <3>1 DEF RowsInUse, RowsOf, Making, Viewing
  <2>2. \A r \in seatRows : r.stray
    BY <1>5, <1>7 DEF SeatsOK
  <2>3. SeatRowsBelong'
    BY <1>1, <2>2 DEF SeatRowsBelong
  <2>4. \A r \in seatRows', w \in RowsInUse' : w.booking = r.booking =>
          {x \in seatRows' : x.booking = r.booking} = Block(r, w.seats)
    BY <1>1, <1>7, <2>1 DEF SeatsOK
  <2> QED BY <1>1, <1>6, <1>7, <2>2, <2>3, <2>4 DEF SeatsOK
<1>11. \A i \in DOMAIN reservations' : reservations'[i] \in RowsInUse
  BY <1>6
<1>12. CookiesInUse' \subseteq CookiesInUse => CookiesAgree'
  BY <1>1, <1>2, CookiesKept DEF StoreIInv
<1>13. ASSUME NEW q \in Proc \ {p}
       PROVE  MakingOK(slot[q])' /\ ViewingOK(slot[q])' /\ (Viewing(slot[q]) => slot[q].wipes # wipes')
  <2>1. slot'[q] = slot[q] /\ ViewingOK(slot[q]) /\ LocksKept(slot[q], holds[q])
    BY <1>4, SlotFacts DEF SlotOK
  <2>2. MakingOK(slot[q])'
    BY <1>1, <2>1 DEF MakingOK, Making, LocksKept, MayTruncate
  <2>3. Viewing(slot[q]) => slot[q].wipes <= wipes' /\ slot[q].wipes # wipes'
    <3>1. Viewing(slot[q]) => slot[q].wipes \in Nat /\ slot[q].wipes <= wipes
      BY <2>1, ViewingTyped DEF ViewingOK, ViewSlot
    <3> QED BY <1>7, <1>8, <3>1
  <2>4. ViewingOK(slot[q])'
    BY <2>1, <2>3 DEF ViewingOK, Viewing, OwnRows
  <2> QED BY <2>2, <2>3, <2>4
<1> QED BY <1>1, <1>2, <1>3, <1>9, <1>10, <1>11, <1>12, <1>13, TruncateStep

LEMMA TruncateUsersInv ==
  ASSUME StoreIInv, NEW p \in Proc, TruncateUsers(p)  PROVE StoreIInv'
<1>1. /\ slot[p].pc = "truncate users" /\ slot' = [slot EXCEPT ![p] = Idle]
      /\ users' = << >> /\ nextUser' = 1 /\ epoch' = epoch + 1
      /\ UNCHANGED <<session, tables, holds, bookings, wipes>>
  BY DEF TruncateUsers, Serve
<1>2. UNCHANGED <<reservations, nextId, seatRows>>
  BY <1>1 DEF tables
<1>3. TablesTyped /\ SeatsOK /\ CookiesAgree /\ epoch \in Nat
  BY DEF StoreIInv, TablesTyped
<1>4. \A q \in Proc : slot'[q] = IF q = p THEN Idle ELSE slot[q]
  BY <1>1, SlotFacts
<1>5. Truncating("reservations")' <=> Truncating("reservations")
  BY <1>1, <1>4, InitPcs, IdlePc DEF Truncating
<1>6. TablesTyped'
  <2>1. users' = << >> /\ epoch' = epoch + 1
    BY <1>1
  <2>2. users' \in [DOMAIN users' -> Account] /\ DOMAIN users' = {}
    BY <2>1, EmptyTable
  <2>3. epoch' \in Nat
    BY <1>3, <2>1, Later
  <2>4. nextUser' = 1 /\ UNCHANGED <<session, bookings, wipes>>
    BY <1>1
  <2>5. nextUser' \in Nat \ {0}
    BY <2>4
  <2> QED BY <1>2, <1>3, <2>2, <2>3, <2>4, <2>5 DEF TablesTyped
<1>7. SeatsOK'
  <2>1. RowsInUse' \subseteq RowsInUse
    <3>1. ASSUME NEW q \in Proc  PROVE RowsOf(slot'[q]) \subseteq RowsInUse
      <4>1. RowsOf(Idle) = {}
        BY DEF RowsOf, Making, Viewing, Idle
      <4> QED BY <1>4, <4>1, SlotFacts
    <3>2. RowsInUse' = {reservations'[i] : i \in DOMAIN reservations'} \cup UNION {RowsOf(slot'[q]) : q \in Proc}
      BY DEF RowsInUse, RowsOf, Making, Viewing
    <3>3. {reservations'[i] : i \in DOMAIN reservations'} \subseteq RowsInUse
      BY <1>2 DEF RowsInUse
    <3> QED BY <3>1, <3>2, <3>3
  <2>2. SeatRowsBelong'
    BY <1>2, <1>3 DEF SeatsOK, SeatRowsBelong
  <2>3. \A r \in seatRows', w \in RowsInUse' : w.booking = r.booking =>
          {x \in seatRows' : x.booking = r.booking} = Block(r, w.seats)
    BY <1>2, <1>3, <2>1 DEF SeatsOK
  <2> QED BY <1>1, <1>2, <1>3, <1>5, <2>2, <2>3 DEF SeatsOK
<1>8. \A i \in DOMAIN reservations' : reservations'[i] \in RowsInUse
  BY <1>2 DEF RowsInUse
<1>9. CookiesInUse' \subseteq CookiesInUse => CookiesAgree'
  <2>1. \A n \in Nat : n <= epoch => n <= epoch' /\ n # epoch'
    <3>1. epoch' = epoch + 1
      BY <1>1
    <3> QED BY <1>3, <3>1, Later
  <2>2. \A c \in CookiesInUse : c.epoch \in Nat
    <3>1. \A q \in Proc : HasWho(slot[q]) => slot[q].who \in Session
      BY SlotFacts, InitPcs DEF HasWho, Slot, PlainSlot, PanicSlot, PlainPcs, UserSlot, MakingSlot, CancelSlot, FindSlot, ViewSlot
    <3>2. \A w \in RowsInUse : w.made \in Session
      <4>1. \A i \in DOMAIN reservations : reservations[i] \in Row
        BY <1>3 DEF TablesTyped
      <4>2. \A q \in Proc : \A w \in RowsOf(slot[q]) : w \in Row
        BY MakingTyped, ViewingTyped DEF RowsOf, View
      <4> QED BY <4>1, <4>2 DEF RowsInUse, Row
    <3> QED BY <3>1, <3>2, SlotFacts DEF CookiesInUse, Session
  <2> QED BY <1>3, <2>1, <2>2 DEF CookiesAgree
<1>10. ASSUME NEW q \in Proc \ {p}  PROVE MakingOK(slot[q])' /\ ViewingOK(slot[q])'
  <2>1. slot'[q] = slot[q] /\ MakingOK(slot[q]) /\ ViewingOK(slot[q])
    BY <1>4, SlotFacts DEF SlotOK
  <2>2. MakingOK(slot[q])'
    BY <1>2, <1>5, <2>1 DEF MakingOK, Making
  <2>3. ViewingOK(slot[q])'
    BY <1>1, <1>2, <2>1 DEF ViewingOK, Viewing, OwnRows
  <2> QED BY <2>2, <2>3
<1>11. Idle \in PlainSlot /\ Idle.pc # "leaked"
  BY DEF Idle, PlainSlot, PlainPcs
<1> QED BY <1>1, <1>6, <1>7, <1>8, <1>9, <1>10, <1>11, TruncateStep

-----------------------------------------------------------------------------
(* The invariant holds from the start and in every step.                   *)

LEMMA InitInv == Init => StoreIInv
<1> SUFFICES ASSUME Init  PROVE StoreIInv
  OBVIOUS
<1>1. /\ \A p \in Proc : slot[p] = Idle /\ holds[p] = {}
      /\ slot \in [Proc -> {Idle}] /\ holds \in [Proc -> {{}}] /\ seatRows = {}
  BY DEF Init
<1>2. /\ users = << >> /\ nextUser = 1 /\ reservations = << >> /\ nextId = 1
      /\ bookings = 0 /\ epoch = 0 /\ wipes = 0
      /\ session = [b \in Browser |-> LoggedOut]
  BY DEF Init
<1>3. /\ DOMAIN reservations = {} /\ reservations \in [DOMAIN reservations -> Row]
      /\ DOMAIN users = {} /\ users \in [DOMAIN users -> Account]
  BY <1>2, EmptyTable
<1>4. LoggedOut \in Session /\ LoggedOut.epoch = 0 /\ LoggedOut.user_id = NoUser /\ LoggedOut.account = NoAccount
  BY DEF LoggedOut, Session, NoUser
<1>5. Idle \in Slot /\ ~Making(Idle) /\ ~Viewing(Idle) /\ ~HasWho(Idle) /\ LocksKept(Idle, {}) /\ RowsOf(Idle) = {}
  BY DEF Idle, Slot, PlainSlot, PlainPcs, Making, Viewing, HasWho, LocksKept, RowsOf
<1>6. RowsInUse = {}
  BY <1>1, <1>3, <1>5 DEF RowsInUse
<1>7. \A c \in CookiesInUse : c = LoggedOut
  BY <1>1, <1>2, <1>5, <1>6 DEF CookiesInUse
<1>8. TablesTyped
  <2>1. session \in [Browser -> Session]
    BY <1>2, <1>4
  <2> QED BY <1>1, <1>2, <1>3, <2>1 DEF TablesTyped
<1>9. RowsAgree
  BY <1>6 DEF RowsAgree
<1>10. CookiesAgree
  BY <1>2, <1>4, <1>7 DEF CookiesAgree
<1>11. SlotsOK
  BY <1>1, <1>5 DEF SlotsOK, SlotOK, MakingOK, ViewingOK, Apart
<1>12. SeatsOK
  BY <1>1, <1>3 DEF SeatsOK, SeatRowsBelong
<1> QED BY <1>8, <1>9, <1>10, <1>11, <1>12 DEF StoreIInv

LEMMA StutterInv ==
  ASSUME StoreIInv, UNCHANGED vars  PROVE StoreIInv'
<1>1. UNCHANGED <<accounts, tables, slot, holds, history>>
  BY DEF vars
<1>2. UNCHANGED <<users, nextUser, session>>
  BY <1>1 DEF accounts
<1>3. TablesTyped'
  BY <1>1, <1>2 DEF StoreIInv, TablesTyped, tables, history
<1>4. RowsInUse' = RowsInUse
  BY <1>1 DEF RowsInUse, RowsOf, Making, Viewing, tables
<1>5. CookiesInUse' = CookiesInUse
  BY <1>1, <1>2, <1>4 DEF CookiesInUse, HasWho
<1>6. CookiesAgree'
  BY <1>1, <1>2, <1>5, CookiesKept DEF StoreIInv, history
<1> QED BY <1>1, <1>3, <1>6, AccountStep

LEMMA NextInv ==
  ASSUME StoreIInv, [Next]_vars  PROVE StoreIInv'
<1>1. CASE UNCHANGED vars
  BY <1>1, StutterInv
<1>2. CASE \E a \in Account : SignUp(a) \/ \E b \in Browser : Login(b, a)
  BY <1>2, SignUpInv, LoginInv
<1>3. CASE \E b \in Browser : Logout(b)
  BY <1>3, LogoutInv
<1>4. ASSUME NEW p \in Proc, Request(p)  PROVE StoreIInv'
  BY <1>4, ReserveScanInv, CancelUserInv, ViewUserInv, InitBeginInv DEF Request
<1>5. ASSUME NEW p \in Proc, Handle(p)  PROVE StoreIInv'
  BY <1>5, ReserveCheckInv, ReserveUserInv, InsertReservationInv, InsertSeatsInv, CommitReserveInv,
     CancelFindInv, CancelRowInv, CancelSeatsInv, CancelCommitInv,
     ViewFindInv, ViewSeatsInv, ViewAnswerInv,
     TruncateSeatsInv, TruncateReservationsInv, TruncateUsersInv DEF Handle
<1>6. ASSUME NEW p \in Proc, CancelLeak(p)  PROVE StoreIInv'
  BY <1>6, CancelLeakInv
<1>7. ASSUME NEW p \in Proc, ViewSeatsFails(p) \/ Fails(p)  PROVE StoreIInv'
  BY <1>7, ViewSeatsFailsInv, FailsInv
<1> QED BY <1>1, <1>2, <1>3, <1>4, <1>5, <1>6, <1>7 DEF Next

(* The invariant holds in every state of every behaviour, so what one      *)
(* statement relies on of an earlier one still holds when it runs.         *)
THEOREM StoreTyping == Spec => []StoreIInv
<1>1. StoreIInv /\ [Next]_vars => StoreIInv'
  BY NextInv
<1> QED BY <1>1, InitInv, PTL DEF Spec

LEMMA InvTypeOK == StoreIInv => TypeOK
<1> SUFFICES ASSUME StoreIInv  PROVE TypeOK
  OBVIOUS
<1>1. TablesTyped /\ SeatsOK /\ RowsAgree
  BY DEF StoreIInv
<1>2. \A i \in DOMAIN reservations : reservations[i].booking \in 1 .. bookings
  BY <1>1 DEF RowsAgree, RowsInUse
<1>3. \A p \in Proc : /\ holds[p] \subseteq {"reservations", "seats"}
                      /\ slot[p].pc \in {"idle", "view find", "view", "panicked", "cancel find"}
                           => holds[p] = {}
  BY SlotFacts DEF SlotOK, LocksKept
<1> QED BY <1>1, <1>2, <1>3 DEF TypeOK, TablesTyped, SeatsOK

(* Users, reservations and seat rows are those of calls made, and only a   *)
(* slot inside a transaction keeps a table from being truncated.           *)
THEOREM StoreTypeOK == Spec => []TypeOK
  BY StoreTyping, InvTypeOK, PTL

LEMMA InvSessions == StoreIInv => SessionsKeepTheirAccount
<1> SUFFICES ASSUME StoreIInv, NEW b \in Browser, session[b].epoch = epoch, Known(session[b])
             PROVE  users[session[b].user_id] = session[b].account
  BY DEF SessionsKeepTheirAccount
<1>1. session[b] \in CookiesInUse
  BY DEF CookiesInUse
<1>2. session[b].user_id # NoUser
  <2>1. DOMAIN users \subseteq 1 .. (nextUser - 1) /\ \A u \in 1 .. (nextUser - 1) : u # 0
    BY DEF StoreIInv, TablesTyped
  <2> QED BY <2>1 DEF Known, NoUser
<1> QED BY <1>1, <1>2 DEF StoreIInv, CookiesAgree

(* Until initialize truncates users, a cookie stands for whoever logged in *)
(* with it, however ids are handed out.                                    *)
THEOREM SessionsAreKept == Spec => []SessionsKeepTheirAccount
  BY StoreTyping, InvSessions, PTL

(* A committed seat belongs to the reservation of its id or was inserted   *)
(* between the two TRUNCATEs of one initialize.                            *)
THEOREM SeatsBelong == Spec => []SeatRowsBelong
<1>1. StoreIInv => SeatRowsBelong
  BY DEF StoreIInv, SeatsOK
<1> QED BY <1>1, StoreTyping, PTL

LEMMA InvViews == StoreIInv => ViewsAreWhole
<1> SUFFICES ASSUME StoreIInv, NEW p \in Proc, slot[p].pc = "view", NEW v \in slot[p].shown, ~v.wiped
             PROVE  LET own == {row \in v.rows : row.booking = v.row.booking}
                    IN  /\ \A row \in v.rows \ own : row.stray
                        /\ own # {} /\ ~v.cut => Cardinality(own) = v.row.seats
  BY DEF ViewsAreWhole
<1>1. ViewingOK(slot[p])
  BY SlotFacts DEF SlotOK
<1> QED BY <1>1 DEF ViewingOK, Viewing, OwnRows

(* What list and show answer is whole although a reservation and its seats *)
(* are read by separate statements, unless reservations was truncated      *)
(* between them or the second one failed.                                  *)
THEOREM ViewsWhole == Spec => []ViewsAreWhole
  BY StoreTyping, InvViews, PTL

LEMMA InvOwn == StoreIInv => ViewsShowOwnBookings
<1> SUFFICES ASSUME StoreIInv, NEW p \in Proc, slot[p].pc = "view", NEW v \in slot[p].shown,
                    v.row.made.epoch = slot[p].who.epoch
             PROVE  v.row.made.account = slot[p].who.account
  BY DEF ViewsShowOwnBookings
<1>1. Viewing(slot[p]) /\ ViewingOK(slot[p])
  BY SlotFacts DEF SlotOK, Viewing
<1>2. v.row \in RowsInUse /\ slot[p].who \in CookiesInUse
  BY <1>1, ViewingTyped
<1>3. v.row.made \in CookiesInUse /\ v.row.user = v.row.made.user_id
  BY <1>2 DEF CookiesInUse, StoreIInv, RowsAgree
<1>4. v.row.user = slot[p].who.user_id
  BY <1>1 DEF ViewingOK
<1> QED BY <1>2, <1>3, <1>4 DEF StoreIInv, CookiesAgree

(* Nobody is shown a reservation somebody else made, unless users was      *)
(* truncated between the two logins.                                       *)
THEOREM ViewsOwn == Spec => []ViewsShowOwnBookings
  BY StoreTyping, InvOwn, PTL

LEMMA PanicGone ==
  ASSUME StoreIInv, NEW p \in Proc, slot[p].pc = "view", NEW i \in DOMAIN slot[p].left,
         NEW rows, Respond(p, i, rows), slot'[p].pc = "panicked"
  PROVE  slot'[p].cut \/ Gone(slot'[p].id, slot[p].left[slot'[p].id])
<1>1. Viewing(slot[p])
  BY DEF Viewing
<1>2. slot[p] \in ViewSlot /\ slot[p].left[i] \in Row /\ slot[p].left[i] \in RowsInUse
  BY <1>1, ViewingTyped
<1>3. rows = {}
  <2> SUFFICES ASSUME rows # {}  PROVE FALSE
    OBVIOUS
  <2>1. \E l, sh : slot' = [slot EXCEPT ![p] = [slot[p] EXCEPT !.left = l, !.shown = sh]]
    BY DEF Respond, Serve
  <2>2. \A l, sh : [slot[p] EXCEPT !.left = l, !.shown = sh].pc = slot[p].pc
    BY <1>2 DEF ViewSlot
  <2>3. slot'[p].pc = slot[p].pc
    BY <2>1, <2>2, SlotFacts
  <2> QED BY <2>3
<1>4. slot'[p].id = i /\ slot'[p].cut = (rows # SeatsOf(i))
  <2>1. slot'[p] = [pc |-> "panicked", id |-> i, cut |-> rows # SeatsOf(i)]
    BY <1>3, SlotFacts DEF Respond, Serve
  <2> QED BY <2>1
<1>5. ASSUME SeatsOf(i) = {}, i \in DOMAIN reservations,
             reservations[i].booking = slot[p].left[i].booking, ~Truncating("reservations")
      PROVE  slot[p].left[i].seats = 0
  <2>1. reservations[i] \in RowsInUse
    BY <1>5 DEF RowsInUse
  <2>2. reservations[i] = slot[p].left[i]
    BY <1>2, <1>5, <2>1 DEF StoreIInv, RowsAgree
  <2>3. ~(reservations[i].seats > 0)
    BY <1>5 DEF StoreIInv, SeatsOK, SeatsOf
  <2>4. reservations[i].seats \in Nat
    BY <1>2, <2>2 DEF Row
  <2>5. reservations[i].seats = 0
    BY <2>3, <2>4
  <2> QED BY <2>2, <2>5
<1> QED BY <1>3, <1>4, <1>5 DEF Gone

LEMMA OnlySeatsPanic ==
  ASSUME StoreIInv, Next, NEW p \in Proc, slot[p].pc = "view", slot'[p].pc = "panicked"
  PROVE  ViewSeats(p) \/ ViewSeatsFails(p)
<1>1. slot \in [Proc -> Slot]
  BY SlotFacts
<1>2. slot' # slot
  OBVIOUS
<1>3. PICK q \in Proc : Request(q) \/ Handle(q) \/ ViewSeatsFails(q) \/ Fails(q) \/ CancelLeak(q)
  BY <1>2 DEF Next, SignUp, Login, Logout, SetSession
<1>4. \A r \in Proc \ {q} : slot'[r] = slot[r]
  BY <1>1, <1>3 DEF Request, Handle, CancelLeak, ReserveScan, CancelUser, ViewUser, InitBegin, ReserveCheck,
       ReserveUser, InsertReservation, InsertSeats, CommitReserve, CancelFind, CancelRow, CancelSeats,
       CancelCommit, ViewFind, ViewSeats, ViewSeatsFails, Respond, Fails, ViewAnswer, TruncateSeats,
       TruncateReservations, TruncateUsers, Serve, Answer
<1>5. q = p
  BY <1>4
<1>6. slot[p] # Idle
  BY IdlePc
<1>7. ~Request(p) /\ ~CancelLeak(p)
  BY <1>6 DEF Request, CancelLeak, ReserveScan, CancelUser, ViewUser, InitBegin
<1>8. CASE ViewAnswer(p) \/ Fails(p)
  <2>1. slot'[p] = Idle
    BY <1>1, <1>8 DEF ViewAnswer, Fails, Answer, Serve
  <2> QED BY <2>1, IdlePc
<1>9. CASE Handle(p) /\ ~ViewAnswer(p)
  BY <1>9, InitPcs DEF Handle, ReserveCheck, ReserveUser, InsertReservation, InsertSeats, CommitReserve,
       CancelFind, CancelRow, CancelSeats, CancelCommit, ViewFind, TruncateSeats, TruncateReservations,
       TruncateUsers
<1> QED BY <1>3, <1>5, <1>7, <1>8, <1>9

(* A view only panics on the reservation whose seats it just failed to     *)
(* read, or found none of because that reservation is gone or going, or    *)
(* was made without seats.                                                 *)
THEOREM PanicsExplained == Spec => PanicsOnlyWhenGoneOrCut
<1>1. StoreIInv /\ [Next]_vars =>
        [\A p \in Proc : ViewPanics(p) =>
           slot'[p].cut \/ Gone(slot'[p].id, slot[p].left[slot'[p].id])]_vars
  <2> SUFFICES ASSUME StoreIInv, Next, NEW p \in Proc, ViewPanics(p)
               PROVE  slot'[p].cut \/ Gone(slot'[p].id, slot[p].left[slot'[p].id])
    OBVIOUS
  <2>1. slot[p].pc = "view" /\ slot'[p].pc = "panicked"
    BY DEF ViewPanics
  <2>2. \E i \in DOMAIN slot[p].left : \E rows \in SUBSET SeatsOf(i) : Respond(p, i, rows)
    BY <2>1, OnlySeatsPanic DEF ViewSeats, ViewSeatsFails
  <2> QED BY <2>1, <2>2, PanicGone
<1> QED BY <1>1, StoreTyping, PTL DEF Spec, PanicsOnlyWhenGoneOrCut
=============================================================================
