----------------------------- MODULE Storefront -----------------------------
(***************************************************************************)
(* Accounts and sessions, the reservation views (list and show) and the    *)
(* initialize handler, running beside reserves and cancels, one SQL        *)
(* statement at a time.  Row locks and seats in dispute are SeatBooking's  *)
(* subject: here a transaction matters for the metadata locks it keeps on  *)
(* the tables it has touched.  TRUNCATE waits for every one of them, and   *)
(* while it waits no other transaction gets to touch the table.            *)
(* A booking is one successful reserve; its number is never reused, while  *)
(* reservation ids and user ids start again at 1 after a TRUNCATE.         *)
(***************************************************************************)
EXTENDS Integers, FiniteSets, Functions

CONSTANTS Account,      \* people, each with an email address and a password
          Browser,      \* cookie jars; anybody may log in from any of them
          Proc,         \* request slots
          SeatCounts,   \* how many seats a reserve may ask for (adult + child)
          NoAccount,    \* nobody
          AskedIds,     \* reservation ids clients ask for
          MaxBookings,  \* bound: reserves in one behaviour
          MaxViews,     \* bound: views at a time (they change nothing)
          MaxInits      \* bound: initialize requests in one behaviour

ASSUME StorefrontAssumption ==
  /\ SeatCounts \subseteq Nat /\ NoAccount \notin Account
  /\ MaxBookings \in Nat /\ MaxViews \in Nat /\ MaxInits \in Nat

VARIABLES users,        \* function: user id -> the account of that row
          nextUser,     \* AUTO_INCREMENT of users
          session,      \* function: Browser -> its cookie's user_id, with (as
                        \* history) the account and epoch it was set for
          reservations, \* function: reservation_id -> [user, seats] and, as
                        \* history, its booking and the session it was made in
          nextId,       \* AUTO_INCREMENT of reservations
          seatRows,     \* committed rows of seat_reservations; as history, the
                        \* booking and whether the row is a stray: inserted
                        \* between the two TRUNCATEs of one initialize
          slot,         \* function: Proc -> the request being served
          holds,        \* function: Proc -> tables its open transaction touched
          bookings,     \* history: bookings made so far
          epoch,        \* history: how often users was truncated
          wipes,        \* history: how often reservations was truncated
          inits         \* initialize requests so far

tables == <<reservations, nextId, seatRows>>
accounts == <<users, nextUser, session>>
history == <<bookings, epoch, wipes, inits>>
vars == <<accounts, tables, slot, holds, history>>

NoUser == 0
LoggedOut == [user_id |-> NoUser, epoch |-> 0, account |-> NoAccount]

Idle == [pc |-> "idle"]
Leaked == [pc |-> "leaked"]

InitPc == [seats |-> "truncate seats", reservations |-> "truncate reservations"]

-----------------------------------------------------------------------------
(* Metadata locks.                                                         *)

Truncating(t) == \E q \in Proc : slot[q].pc = InitPc[t]

(* A statement of p on table t goes ahead when its transaction has used    *)
(* the table before or nobody waits to truncate it.                        *)
MayUse(p, t) == t \in holds[p] \/ ~Truncating(t)

MayTruncate(p, t) == \A q \in Proc : t \notin holds[q]

Serve(p, s) == slot' = [slot EXCEPT ![p] = s]
Answer(p) == slot' = [slot EXCEPT ![p] = Idle] /\ holds' = [holds EXCEPT ![p] = {}]
Touch(p, t) == holds' = [holds EXCEPT ![p] = @ \cup {t}]

-----------------------------------------------------------------------------
(* Accounts: one statement each, no transaction.                           *)

SignUp(a) ==
  /\ \A u \in DOMAIN users : users[u] # a           \* email is UNIQUE
  /\ users' = [u \in DOMAIN users \cup {nextUser} |-> IF u = nextUser THEN a ELSE users[u]]
  /\ nextUser' = nextUser + 1
  /\ UNCHANGED <<session, tables, slot, holds, history>>

SetSession(b, s) ==
  session' = [session EXCEPT ![b] = s] /\ UNCHANGED <<users, nextUser, tables, slot, holds, history>>

(* Logging in to the first account whatever the email address.             *)
LoginAnybody(b, a) ==
  /\ DOMAIN users # {}
  /\ SetSession(b, [user_id |-> 1, epoch |-> epoch, account |-> a])

(* The SELECT by email.  session.Save touches no shared state: it writes   *)
(* what was read into the answer's cookie, which is dated (epoch) here, at *)
(* the SELECT, and not when the answer arrives.                            *)
Login(b, a) ==
  \E u \in DOMAIN users :
    users[u] = a /\ SetSession(b, [user_id |-> u, epoch |-> epoch, account |-> a])

Logout(b) == SetSession(b, LoggedOut)

(* getUser finds the row of the user_id the request's cookie carries,      *)
(* whoever's it is by now.                                                 *)
Known(who) == who.user_id \in DOMAIN users

-----------------------------------------------------------------------------
(* The reserve handler, from its scan of reservations (FOR UPDATE) on.     *)

ReserveScan(p, b, n) ==
  /\ slot[p] = Idle /\ MayUse(p, "reservations")
  /\ bookings + Cardinality({q \in Proc : slot[q].pc \in {"check", "user", "insert"}})
       < MaxBookings
  /\ \E dup \in BOOLEAN :          \* another reservation's section overlaps
       /\ dup => DOMAIN reservations # {}
       /\ Serve(p, [pc |-> IF dup THEN "check" ELSE "user", who |-> session[b], seats |-> n])
  /\ Touch(p, "reservations")
  /\ UNCHANGED <<accounts, tables, history>>

(* The seats of the overlapping reservations, FOR UPDATE.                  *)
ReserveCheck(p) ==
  /\ slot[p].pc = "check" /\ MayUse(p, "seats")
  /\ Serve(p, [slot[p] EXCEPT !.pc = "user"])
  /\ Touch(p, "seats")
  /\ UNCHANGED <<accounts, tables, history>>

(* An unknown user answered without Rollback.                              *)
ReserveUserOpen(p) ==
  /\ slot[p].pc = "user"
  /\ Serve(p, IF Known(slot[p].who) THEN [slot[p] EXCEPT !.pc = "insert"] ELSE Idle)
  /\ UNCHANGED <<accounts, tables, holds, history>>

(* getUser, on another connection than the transaction's.                  *)
ReserveUser(p) ==
  /\ slot[p].pc = "user"
  /\ IF Known(slot[p].who)
       THEN Serve(p, [slot[p] EXCEPT !.pc = "insert"]) /\ UNCHANGED holds
       ELSE Answer(p)
  /\ UNCHANGED <<accounts, tables, history>>

InsertReservation(p) ==
  /\ slot[p].pc = "insert"
  /\ bookings' = bookings + 1
  /\ nextId' = nextId + 1
  /\ Serve(p, [pc |-> "insert seats", id |-> nextId, stray |-> FALSE,
               row |-> [user |-> slot[p].who.user_id, seats |-> slot[p].seats,
                        booking |-> bookings', made |-> slot[p].who]])
  /\ UNCHANGED <<accounts, reservations, seatRows, holds, epoch, wipes, inits>>

(* One INSERT per seat.  Without seats the table is not touched.           *)
InsertSeats(p) ==
  /\ slot[p].pc = "insert seats"
  /\ IF slot[p].row.seats = 0 THEN UNCHANGED holds
                              ELSE MayUse(p, "seats") /\ Touch(p, "seats")
  /\ Serve(p, [slot[p] EXCEPT !.pc = "commit", !.stray = Truncating("reservations")])
  /\ UNCHANGED <<accounts, tables, history>>

(* The reservation is committed without its seats.                         *)
CommitReserveBare(p) ==
  /\ slot[p].pc = "commit"
  /\ reservations' = [i \in DOMAIN reservations \cup {slot[p].id} |->
                        IF i = slot[p].id THEN slot[p].row ELSE reservations[i]]
  /\ Answer(p)
  /\ UNCHANGED <<accounts, nextId, seatRows, history>>

CommitReserve(p) ==
  /\ slot[p].pc = "commit"
  /\ LET id == slot[p].id
         row == slot[p].row
     IN  /\ reservations' = [i \in DOMAIN reservations \cup {id} |->
                               IF i = id THEN row ELSE reservations[i]]
         /\ seatRows' = seatRows \cup [id : {id}, seat : 1 .. row.seats,
                                        booking : {row.booking}, stray : {slot[p].stray}]
  /\ Answer(p)
  /\ UNCHANGED <<accounts, nextId, history>>

-----------------------------------------------------------------------------
(* The cancel handler.  Its SELECT is a plain one, its first DELETE needs a *)
(* stronger lock on the table: when a TRUNCATE has begun to wait for the   *)
(* transaction meanwhile, each waits for the other and the DELETE is the   *)
(* victim of the deadlock.                                                 *)

CancelUser(p, b, i) ==
  /\ slot[p] = Idle /\ Known(session[b])
  /\ Serve(p, [pc |-> "cancel find", who |-> session[b], id |-> i])
  /\ UNCHANGED <<accounts, tables, holds, history>>

Owned(i, who) == i \in DOMAIN reservations /\ reservations[i].user = who.user_id

CancelFind(p) ==
  /\ slot[p].pc = "cancel find" /\ MayUse(p, "reservations")
  /\ IF Owned(slot[p].id, slot[p].who)
       THEN Serve(p, [slot[p] EXCEPT !.pc = "cancel"]) /\ Touch(p, "reservations")
       ELSE Answer(p)
  /\ UNCHANGED <<accounts, tables, history>>

(* The payment service's answer does not parse: the handler returns with   *)
(* its transaction open.                                                   *)
CancelLeak(p) ==
  /\ slot[p].pc = "cancel"
  /\ Serve(p, Leaked)
  /\ UNCHANGED <<accounts, tables, holds, history>>

CancelRow(p) ==
  /\ slot[p].pc = "cancel"
  /\ IF Truncating("reservations") THEN Answer(p)
     ELSE Serve(p, [slot[p] EXCEPT !.pc = "cancel seats"]) /\ UNCHANGED holds
  /\ UNCHANGED <<accounts, tables, history>>

CancelSeats(p) ==
  /\ slot[p].pc = "cancel seats" /\ MayUse(p, "seats")
  /\ Serve(p, [slot[p] EXCEPT !.pc = "cancel commit"])
  /\ Touch(p, "seats")
  /\ UNCHANGED <<accounts, tables, history>>

(* The reservation goes, its seats stay.                                   *)
CancelCommitRowOnly(p) ==
  /\ slot[p].pc = "cancel commit"
  /\ reservations' = Restrict(reservations, DOMAIN reservations \ {slot[p].id})
  /\ Answer(p)
  /\ UNCHANGED <<accounts, nextId, seatRows, history>>

CancelCommit(p) ==
  /\ slot[p].pc = "cancel commit"
  /\ reservations' = Restrict(reservations, DOMAIN reservations \ {slot[p].id})
  /\ seatRows' = {row \in seatRows : row.id # slot[p].id}
  /\ Answer(p)
  /\ UNCHANGED <<accounts, nextId, history>>

-----------------------------------------------------------------------------
(* The views: list all reservations of the account, or show one.           *)

ViewUser(p, b, ask) ==
  /\ slot[p] = Idle /\ Known(session[b])
  /\ Cardinality({q \in Proc : slot[q].pc \in {"view find", "view", "panicked"}}) < MaxViews
  /\ Serve(p, [pc |-> "view find", who |-> session[b], ask |-> ask])
  /\ UNCHANGED <<accounts, tables, holds, history>>

RowsForAnyone(who, ask) == {i \in DOMAIN reservations : ask = 0 \/ ask = i}

RowsFor(who, ask) == {i \in DOMAIN reservations : Owned(i, who) /\ (ask = 0 \/ ask = i)}

(* ask = 0 lists; a reservation asked for by its id and not found is a 404. *)
ViewFind(p) ==
  /\ slot[p].pc = "view find" /\ ~Truncating("reservations")
  /\ LET found == RowsFor(slot[p].who, slot[p].ask)
     IN  IF found = {} /\ slot[p].ask # 0 THEN Serve(p, Idle)
         ELSE Serve(p, [pc |-> "view", who |-> slot[p].who,
                        left |-> [i \in found |-> reservations[i]], shown |-> {}, wipes |-> wipes])
  /\ UNCHANGED <<accounts, tables, holds, history>>

SeatsOfAll(i) == seatRows
SeatsOf(i) == {row \in seatRows : row.id = i}

(* makeReservationResponse for the next reservation, given the seat rows   *)
(* its statement returned; cut: the statement failed before the last one,  *)
(* which the code does not look at.  Seats[0] panics when there are none,  *)
(* and with it goes the whole answer.                                      *)
Respond(p, i, rows) ==
  /\ \A k \in DOMAIN slot[p].left : i <= k
  /\ IF rows = {} THEN Serve(p, [pc |-> "panicked", id |-> i, cut |-> rows # SeatsOf(i)])
     ELSE Serve(p, [slot[p] EXCEPT
                     !.left = Restrict(@, DOMAIN @ \ {i}),
                     !.shown = @ \cup {[row |-> slot[p].left[i], rows |-> rows, cut |-> rows # SeatsOf(i),
                                         wiped |-> wipes # slot[p].wipes]}])
  /\ UNCHANGED <<accounts, tables, holds, history>>

(* A statement of its own reads the seats by the reservation's id.         *)
ViewSeats(p) ==
  /\ slot[p].pc = "view" /\ ~Truncating("seats")
  /\ \E i \in DOMAIN slot[p].left : Respond(p, i, SeatsOf(i))

(* That statement fails, perhaps after some of its rows (while it waits    *)
(* for a TRUNCATE it has none); the error is dropped.                      *)
ViewSeatsFails(p) ==
  /\ slot[p].pc = "view"
  /\ \E i \in DOMAIN slot[p].left :
       \E rows \in IF Truncating("seats") THEN {{}} ELSE SUBSET SeatsOf(i) : Respond(p, i, rows)

ViewAnswer(p) ==
  /\ \/ slot[p].pc = "view" /\ DOMAIN slot[p].left = {}
     \/ slot[p].pc = "panicked"
  /\ Serve(p, Idle)
  /\ UNCHANGED <<accounts, tables, holds, history>>

-----------------------------------------------------------------------------
(* Any other statement fails, the section's seats are taken, the fare is   *)
(* not found, the payment cannot be canceled: Rollback and an error.  A    *)
(* COMMIT that fails rolls back too, although it is answered with success. *)
MayFail == {"check", "user", "insert", "insert seats", "commit", "cancel find", "cancel",
            "cancel seats", "cancel commit", "view find", "view"}
Fails(p) ==
  /\ slot[p].pc \in MayFail
  /\ Answer(p)
  /\ UNCHANGED <<accounts, tables, history>>

-----------------------------------------------------------------------------
(* The initialize handler: three TRUNCATEs, each its own transaction.      *)

InitBegin(p) ==
  /\ slot[p] = Idle /\ inits < MaxInits
  /\ inits' = inits + 1
  /\ Serve(p, [pc |-> InitPc["seats"]])
  /\ UNCHANGED <<accounts, tables, holds, bookings, epoch, wipes>>

TruncateSeats(p) ==
  /\ slot[p].pc = InitPc["seats"] /\ MayTruncate(p, "seats")
  /\ seatRows' = {}
  /\ Serve(p, [slot[p] EXCEPT !.pc = InitPc["reservations"]])
  /\ UNCHANGED <<accounts, reservations, nextId, holds, history>>

TruncateReservations(p) ==
  /\ slot[p].pc = InitPc["reservations"] /\ MayTruncate(p, "reservations")
  /\ reservations' = << >> /\ nextId' = 1 /\ wipes' = wipes + 1
  /\ Serve(p, [slot[p] EXCEPT !.pc = "truncate users"])
  /\ UNCHANGED <<accounts, seatRows, holds, bookings, epoch, inits>>

TruncateUsers(p) ==
  /\ slot[p].pc = "truncate users"
  /\ users' = << >> /\ nextUser' = 1 /\ epoch' = epoch + 1
  /\ Serve(p, Idle)
  /\ UNCHANGED <<session, tables, holds, bookings, wipes, inits>>

-----------------------------------------------------------------------------
Init ==
  /\ users = << >> /\ nextUser = 1 /\ session = [b \in Browser |-> LoggedOut]
  /\ reservations = << >> /\ nextId = 1 /\ seatRows = {}
  /\ slot = [p \in Proc |-> Idle] /\ holds = [p \in Proc |-> {}]
  /\ bookings = 0 /\ epoch = 0 /\ wipes = 0 /\ inits = 0

Request(p) ==
  \/ \E b \in Browser :
       \/ \E n \in SeatCounts : ReserveScan(p, b, n)
       \/ \E i \in AskedIds : CancelUser(p, b, i)
       \/ \E ask \in {0} \cup AskedIds : ViewUser(p, b, ask)
  \/ InitBegin(p)

(* What the goroutine of a request does once it has begun.                 *)
Handle(p) ==
  \/ ReserveCheck(p) \/ ReserveUser(p) \/ InsertReservation(p) \/ InsertSeats(p) \/ CommitReserve(p)
  \/ CancelFind(p) \/ CancelRow(p) \/ CancelSeats(p) \/ CancelCommit(p)
  \/ ViewFind(p) \/ ViewSeats(p) \/ ViewAnswer(p)
  \/ TruncateSeats(p) \/ TruncateReservations(p) \/ TruncateUsers(p)

Next ==
  \/ \E a \in Account : SignUp(a) \/ \E b \in Browser : Login(b, a)
  \/ \E b \in Browser : Logout(b)
  \/ \E p \in Proc : Request(p) \/ Handle(p) \/ ViewSeatsFails(p) \/ Fails(p) \/ CancelLeak(p)

(* Goroutines that can go on do so, and InnoDB grants the locks it can.    *)
Spec == Init /\ [][Next]_vars /\ \A p \in Proc : WF_vars(Handle(p))

-----------------------------------------------------------------------------
(* Properties.                                                             *)

(* Sessions name users, reservations and seat rows are those of bookings   *)
(* made, and only a slot inside a transaction holds a table.               *)
TypeOK ==
  /\ users \in [DOMAIN users -> Account] /\ DOMAIN users \subseteq 1 .. (nextUser - 1)
  /\ DOMAIN reservations \subseteq 1 .. (nextId - 1)
  /\ \A i \in DOMAIN reservations : reservations[i].booking \in 1 .. bookings
  /\ \A row \in seatRows : row.booking \in 1 .. bookings
  /\ \A p \in Proc : /\ holds[p] \subseteq {"reservations", "seats"}
                     /\ slot[p].pc \in {"idle", "view find", "view", "panicked", "cancel find"}
                          => holds[p] = {}

(* Until users is truncated again, a session the login handler opened      *)
(* stands for the account that logged in (later its user_id may have been  *)
(* given to somebody else, and the cookie lets its owner act for them).    *)
SessionsKeepTheirAccount ==
  \A b \in Browser : session[b].epoch = epoch /\ Known(session[b])
    => users[session[b].user_id] = session[b].account

(* A seat row belongs to the reservation with its id, except for bookings  *)
(* whose seats were inserted after one TRUNCATE of an initialize and before *)
(* the next: their rows outlive them, and wait for the id to be reused.    *)
SeatRowsBelong ==
  \A row \in seatRows :
    \/ row.id \in DOMAIN reservations /\ reservations[row.id].booking = row.booking
    \/ row.stray

(* What a view answers about a reservation is whole, although its row and  *)
(* its seats are read by separate statements: all of its seats and nobody  *)
(* else's but those stray rows.  Only when reservations was truncated      *)
(* between the two may the seats be those of the id's next booking, and    *)
(* only when the seats statement failed may some be missing.               *)
ViewsAreWhole ==
  \A p \in Proc : slot[p].pc = "view" => \A v \in slot[p].shown : ~v.wiped =>
    LET own == {row \in v.rows : row.booking = v.row.booking}
    IN  /\ \A row \in v.rows \ own : row.stray
        /\ own # {} /\ ~v.cut => Cardinality(own) = v.row.seats

(* A view shows whoever logged in the reservations they made themselves;   *)
(* others only when users was truncated between the two logins.            *)
ViewsShowOwnBookings ==
  \A p \in Proc : slot[p].pc = "view" => \A v \in slot[p].shown :
    v.row.made.epoch = slot[p].who.epoch => v.row.made.account = slot[p].who.account

(* A view panics only when its seats statement failed, or on a reservation *)
(* that has since been canceled or truncated away, whose seats have just   *)
(* been truncated, or that never had a seat: a request that raced neither  *)
(* a cancel nor an initialize panics for a database error alone.           *)
ViewPanics(p) == slot[p].pc = "view" /\ slot'[p].pc = "panicked"
Gone(i, row) ==
  \/ i \notin DOMAIN reservations
  \/ reservations[i].booking # row.booking
  \/ Truncating("reservations")
  \/ row.seats = 0
PanicsOnlyWhenGoneOrCut ==
  [][\A p \in Proc : ViewPanics(p) =>
       slot'[p].cut \/ Gone(slot'[p].id, slot[p].left[slot'[p].id])]_vars

(* Initialize ends, however many transactions it has to wait for and       *)
(* whatever waits for it meanwhile, unless some handler has returned with  *)
(* its transaction open: then it waits for ever, and every later statement *)
(* on the table queues behind it.  (The commit handler is not part of this *)
(* module: it keeps reservations from being truncated while its http.Post, *)
(* which has no timeout, waits for the payment service.)                   *)
Initializing == \E p \in Proc : slot[p].pc \in {InitPc[t] : t \in DOMAIN InitPc} \cup {"truncate users"}
InitializeEnds == Initializing ~> ~Initializing \/ \E p \in Proc : slot[p] = Leaked
=============================================================================
