----------------------------- MODULE SeatLedger -----------------------------
(***************************************************************************)
(* What the booking API promises: a ledger of journeys, each holding seats *)
(* of one train.  A journey enters the ledger in one step, only when none  *)
(* of its seats is held on an overlapping section by a journey already     *)
(* there; it never changes while it is there, leaves as a whole, and its   *)
(* number is never given to another journey.                               *)
(***************************************************************************)
EXTENDS Sections

CONSTANTS TrainOf,      \* function: train name -> [up, start, last]
          Journey       \* set of [train, from, to, taken] a client may book

VARIABLES ledger,       \* function: reservation id -> Journey
          issued,       \* highest id given out so far
          pending       \* ids given out to bookings still undecided

ledgerVars == <<ledger, issued, pending>>

(* Journeys in the direction of their train that want one seat on one      *)
(* segment.  A journey against the direction has no section of its own.    *)
Clash(a, b) ==
  /\ a.train = b.train
  /\ Forward(TrainOf[a.train].up, a.from, a.to)
  /\ Forward(TrainOf[b.train].up, b.from, b.to)
  /\ Overlap(a.from, a.to, b.from, b.to)
  /\ a.taken \cap b.taken # {}

LedgerInit == /\ ledger = [i \in {} |-> {}]
              /\ issued = 0
              /\ pending = {}

(* A booking attempt gets the next number.                                 *)
Issue == /\ issued' = issued + 1
         /\ pending' = pending \cup {issued + 1}
         /\ UNCHANGED ledger

(* The attempt succeeds: the journey is in the ledger.                     *)
Book(i, j) ==
  /\ i \in pending
  /\ \A k \in DOMAIN ledger : ~Clash(j, ledger[k])
  /\ ledger' = [k \in DOMAIN ledger \cup {i} |-> IF k = i THEN j ELSE ledger[k]]
  /\ pending' = pending \ {i}
  /\ UNCHANGED issued

(* The attempt fails: its number is burnt.                                 *)
Burn(i) == /\ i \in pending
           /\ pending' = pending \ {i}
           /\ UNCHANGED <<ledger, issued>>

Release(i) ==
  /\ i \in DOMAIN ledger
  /\ ledger' = [k \in DOMAIN ledger \ {i} |-> ledger[k]]
  /\ UNCHANGED <<issued, pending>>

LedgerNext == \/ Issue
              \/ \E i \in pending : Burn(i) \/ \E j \in Journey : Book(i, j)
              \/ \E i \in DOMAIN ledger : Release(i)

LedgerSpec == LedgerInit /\ [][LedgerNext]_ledgerVars

=============================================================================
