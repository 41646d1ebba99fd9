--------------------------- MODULE SeatBookingMC ----------------------------
(***************************************************************************)
(* Small instances of SeatBooking.  Two trains over stations 1..4, one     *)
(* each way; a car with seats 1 (column A) and 2 (column B) and a second   *)
(* car with seat 3 (column A).                                             *)
(***************************************************************************)
EXTENDS SeatBooking, TLC

MCTrainOf == [down |-> [up |-> FALSE, start |-> 1, last |-> 4],
              up   |-> [up |-> TRUE,  start |-> 4, last |-> 1]]
MCStation == 1 .. 4
MCSeat == 1 .. 3
MCCarSeats == <<{1, 2}, {3}>>
MCColumnOf == <<"A", "B", "A">>

Ask(train, from, to, mode, column, n, S) ==
  [train |-> train, from |-> from, to |-> to, mode |-> mode, column |-> column,
   n |-> n, seats |-> One(S)]

(* Overlapping and touching sections, both directions, both search modes.  *)
MCRequest ==
  { Ask("down", 1, 3, "seats", "any", 1, {1}),
    Ask("down", 2, 4, "seats", "any", 2, {1, 2}),
    Ask("down", 1, 2, "vague", "A", 1, {}),
    Ask("up",   4, 2, "vague", "any", 2, {}),
    Ask("up",   4, 2, "seats", "any", 1, {1}),
    Ask("down", 1, 4, "free", "any", 1, {}) }

(* Three slots: an explicit and a vague request for the same seat, and one  *)
(* for the seat next to it.                                                 *)
MCContended ==
  { Ask("down", 1, 3, "seats", "any", 1, {1}),
    Ask("down", 2, 4, "vague", "A", 1, {}) }

(* Requests whose stations are named against the direction of the train.   *)
MCBackwards ==
  { Ask("down", 1, 3, "seats", "any", 1, {1}),
    Ask("down", 3, 2, "seats", "any", 1, {1}) }

Symmetry == Permutations(Proc)
=============================================================================
