----------------------------- MODULE VagueSeats -----------------------------
(***************************************************************************)
(* The choice of seats inside one car by the vague search of the           *)
(* reservation handler.  Seats of the requested class are numbered in the  *)
(* order the handler reads them (ORDER BY seat_row, seat_column).          *)
(***************************************************************************)
EXTENDS Integers, FiniteSets

CONSTANTS ColumnOf,     \* function: seat -> its column letter
          AnyColumn     \* the request leaves the column open ("column": "")

(* The first k seats of S in reading order.                                *)
FirstSeats(k, S) == {s \in S : Cardinality({t \in S : t < s}) < k}

PickAnySeats(free, k, column) == FirstSeats(k, free)

(* The first free seat in the wanted column is set apart (VagueSeat); the  *)
(* other k-1 passengers get the first remaining free seats (CandidateSeats).*)
(* Without a wanted column all k are candidates.                           *)
PickSeats(free, k, column) ==
  IF column = AnyColumn THEN FirstSeats(k, free)
  ELSE LET wanted == FirstSeats(1, {s \in free : ColumnOf[s] = column})
       IN  wanted \cup FirstSeats(k - 1, free \ wanted)

(* len(req.Seats) >= Adult+Child, and not the empty list answered by 404.  *)
CarSuffices(free, k, column) ==
  k > 0 /\ Cardinality(PickSeats(free, k, column)) >= k

=============================================================================
