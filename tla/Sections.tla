------------------------------ MODULE Sections ------------------------------
(***************************************************************************)
(* Station arithmetic of the reservation handler.  A station is its id in  *)
(* station_master (ids grow from Tokyo to Osaka); a train is a record      *)
(* [up, start, last]: is_nobori and the ids of its terminals.  An "up"     *)
(* (nobori) train runs towards smaller ids.                                *)
(***************************************************************************)
EXTENDS Integers

(* The check that a request stays on the part of the line the train serves *)
(* ("運行していない区間を予約していないかチェックする").  It bounds both   *)
(* stations by the terminals but never compares them with each other.      *)
AcceptsSection(train, from, to) ==
  IF train.up
    THEN /\ from <= train.start /\ to <= train.start
         /\ train.last < from   /\ train.last <= to
    ELSE /\ from >= train.start /\ to >= train.start
         /\ train.last > from   /\ train.last >= to

SectionDupSwapped(up, from, to, rfrom, rto) ==
  IF up
    THEN /\ ~(to < rto /\ from <= rfrom)
         /\ ~(to >= rto /\ from > rfrom)
    ELSE /\ ~(from < rfrom /\ to <= rto)
         /\ ~(from >= rfrom /\ to > rto)

(* secdup: may the requested section share a segment with the reserved one? *)
(* The handler lets a seat through only in the two "pass" branches.         *)
SectionDup(up, from, to, rfrom, rto) ==
  IF up
    THEN /\ ~(to < rto /\ from <= rto)
         /\ ~(to >= rfrom /\ from > rfrom)
    ELSE /\ ~(from < rfrom /\ to <= rfrom)
         /\ ~(from >= rto /\ to > rto)

-----------------------------------------------------------------------------
(* What the arithmetic is about.                                           *)

(* A journey in the direction the train runs.                              *)
Forward(up, from, to) == IF up THEN to < from ELSE from < to

(* The segments a journey uses; segment s lies between stations s and s+1.  *)
Segments(from, to) == (from .. (to - 1)) \cup (to .. (from - 1))

(* Two journeys on one train are in each other's way on some segment.      *)
Overlap(from, to, rfrom, rto) == Segments(from, to) \cap Segments(rfrom, rto) # {}

=============================================================================
