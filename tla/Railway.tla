------------------------------ MODULE Railway -------------------------------
(***************************************************************************)
(* The line and its price list.  A station is its number along the line,   *)
(* from Tokyo (1) to Osaka (82): station_master.id in the web application, *)
(* sectionMap in the benchmark.  Distances are in millimetres, multipliers *)
(* in thousandths, days are counted from 1 January 2020.                   *)
(***************************************************************************)
EXTENDS Integers, Sequences

Position ==
  << 0, 12745608, 32107649, 45037138, 52773422, 60930427, 72915666, 80517696,
     96053004, 112665386, 119444708, 131462232, 149826976, 166909255, 182323457,
     188887999, 207599747, 217900353, 229697609, 244770170, 251948590, 269009280,
     275384825, 284952294, 291499545, 310086023, 325553902, 334561908, 343842013,
     355192588, 374584703, 381847874, 393244289, 411802367, 420375925, 428829478,
     445676144, 457246917, 474044387, 487270404, 504163580, 519612391, 531408202,
     548584849, 554215596, 572885503, 584344724, 603713433, 614711098, 633406177,
     640097895, 657573946, 677211495, 689581633, 696405431, 711087956, 728268005,
     735983348, 744581560, 751340202, 770125141, 788163214, 799939778, 807476895,
     819772794, 833349255, 839298450, 853080719, 863842723, 869266132, 878247393,
     893724394, 900098745, 909518544, 919249073, 938540025, 954151248, 966498192,
     975568259, 990339004, 1005597665, 1024983484 >>

LineStation == 1 .. 82

(* Where the fast ("express") and the middle ("semi_express") trains stop; *)
(* the slow ("local") ones stop everywhere.                                *)
FastStops == {1, 6, 27, 42, 65, 70, 74, 80, 82}
MiddleStops == {1, 2, 5, 6, 8, 9, 10, 17, 27, 36, 38, 39, 42, 51, 58, 61, 79, 80, 81, 82}
               \cup (29 .. 32) \cup (55 .. 56) \cup (64 .. 71) \cup (73 .. 74)

TrainClass == {"fast", "middle", "slow"}
SeatClass == {"premium", "reserved", "non-reserved"}

Stops(class) == CASE class = "fast" -> FastStops
                  [] class = "middle" -> MiddleStops
                  [] class = "slow" -> LineStation

(* The seat class of each of a train's 16 cars.                            *)
CarClass(class, car) ==
  CASE car \in 8 .. 10 -> "premium"
    [] class = "slow" -> IF car = 16 THEN "reserved" ELSE "non-reserved"
    [] OTHER -> IF car <= (IF class = "fast" THEN 3 ELSE 5) THEN "non-reserved" ELSE "reserved"

(* distance_fare_master: the fare of each step, by the step's distance.    *)
Km(n) == n * 1000000
FareSteps ==
  << [distance |-> Km(0), fare |-> 2500],    [distance |-> Km(50), fare |-> 3000],
     [distance |-> Km(75), fare |-> 3700],   [distance |-> Km(100), fare |-> 4500],
     [distance |-> Km(150), fare |-> 5200],  [distance |-> Km(200), fare |-> 6000],
     [distance |-> Km(300), fare |-> 7200],  [distance |-> Km(400), fare |-> 8300],
     [distance |-> Km(500), fare |-> 12000], [distance |-> Km(1000), fare |-> 20000] >>

(* The seasons: first day and multiplier.  fare_master holds the product   *)
(* of season and class for each of them.                                   *)
SeasonStart == <<0, 5, 72, 91, 114, 131, 219, 236, 359>>
SeasonFactor == <<5, 1, 3, 1, 5, 1, 3, 1, 5>>

ClassFactor(class, seatClass) ==
  CASE class = "fast" /\ seatClass = "premium" -> 3000
    [] class = "fast" /\ seatClass = "reserved" -> 1875
    [] class = "fast" /\ seatClass = "non-reserved" -> 1500
    [] class = "middle" /\ seatClass = "premium" -> 2000
    [] class = "middle" /\ seatClass = "reserved" -> 1250
    [] class = "middle" /\ seatClass = "non-reserved" -> 1000
    [] class = "slow" /\ seatClass = "premium" -> 1600
    [] class = "slow" /\ seatClass = "reserved" -> 1000
    [] class = "slow" /\ seatClass = "non-reserved" -> 800
=============================================================================
