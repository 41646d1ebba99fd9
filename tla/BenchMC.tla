------------------------------ MODULE BenchMC -------------------------------
(* Two trains.  The pretest, the background tester and the passengers use   *)
(* the first, whose cars have three and two seats: the tester fills the     *)
(* first car alone, or with the passengers, and the second is there for      *)
(* vague requests.  One of the passengers' journeys goes nowhere.  The vague *)
(* pretest uses the other train.                                             *)
EXTENDS BenchWorker

At(train, time, from, to) == [train |-> train, day |-> 0, time |-> time, from |-> from, to |-> to]

MCPretestTrip == At(1, 10, 1, 3)
MCVagueTrip == At(2, 6, 1, 3)
MCTesterTrip == At(1, 20, 2, 3)
MCTrip == {At(1, 9, 2, 4), At(1, 9, 3, 3)}
MCCarsOf == <<<<{1, 2, 3}, {4, 5}>>, <<{1, 2}>>>>
=============================================================================
