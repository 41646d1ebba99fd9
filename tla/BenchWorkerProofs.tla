------------------------- MODULE BenchWorkerProofs --------------------------
(***************************************************************************)
(* Proofs about the worker, for any queue of jobs, any number of attempts  *)
(* to report and any scenarios of the benchmark it runs.                   *)
(***************************************************************************)
EXTENDS BenchWorker, BenchmarkProofs

-----------------------------------------------------------------------------
(* The inductive invariant.                                                *)

Outcome == {"none", "aborted", "pass", "fail"}

(* The process that is over has a verdict.                                 *)
HasVerdict == phase = "over" => verdict \in {"pass", "fail", "crash"}

(* A job is in the queue, in hand, being reported, or answered.            *)
InHand(j) == worker \in {"executing", "apologizing"} /\ job = j
Reporting(j) == \E r \in reports : r.job = j

WorkerTyped ==
  /\ told \in [Job -> Outcome] /\ outcome \in [Job -> Outcome]
  /\ queue \subseteq Job
  /\ \A r \in reports : r.job \in Job \ queue /\ r.result # "none" /\ r.result = outcome[r.job]

(* What is executed has neither a result nor a report yet.                 *)
Fresh(j) == told[j] = "none" /\ outcome[j] = "none" /\ \A r \in reports : r.job # j

WorkerIInv ==
  /\ HasVerdict
  /\ WorkerTyped
  /\ worker = "executing" => job \in Job \ queue /\ Fresh(job)
  /\ \A j \in queue : Fresh(j)
  /\ \A j \in Job : told[j] # "none" => told[j] = outcome[j]
  /\ \A j \in Job \ queue : Answered(j) \/ Reporting(j) \/ (worker = "executing" /\ job = j)
  /\ worker = "exited" => reports = {}

-----------------------------------------------------------------------------
(* Only a goroutine that ends the process gives the verdict.               *)
LEMMA VerdictKept ==
  ASSUME HasVerdict, BenchNext  PROVE HasVerdict'
<1>1. ASSUME NEW from, NEW to, to # "over", Stage(from, to)  PROVE HasVerdict'
  BY <1>1 DEF HasVerdict, Stage, Ends
<1>2. CASE Main
  <2>1. CASE Prepares
    BY <1>1, <2>1 DEF Prepares, InitializePayment, InitializeApplication, PretestReads,
       PretestRefusals, NewTester
  <2>2. CASE PretestGoesOn
    BY <2>2 DEF PretestGoesOn, HasVerdict, Ends
  <2>3. CASE TimeIsUp \/ LoadEnds
    BY <2>3 DEF TimeIsUp, LoadEnds, HasVerdict, Ends
  <2>4. CASE FinalChecks
    BY <2>4 DEF FinalChecks, HasVerdict, Ends
  <2> QED BY <1>2, <2>1, <2>2, <2>3, <2>4 DEF Main
<1>3. CASE Tester
  <2>1. UNCHANGED <<phase, verdict>>
    BY <1>3 DEF Tester, TesterStarts, TesterLooks, TesterMaps, TesterReserves, TesterLosesAnswer
  <2> QED BY <2>1 DEF HasVerdict
<1>4. ASSUME NEW g \in Goroutine, Passenger(g)  PROVE HasVerdict'
  <2>1. CASE AsksForWrongSeat(g)
    BY <2>1 DEF AsksForWrongSeat, HasVerdict
  <2>2. CASE ~AsksForWrongSeat(g)
    <3>1. UNCHANGED <<phase, verdict>>
      BY <1>4, <2>2 DEF Passenger, Asks, AsksRegardless, Maps, Reserves, HearsReserve, Adds, AssertsReserve, Commits,
         HearsCommit, Cancels, HearsCancel, NothingToCancel, Counts, LosesAnswer
    <3> QED BY <3>1 DEF HasVerdict
  <2> QED BY <2>1, <2>2
<1>5. CASE StartScenario
  BY <1>5 DEF StartScenario, HasVerdict
<1> QED BY <1>2, <1>3, <1>4, <1>5 DEF BenchNext

LEMMA TakesJobInv == ASSUME WorkerIInv, TakesJob  PROVE WorkerIInv'
<1>1. PICK j \in queue :
        /\ queue' = queue \ {j} /\ job' = j
        /\ \/ worker' = "executing" /\ phase' = "payment" /\ UNCHANGED <<alerted, reports, outcome>>
           \/ /\ worker' = "apologizing" /\ alerted' = alerted \cup {j}
              /\ reports' = reports \cup {[job |-> j, result |-> "aborted", tries |-> Retries]}
              /\ outcome' = [outcome EXCEPT ![j] = "aborted"]
              /\ UNCHANGED phase
  BY DEF TakesJob
<1>2. told' = told /\ verdict' = verdict /\ worker = "waiting"
  BY DEF TakesJob
<1>3. Fresh(j) /\ j \in Job /\ outcome \in [Job -> Outcome] /\ told \in [Job -> Outcome]
  BY <1>1 DEF WorkerIInv, WorkerTyped
<1>4. CASE worker' = "executing" /\ phase' = "payment" /\ UNCHANGED <<alerted, reports, outcome>>
  BY <1>1, <1>2, <1>3, <1>4 DEF WorkerIInv, WorkerTyped, HasVerdict, Fresh, Answered, Reporting
<1>5. CASE /\ worker' = "apologizing" /\ alerted' = alerted \cup {j}
           /\ reports' = reports \cup {[job |-> j, result |-> "aborted", tries |-> Retries]}
           /\ outcome' = [outcome EXCEPT ![j] = "aborted"]
           /\ UNCHANGED phase
  <2>1. /\ outcome' \in [Job -> Outcome] /\ outcome'[j] = "aborted"
        /\ \A k \in Job \ {j} : outcome'[k] = outcome[k]
    BY <1>3, <1>5 DEF Outcome
  <2>2. \A r \in reports' : (r \in reports /\ r.job # j) \/ (r.job = j /\ r.result = "aborted")
    BY <1>3, <1>5 DEF Fresh
  <2>3. WorkerTyped'
    BY <1>1, <1>2, <1>3, <2>1, <2>2 DEF WorkerIInv, WorkerTyped
  <2>4. \A k \in queue' : Fresh(k)'
    BY <1>1, <1>2, <1>3, <2>1, <2>2 DEF WorkerIInv, WorkerTyped, Fresh
  <2>5. \A k \in Job \ queue' : Answered(k)' \/ Reporting(k)'
    BY <1>1, <1>2, <1>5 DEF WorkerIInv, Answered, Reporting
  <2>6. \A k \in Job : told'[k] # "none" => told'[k] = outcome'[k]
    BY <1>2, <1>3, <2>1 DEF WorkerIInv, Fresh
  <2>7. HasVerdict'
    BY <1>2, <1>5 DEF WorkerIInv, HasVerdict
  <2> QED BY <1>5, <2>3, <2>4, <2>5, <2>6, <2>7 DEF WorkerIInv
<1> QED BY <1>1, <1>4, <1>5

LEMMA BenchIsOverInv == ASSUME WorkerIInv, BenchIsOver  PROVE WorkerIInv'
<1> DEFINE result == IF verdict = "crash" THEN "aborted" ELSE verdict
           r == [job |-> job, result |-> result, tries |-> Retries]
<1>1. /\ worker = "executing" /\ phase = "over" /\ worker' = "waiting" /\ phase' = "off"
      /\ reports' = reports \cup {r}
      /\ outcome' = [outcome EXCEPT ![job] = result]
      /\ alerted \subseteq alerted' /\ UNCHANGED <<queue, told>>
  BY DEF BenchIsOver
<1>2. result # "none" /\ result \in Outcome
  BY <1>1 DEF WorkerIInv, HasVerdict, Outcome
<1>3. job \in Job \ queue /\ Fresh(job) /\ outcome \in [Job -> Outcome]
  BY <1>1 DEF WorkerIInv, WorkerTyped
<1>4. r.job = job /\ r.result = result
  OBVIOUS
<1> HIDE DEF result, r
<1>5. /\ outcome' \in [Job -> Outcome] /\ outcome'[job] = result
      /\ \A k \in Job \ {job} : outcome'[k] = outcome[k]
  BY <1>1, <1>2, <1>3
<1>6. \A x \in reports' : (x \in reports /\ x.job # job) \/ x = r
  BY <1>1, <1>3 DEF Fresh
<1>7. WorkerTyped'
  BY <1>1, <1>2, <1>3, <1>4, <1>5, <1>6 DEF WorkerIInv, WorkerTyped
<1>8. \A k \in queue' : Fresh(k)'
  BY <1>1, <1>3, <1>4, <1>5, <1>6 DEF WorkerIInv, WorkerTyped, Fresh
<1>9. \A k \in Job \ queue' : Answered(k)' \/ Reporting(k)'
  BY <1>1, <1>4 DEF WorkerIInv, Answered, Reporting
<1>10. \A k \in Job : told'[k] # "none" => told'[k] = outcome'[k]
  BY <1>1, <1>3, <1>5 DEF WorkerIInv, Fresh
<1>11. HasVerdict'
  BY <1>1 DEF HasVerdict
<1> QED BY <1>1, <1>7, <1>8, <1>9, <1>10, <1>11 DEF WorkerIInv

LEMMA ReportsInv == ASSUME WorkerIInv, NEW r \in reports, Reports(r)  PROVE WorkerIInv'
<1>1. PICK stored \in BOOLEAN, heard \in BOOLEAN :
        /\ heard => stored
        /\ told' = IF stored THEN [told EXCEPT ![r.job] = r.result] ELSE told
        /\ reports' = (reports \ {r}) \cup
                        (IF heard \/ r.tries = 1 THEN {} ELSE {[r EXCEPT !.tries = @ - 1]})
        /\ alerted' = IF ~heard /\ r.tries = 1 THEN alerted \cup {r.job} ELSE alerted
  BY DEF Reports
<1>2. UNCHANGED <<benchVars, worker, job, queue, outcome>>
  BY DEF Reports
<1>3. r.job \in Job \ queue /\ r.result # "none" /\ r.result = outcome[r.job]
  BY DEF WorkerIInv, WorkerTyped
<1>4. told \in [Job -> Outcome] /\ outcome \in [Job -> Outcome]
  BY DEF WorkerIInv, WorkerTyped
<1>5. /\ told' \in [Job -> Outcome] /\ (stored => told'[r.job] = r.result)
      /\ \A k \in Job \ {r.job} : told'[k] = told[k]
      /\ told'[r.job] \in {told[r.job], r.result}
  BY <1>1, <1>3, <1>4
<1> DEFINE again == [r EXCEPT !.tries = @ - 1]
<1>6. again.job = r.job /\ again.result = r.result
  OBVIOUS
<1>7. \A x \in reports' : x \in reports \/ x = again
  BY <1>1
<1>8. heard \/ r.tries = 1 \/ again \in reports'
  BY <1>1
<1>9. \A x \in reports : x # r => x \in reports'
  BY <1>1
<1> HIDE DEF again
<1>10. phase' = phase /\ verdict' = verdict
  BY <1>2 DEF benchVars
<1>11. WorkerTyped'
  BY <1>2, <1>3, <1>5, <1>6, <1>7 DEF WorkerIInv, WorkerTyped
<1>12. \A k \in Job : k # r.job /\ Fresh(k) => Fresh(k)'
  BY <1>2, <1>5, <1>6, <1>7 DEF Fresh
<1>13. worker = "executing" => job # r.job
  BY DEF WorkerIInv, Fresh
<1>14. /\ \A k \in queue' : Fresh(k)'
       /\ worker' = "executing" => job' \in Job \ queue' /\ Fresh(job)'
  BY <1>2, <1>3, <1>12, <1>13 DEF WorkerIInv, WorkerTyped, Fresh
<1>15. \A k \in Job : Answered(k) => Answered(k)'
  BY <1>1, <1>3, <1>5 DEF Answered
<1>16. Answered(r.job)' \/ Reporting(r.job)'
  BY <1>1, <1>3, <1>5, <1>6, <1>8 DEF Answered, Reporting
<1>17. \A k \in Job \ queue' : Answered(k)' \/ Reporting(k)' \/ (worker' = "executing" /\ job' = k)
  BY <1>2, <1>9, <1>15, <1>16 DEF WorkerIInv, Reporting
<1>18. \A k \in Job : told'[k] # "none" => told'[k] = outcome'[k]
  BY <1>2, <1>3, <1>5 DEF WorkerIInv
<1>19. worker # "exited"
  BY DEF WorkerIInv
<1> QED BY <1>2, <1>10, <1>11, <1>14, <1>17, <1>18, <1>19 DEF WorkerIInv, HasVerdict

(* A step that takes no job, ends none and reports none.                   *)
LEMMA OtherStep ==
  ASSUME WorkerIInv, HasVerdict', UNCHANGED <<queue, reports, told, alerted, outcome>>,
         worker' = "executing" => worker = "executing" /\ job' = job,
         worker = "executing" => worker' = "executing",
         worker' = "exited" => reports = {}
  PROVE  WorkerIInv'
<1>1. WorkerTyped'
  BY DEF WorkerIInv, WorkerTyped
<1>2. \A k : Fresh(k)' <=> Fresh(k)
  BY DEF Fresh
<1>3. \A k : (Answered(k)' <=> Answered(k)) /\ (Reporting(k)' <=> Reporting(k))
  BY DEF Answered, Reporting
<1> QED BY <1>1, <1>2, <1>3 DEF WorkerIInv, Fresh

LEMMA WorkerNextInv == ASSUME WorkerIInv, [WorkerNext]_<<benchVars, workerVars>>  PROVE WorkerIInv'
<1>1. HasVerdict
  BY DEF WorkerIInv
<1>2. CASE UNCHANGED <<benchVars, workerVars>>
  <2>1. UNCHANGED <<worker, job, queue, reports, told, alerted, outcome>> /\ HasVerdict'
    BY <1>1, <1>2 DEF workerVars, benchVars, HasVerdict
  <2> QED BY <2>1, OtherStep DEF WorkerIInv
<1>3. CASE BenchNext /\ UNCHANGED workerVars
  <2>1. UNCHANGED <<worker, job, queue, reports, told, alerted, outcome>> /\ HasVerdict'
    BY <1>1, <1>3, VerdictKept DEF workerVars
  <2> QED BY <2>1, OtherStep DEF WorkerIInv
<1>4. CASE Apologized \/ Signal \/ BreaksLoop \/ Exits
  <2>1. UNCHANGED benchVars /\ UNCHANGED <<queue, reports, told, alerted, outcome>>
    BY <1>4 DEF Apologized, Signal, BreaksLoop, Exits
  <2>2. HasVerdict'
    BY <1>1, <2>1 DEF benchVars, HasVerdict
  <2>3. /\ worker' = "executing" => worker = "executing" /\ job' = job
        /\ worker = "executing" => worker' = "executing"
        /\ worker' = "exited" => reports = {}
    BY <1>4 DEF Apologized, Signal, BreaksLoop, Exits
  <2> QED BY <2>1, <2>2, <2>3, OtherStep
<1> QED BY <1>2, <1>3, <1>4, TakesJobInv, BenchIsOverInv, ReportsInv DEF WorkerNext

LEMMA WorkerInitInv == WorkerInit => WorkerIInv
<1> SUFFICES ASSUME WorkerInit  PROVE WorkerIInv
  OBVIOUS
<1>1. phase = "off" /\ worker = "waiting" /\ queue = Job /\ reports = {}
  BY DEF WorkerInit, BenchInit
<1>2. /\ told \in [Job -> Outcome] /\ outcome \in [Job -> Outcome]
      /\ \A j \in Job : told[j] = "none" /\ outcome[j] = "none"
  BY DEF WorkerInit, Outcome
<1> QED BY <1>1, <1>2 DEF WorkerIInv, HasVerdict, WorkerTyped, Fresh

(* The portal stores only what a job's own run ended with, and when the    *)
(* worker process exits no job it took is left without a result or an      *)
(* alert, however many jobs there were and however its reports failed.     *)
THEOREM NothingIsLeft == WorkerSpec => []ExitLeavesNothing
<1>1. WorkerIInv /\ [WorkerNext]_<<benchVars, workerVars>> => WorkerIInv'
  BY WorkerNextInv
<1>2. WorkerIInv => ExitLeavesNothing
  BY DEF WorkerIInv, ExitLeavesNothing, Reporting
<1> QED BY <1>1, <1>2, WorkerInitInv, PTL DEF WorkerSpec

-----------------------------------------------------------------------------
(* The benchmark as the worker runs it.                                    *)

(* Nothing of a benchmark goes on when no job is executed.                 *)
BenchIdle == worker # "executing" => phase = "off"
Explained == Marked /\ SoldForCauses /\ PretestTrainWasFull /\ TesterWasNotAlone
RunIInv == BenchIInv /\ Sold /\ Watched /\ VerdictsMatchTheBooks /\ Explained /\ BenchIdle

LEMMA OffIsOff == ASSUME BenchNext, phase = "off"  PROVE FALSE
<1>1. ~ Main
  BY DEF Main, Prepares, InitializePayment, InitializeApplication, PretestReads, PretestRefusals, NewTester,
         Stage, PretestGoesOn, TimeIsUp, LoadEnds, FinalChecks
<1>2. ~ Tester
  BY TesterPhase
<1>3. \A g : ~ Passenger(g)
  BY PassengerPhase DEF Awake
<1>4. ~ StartScenario
  BY DEF StartScenario
<1> QED BY <1>1, <1>2, <1>3, <1>4 DEF BenchNext

(* A process that is gone leaves the worker as it was before it.           *)
LEMMA StartsWell == ASSUME BenchInit  PROVE BenchIInv /\ Sold /\ Watched /\ VerdictsMatchTheBooks /\ Explained
<1>1. errs.final = "none" /\ errs.msgs = {} /\ verdict = "none"
  BY DEF BenchInit
<1>2. VerdictsMatchTheBooks
  BY <1>1 DEF VerdictsMatchTheBooks
<1>3. SoldForCauses
  BY <1>1 DEF SoldForCauses, TakenSeatHadBeenCanceled, TooFewWereAskedFor, RacersAskedVaguely, UnshownForGood,
              StillForGood
<1>4. PretestTrainWasFull /\ TesterWasNotAlone
  BY <1>1 DEF PretestTrainWasFull, TesterWasNotAlone
<1> QED BY <1>2, <1>3, <1>4, BenchInitInv, InitSold, InitWatched, InitMarked DEF Explained

LEMMA ResetInv == (BenchInit => BenchIInv /\ Sold /\ Watched /\ VerdictsMatchTheBooks /\ Explained)'
<1>1. BenchInit => BenchIInv /\ Sold /\ Watched /\ VerdictsMatchTheBooks /\ Explained
  BY StartsWell
<1> QED BY <1>1, PTL

LEMMA ExplainedNext ==
  ASSUME BenchIInv, Sold, Watched, Explained, BenchNext \/ UNCHANGED benchVars
  PROVE  Explained'
BY BenchNextMarked, CausesNext, PanicNext, NotAloneNext DEF Explained

(* The process is started, and knows nothing yet.                          *)
LEMMA SoldSameAll == ASSUME Sold, UNCHANGED <<cache, booked, slot>>  PROVE Sold'
BY DEF Sold, Owned

LEMMA WatchedInPayment ==
  ASSUME Watched, phase = "off", phase' \in {"off", "payment"}, UNCHANGED <<errs, booked, slot>>
  PROVE  Watched'
BY DEF Watched, Pretested, EarlyPhase, PretestPhase

LEMMA ExplainedSame ==
  ASSUME Explained, UNCHANGED <<errs, cache, booked, slot, hurt, verdict>>  PROVE Explained'
<1>1. Marked'
  BY DEF Explained, Marked
<1>2. SoldForCauses'
  BY DEF Explained, SoldForCauses, TakenSeatHadBeenCanceled, TooFewWereAskedFor, RacersAskedVaguely,
         UnshownForGood, StillForGood, Owned
<1>3. PretestTrainWasFull' /\ TesterWasNotAlone'
  BY DEF Explained, PretestTrainWasFull, TesterWasNotAlone, TesterRival
<1> QED BY <1>1, <1>2, <1>3 DEF Explained

LEMMA RunStarts ==
  ASSUME RunIInv, TakesJob  PROVE RunIInv'
<1>1. /\ UNCHANGED <<deadline, errs, cache, booked, slot, busy, hurt, verdict>> /\ phase = "off"
      /\ \/ worker' = "executing" /\ phase' = "payment"
         \/ worker' = "apologizing" /\ phase' = phase
  BY DEF TakesJob, RunIInv, BenchIdle
<1>2. Owners' /\ Books'
  BY <1>1, OwnersSame, BooksSame DEF RunIInv, BenchIInv
<1>3. Stages'
  BY <1>1 DEF RunIInv, BenchIInv, Stages
<1>4. VerdictsMatchTheBooks'
  BY <1>1 DEF RunIInv, VerdictsMatchTheBooks
<1>5. BenchIdle'
  BY <1>1 DEF BenchIdle
<1>6. Sold' /\ Watched' /\ Explained'
  BY <1>1, SoldSameAll, WatchedInPayment, ExplainedSame DEF RunIInv
<1> QED BY <1>2, <1>3, <1>4, <1>5, <1>6 DEF RunIInv, BenchIInv

LEMMA RunIsOver ==
  ASSUME RunIInv, BenchIsOver  PROVE RunIInv'
<1>1. BenchInit'
  BY DEF BenchIsOver, BenchInit
<1>2. BenchIInv' /\ Sold' /\ Watched' /\ VerdictsMatchTheBooks' /\ Explained'
  BY <1>1, ResetInv
<1>3. BenchIdle'
  BY DEF BenchIsOver, BenchIdle
<1> QED BY <1>2, <1>3 DEF RunIInv

LEMMA RunGoesOn ==
  ASSUME BenchIInv, Sold, Watched, VerdictsMatchTheBooks, Explained, BenchNext \/ UNCHANGED benchVars
  PROVE  BenchIInv' /\ Sold' /\ Watched' /\ VerdictsMatchTheBooks' /\ Explained'
<1>1. BenchIInv'
  BY BenchNextInv
<1>2. Sold'
  BY BenchNextSold
<1> QED BY <1>1, <1>2, VerdictsKept, WatchedNext, ExplainedNext

LEMMA RunNextInv == ASSUME RunIInv, [WorkerNext]_<<benchVars, workerVars>>  PROVE RunIInv'
<1>1. CASE BenchNext /\ UNCHANGED workerVars
  <2>1. worker = "executing" /\ worker' = worker
    BY <1>1, OffIsOff DEF RunIInv, BenchIdle, workerVars
  <2> QED BY <1>1, <2>1, RunGoesOn DEF RunIInv, BenchIdle
<1>2. CASE UNCHANGED benchVars /\ (worker' = worker \/ worker \in {"waiting", "apologizing", "closing"})
  <2>1. BenchIdle'
    BY <1>2 DEF RunIInv, BenchIdle, benchVars
  <2> QED BY <1>2, <2>1, RunGoesOn DEF RunIInv
<1>3. CASE UNCHANGED <<benchVars, workerVars>>
  BY <1>2, <1>3 DEF workerVars
<1>4. CASE Apologized \/ Signal \/ BreaksLoop \/ Exits
  BY <1>2, <1>4 DEF Apologized, Signal, BreaksLoop, Exits
<1>5. CASE \E r \in reports : Reports(r)
  BY <1>2, <1>5 DEF Reports
<1> QED BY <1>1, <1>3, <1>4, <1>5, RunStarts, RunIsOver DEF WorkerNext

LEMMA RunInitInv == WorkerInit => RunIInv
<1> SUFFICES ASSUME WorkerInit  PROVE RunIInv
  OBVIOUS
<1>1. BenchInit
  BY DEF WorkerInit
<1>2. phase = "off"
  BY <1>1 DEF BenchInit
<1> QED BY <1>1, <1>2, StartsWell DEF RunIInv, BenchIdle

LEMMA RunInvariance == WorkerSpec => []RunIInv
<1>1. RunIInv /\ [WorkerNext]_<<benchVars, workerVars>> => RunIInv'
  BY RunNextInv
<1> QED BY <1>1, RunInitInv, PTL DEF WorkerSpec

(* The benchmark's variables have their types, its cache knows no          *)
(* reservation the application did not make and none is committed and      *)
(* canceled at once, and the process ends with a verdict, whatever the     *)
(* scenarios, their number and the answers that are lost.                  *)
THEOREM BenchIsTyped == WorkerSpec => []BenchTypeOK
<1>1. RunIInv => BenchTypeOK
  BY BenchTypes DEF RunIInv
<1> QED BY <1>1, RunInvariance, PTL

(* The final check blames a good application only for a cancel that was    *)
(* served and never reached the cache, and a run passes only when cache    *)
(* and payment service agree about every reservation (core_finalcheck.go). *)
THEOREM VerdictsCanBeTrusted == WorkerSpec => []VerdictsMatchTheBooks
<1>1. RunIInv => VerdictsMatchTheBooks
  BY DEF RunIInv
<1> QED BY <1>1, RunInvariance, PTL

(* What the benchmark calls a critical error is a seat whose earlier       *)
(* holder canceled, a single seat asked for, racers that asked vaguely, a  *)
(* sign read beside other passengers, a reservation not shown, or whose    *)
(* card was refused, that is there, or one still shown that is canceled,   *)
(* and the pretest panics only over a full train: whatever the scenarios,  *)
(* the trains, the load and the answers that are lost (bench.go,           *)
(* bencherrors.go).                                                        *)
THEOREM CriticalErrorsHaveCauses == WorkerSpec => []CriticalErrorsAreExplained
<1>1. RunIInv => CriticalErrorsAreExplained
  BY DEF RunIInv, Explained, SoldForCauses, CriticalErrorsAreExplained, UnshownForGood, UnshownIsHeld,
         StillForGood, StillShownIsGone
<1> QED BY <1>1, RunInvariance, PTL

(* The application of the runs is a good one, so what it is blamed for is  *)
(* the benchmark's own doing: it never gives a seat to two passengers on a *)
(* common section of one train, nor more seats than were asked for         *)
(* (what SeatBooking shows of trainReservationHandler in main.go).         *)
THEOREM ApplicationIsHonest == WorkerSpec => [](SoldOnce(booked) /\ FewSold(booked))
<1>1. RunIInv => SoldOnce(booked) /\ FewSold(booked)
  BY DEF RunIInv, Sold
<1> QED BY <1>1, RunInvariance, PTL
=============================================================================
