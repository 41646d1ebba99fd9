---------------------------- MODULE BenchWorker -----------------------------
(***************************************************************************)
(* The worker takes a job from the portal, runs the benchmark as a process *)
(* of its own and waits for it, then reports the result in the background  *)
(* while it goes on to the next job.  A signal stops it between two jobs.  *)
(***************************************************************************)
EXTENDS Benchmark

CONSTANTS Job,          \* jobs of the portal's queue
          Retries       \* attempts to report, the first included

VARIABLES worker,       \* "waiting", "executing", "apologizing", "closing", "exited"
          job,          \* the job it works on
          signal,       \* a signal waits in sigCh
          queue,        \* the portal's jobs not given out yet
          reports,      \* results being reported: [job, result, tries]
          told,         \* function: Job -> the result the portal has stored
          alerted,      \* jobs somebody was alerted about
          outcome       \* history: function: Job -> what its own run ended with

workerVars == <<worker, job, signal, queue, reports, told, alerted, outcome>>

NoJob == "no job"

WorkerInit ==
  /\ BenchInit
  /\ worker = "waiting" /\ job = NoJob /\ signal = FALSE /\ queue = Job
  /\ reports = {} /\ alerted = {}
  /\ told = [j \in Job |-> "none"] /\ outcome = [j \in Job |-> "none"]

(* dequeue; getTargetServer finds the team's target among its servers or   *)
(* alerts.                                                                 *)
TakesJob ==
  /\ worker = "waiting"
  /\ \E j \in queue :
       /\ queue' = queue \ {j} /\ job' = j
       /\ \/ worker' = "executing" /\ phase' = "payment" /\ UNCHANGED <<alerted, reports, outcome>>
          \/ /\ worker' = "apologizing" /\ alerted' = alerted \cup {j}
             /\ reports' = reports \cup {[job |-> j, result |-> "aborted", tries |-> Retries]}
             /\ outcome' = [outcome EXCEPT ![j] = "aborted"]
             /\ UNCHANGED phase
  /\ UNCHANGED <<deadline, errs, cache, booked, slot, busy, hurt, verdict, signal, told>>

(* The process is gone.  A crash left no result to unmarshal: somebody is  *)
(* alerted, and the job is reported as aborted.                            *)
BenchIsOver ==
  /\ worker = "executing" /\ phase = "over"
  /\ LET result == IF verdict = "crash" THEN "aborted" ELSE verdict
     IN  /\ reports' = reports \cup {[job |-> job, result |-> result, tries |-> Retries]}
         /\ outcome' = [outcome EXCEPT ![job] = result]
  /\ alerted' = IF verdict = "crash" THEN alerted \cup {job} ELSE alerted
  /\ worker' = "waiting" /\ job' = NoJob
  /\ phase' = "off" /\ deadline' = FALSE
  /\ errs' = [pretest |-> FALSE, msgs |-> {}, application |-> 0, final |-> "none"]
  /\ cache' = NoCache /\ booked' = << >>
  /\ slot' = NoGoroutines
  /\ busy' = 0 /\ hurt' = {} /\ verdict' = "none"
  /\ UNCHANGED <<signal, queue, told>>

(* The last attempt fails and nobody is told.                              *)
ReportsQuietly(r) ==
  /\ \E stored, heard \in BOOLEAN :
       /\ heard => stored
       /\ told' = IF stored THEN [told EXCEPT ![r.job] = r.result] ELSE told
       /\ reports' = (reports \ {r}) \cup
                       (IF heard \/ r.tries = 1 THEN {} ELSE {[r EXCEPT !.tries = @ - 1]})
  /\ UNCHANGED <<benchVars, worker, job, signal, queue, alerted, outcome>>

(* One attempt to report.  The portal may have stored a result although    *)
(* the worker never hears so; after the last attempt somebody is alerted.  *)
Reports(r) ==
  /\ \E stored, heard \in BOOLEAN :
       /\ heard => stored
       /\ told' = IF stored THEN [told EXCEPT ![r.job] = r.result] ELSE told
       /\ reports' = (reports \ {r}) \cup
                       (IF heard \/ r.tries = 1 THEN {} ELSE {[r EXCEPT !.tries = @ - 1]})
       /\ alerted' = IF ~heard /\ r.tries = 1 THEN alerted \cup {r.job} ELSE alerted
  /\ UNCHANGED <<benchVars, worker, job, signal, queue, outcome>>

(* The report that there was no target to run against is awaited.          *)
Apologized ==
  /\ worker = "apologizing" /\ \A r \in reports : r.job # job
  /\ worker' = "waiting" /\ job' = NoJob
  /\ UNCHANGED <<benchVars, signal, queue, reports, told, alerted, outcome>>

Signal ==
  /\ ~signal /\ worker # "exited"
  /\ signal' = TRUE
  /\ UNCHANGED <<benchVars, worker, job, queue, reports, told, alerted, outcome>>

(* The break leaves the select and not the loop.                           *)
BreaksSelect ==
  /\ worker = "waiting" /\ signal
  /\ signal' = FALSE
  /\ UNCHANGED <<benchVars, worker, job, queue, reports, told, alerted, outcome>>

BreaksLoop ==
  /\ worker = "waiting" /\ signal
  /\ worker' = "closing"
  /\ UNCHANGED <<benchVars, job, signal, queue, reports, told, alerted, outcome>>

(* The reports are not waited for.                                         *)
ExitsAtOnce ==
  /\ worker = "closing"
  /\ worker' = "exited"
  /\ UNCHANGED <<benchVars, job, signal, queue, reports, told, alerted, outcome>>

(* reportWg.Wait.                                                          *)
Exits ==
  /\ worker = "closing" /\ reports = {}
  /\ worker' = "exited"
  /\ UNCHANGED <<benchVars, job, signal, queue, reports, told, alerted, outcome>>

WorkerNext ==
  \/ TakesJob \/ BenchIsOver \/ Apologized \/ Signal \/ BreaksLoop \/ Exits
  \/ \E r \in reports : Reports(r)
  \/ BenchNext /\ UNCHANGED workerVars

(* Every call of the benchmark's client is given up after some seconds,    *)
(* the load after sixty; report's retrier gives up too.                    *)
WorkerFairness ==
  /\ WF_<<benchVars, workerVars>>(BenchIsOver \/ Apologized \/ BreaksLoop \/ Exits)
  /\ WF_<<benchVars, workerVars>>(\E r \in reports : Reports(r))
  /\ WF_<<benchVars, workerVars>>(Main /\ UNCHANGED workerVars)
  /\ WF_<<benchVars, workerVars>>(Passenger(driver) /\ UNCHANGED workerVars)

WorkerSpec == WorkerInit /\ [][WorkerNext]_<<benchVars, workerVars>> /\ WorkerFairness

-----------------------------------------------------------------------------
(* Properties.                                                             *)

Answered(j) == told[j] # "none" \/ j \in alerted

(* The portal stores no result but the one the job's own run ended with,   *)
(* and when the process exits no job it took is left unanswered (the       *)
(* retried reports of bench-worker.go:236 are waited for at 252).          *)
ExitLeavesNothing ==
  /\ \A j \in Job : told[j] # "none" => told[j] = outcome[j]
  /\ worker = "exited" => \A j \in Job \ queue : Answered(j)

(* Every job the worker takes gets a result at the portal, or somebody is  *)
(* alerted (bench-worker.go:208-248), whatever the run ends with.          *)
EveryJobIsAnswered == \A j \in Job : (j \notin queue) ~> Answered(j)

(* After a signal the worker finishes its job, reports it and exits        *)
(* (bench-worker.go:203, 252).                                             *)
StopIsObeyed == signal ~> (worker = "exited")

=============================================================================
