----------------------------- MODULE Application ----------------------------
(***************************************************************************)
(* The life of the process: the loop of the start command, the application *)
(* with its three workers (indexer, gRPC server, gateway), and the         *)
(* configurator that runs one goroutine per job and waits for them.        *)
(*                                                                         *)
(* A job is abstracted to the block it has reached: what it does with the  *)
(* blocks is the subject of Indexer.  A context is cancelled when its own  *)
(* cancel function was called or the context it is derived from is done.   *)
(***************************************************************************)
EXTENDS Integers

CONSTANTS
  Jobs,        \* job descriptors
  StartBlock,  \* JobDescriptor.StartBlock
  NoBlock,     \* the storage holds no such job
  MaxBlock,    \* bound: the last block of the chain
  MaxFaults    \* bound: failing calls, failing jobs and crashes

ASSUME BlockAssumption ==
  /\ StartBlock \in Nat /\ MaxBlock \in Nat /\ MaxFaults \in Nat
  /\ StartBlock <= MaxBlock
  /\ NoBlock \notin Nat

Blocks == StartBlock..MaxBlock

VARIABLES
  stored,   \* database: the CurrentBlock of every job, or NoBlock
  dbOpen,   \* a handle on the database is open in this process
  config,   \* the jobs that the configuration names
  stop,     \* the command's context is cancelled
  phase,    \* where the start command and StartApplication are
  failed,   \* the context of the workers is cancelled: one returned an error
  indexer,  \* where RunIndexer is
  servers,  \* the servers that have not returned
  jobs,     \* the keys of Configurator.jobs
  job,      \* the goroutine of every job
  waiter,   \* the goroutine of Configurator.Wait
  faults    \* how many calls and jobs have failed

mainVars == <<dbOpen, config, stop, phase>>
jobVars  == <<stored, jobs, job>>
vars     == <<mainVars, failed, indexer, servers, jobVars, waiter, faults>>

Servers == {"grpc", "gateway"}

NoJob == [at |-> "none", err |-> "none", cancelled |-> FALSE, from |-> StartBlock]

(* The context that the workers run in, and that of a job, are done. *)
Done == failed \/ stop

(* Mutant of JobDone: the job's context is not derived from the worker's. *)
JobDoneDetached(j) == job[j].cancelled

JobDone(j) == job[j].cancelled \/ Done

Fault ==
  /\ faults < MaxFaults
  /\ faults' = faults + 1

-----------------------------------------------------------------------------
(***************************************************************************)
(* Application.Init.                                                       *)
(***************************************************************************)

(* The node cannot be reached, or does not tell the latest block. *)
ConnectFails ==
  /\ phase = "init"
  /\ Fault \/ (stop /\ UNCHANGED faults)
  /\ phase' = "returned"
  /\ UNCHANGED <<dbOpen, config, stop, failed, indexer, servers, jobVars, waiter>>

(* A database that is still open in this process cannot be opened again.   *)
NewDB ==
  /\ phase = "init"
  /\ IF dbOpen THEN phase' = "returned" /\ UNCHANGED dbOpen
     ELSE phase' = "configure" /\ dbOpen' = TRUE
  /\ UNCHANGED <<config, stop, failed, indexer, servers, jobVars, waiter, faults>>

(* A registry cannot be initialised.  Init returns before StartApplication *)
(* has deferred the closing of the database.                               *)
ConfigureFails ==
  /\ phase = "configure"
  /\ Fault \/ (stop /\ UNCHANGED faults)
  /\ phase' = "returned"
  /\ UNCHANGED <<dbOpen, config, stop, failed, indexer, servers, jobVars, waiter>>

StartWorkers ==
  /\ phase = "configure"
  /\ phase' = "run"
  /\ failed' = FALSE
  /\ indexer' = "resume"
  /\ servers' = Servers
  /\ UNCHANGED <<dbOpen, config, stop, jobVars, waiter, faults>>

-----------------------------------------------------------------------------
(***************************************************************************)
(* Configurator: starting the jobs.                                        *)
(***************************************************************************)
StartJob(j, startBlock) ==
  /\ j \in config \ jobs
  /\ jobs' = jobs \union {j}
  /\ job' = [job EXCEPT ![j] = [NoJob EXCEPT !.at = "running", !.from = startBlock]]
  /\ UNCHANGED <<mainVars, stored, failed, indexer, servers, waiter, faults>>

(* InitConfiguratorFromStorage: the stored jobs of the active set. *)
ResumeJob(j) ==
  /\ indexer = "resume"
  /\ stored[j] # NoBlock
  /\ StartJob(j, stored[j])

(* Mutant of ResumeDone: the stored jobs are left to ReloadConfig. *)
ResumeDoneEarly ==
  /\ indexer = "resume"
  /\ indexer' = "reload"
  /\ UNCHANGED <<mainVars, failed, servers, jobVars, waiter, faults>>

ResumeDone ==
  /\ indexer = "resume"
  /\ \A j \in config \ jobs : stored[j] = NoBlock
  /\ indexer' = "reload"
  /\ UNCHANGED <<mainVars, failed, servers, jobVars, waiter, faults>>

(* ReloadConfig: the jobs that do not run yet.  Those that run are all in  *)
(* the configuration, so that it stops none and writes an empty batch.     *)
ReloadJob(j) ==
  /\ indexer = "reload"
  /\ StartJob(j, StartBlock)

ReloadDone ==
  /\ indexer = "reload"
  /\ config \subseteq jobs
  /\ indexer' = "wait"
  /\ waiter' = [at |-> "pick", todo |-> jobs]
  /\ UNCHANGED <<mainVars, failed, servers, jobVars, faults>>

(* The storage cannot be read, the context is done, or no handler can be   *)
(* produced for a job.                                                     *)
StartJobsFails ==
  /\ indexer \in {"resume", "reload"}
  /\ Fault \/ (Done /\ UNCHANGED faults)
  /\ indexer' = "returned"
  /\ failed' = TRUE
  /\ UNCHANGED <<mainVars, servers, jobVars, waiter>>

-----------------------------------------------------------------------------
(***************************************************************************)
(* The goroutines of the jobs.                                             *)
(***************************************************************************)
(* Mutant of JobCommit: the block before the batch is stored. *)
JobCommitBehind(j) ==
  /\ job[j].at = "running"
  /\ dbOpen
  /\ \E block \in job[j].from..MaxBlock : stored' = [stored EXCEPT ![j] = block - 1]
  /\ UNCHANGED <<mainVars, failed, indexer, servers, jobs, job, waiter, faults>>

(* A batch is written with the block it ends at.  The next batch may end   *)
(* before it in the subscription mode, as Indexer shows.                   *)
JobCommit(j) ==
  /\ job[j].at = "running"
  /\ dbOpen
  /\ \E block \in job[j].from..MaxBlock : stored' = [stored EXCEPT ![j] = block]
  /\ UNCHANGED <<mainVars, failed, indexer, servers, jobs, job, waiter, faults>>

JobReturns(j, err) ==
  /\ job[j].at = "running"
  /\ job' = [job EXCEPT ![j] = [@ EXCEPT !.at = "failing", !.err = err]]
  /\ UNCHANGED <<mainVars, failed, indexer, servers, stored, jobs, waiter>>

(* IndexEVMLogs fails of itself.  The error is a cancellation also when    *)
(* the subscription breaks during FilterLogs, which runs in its context.   *)
JobFails(j) ==
  /\ Fault
  /\ \E err \in {"error", "canceled"} : JobReturns(j, err)

(* IndexEVMLogs is cancelled, or runs into a timeout on its way out. *)
JobCancelled(j) ==
  /\ JobDone(j)
  /\ \E err \in {"error", "canceled"} : JobReturns(j, err)
  /\ UNCHANGED faults

(* Mutant of CancelAll: the other jobs go on. *)
CancelNone(j) ==
  /\ job[j].at = "failing"
  /\ job' = [job EXCEPT ![j].at = "ended"]
  /\ UNCHANGED <<mainVars, failed, indexer, servers, stored, jobs, waiter, faults>>

(* The failed job cancels all jobs that the map holds by now, and ends. *)
CancelAll(j) ==
  /\ job[j].at = "failing"
  /\ job' = [k \in Jobs |-> [job[k] EXCEPT !.at = IF k = j THEN "ended" ELSE @,
                                           !.cancelled = @ \/ k \in jobs]]
  /\ UNCHANGED <<mainVars, failed, indexer, servers, stored, jobs, waiter, faults>>

-----------------------------------------------------------------------------
(***************************************************************************)
(* Configurator.Wait, and the select of RunIndexer on it.                  *)
(***************************************************************************)
WaiterStep(w) ==
  /\ waiter' = w
  /\ UNCHANGED <<mainVars, failed, indexer, servers, jobVars, faults>>

(* The loop over the map waits for one job after the other, in any order.  *)
WaitFor(j) ==
  /\ waiter.at = "pick"
  /\ j \in waiter.todo
  /\ WaiterStep([at |-> "on", todo |-> waiter.todo, on |-> j])

(* Mutant of JobWaited: the first job that has ended ends the waiting. *)
FirstJobWaited ==
  /\ waiter.at = "on"
  /\ job[waiter.on].at = "ended"
  /\ WaiterStep(IF job[waiter.on].err = "canceled" THEN [at |-> "closed"]
                ELSE [at |-> "sending"])

(* The first error that is no cancellation is sent. *)
JobWaited ==
  /\ waiter.at = "on"
  /\ job[waiter.on].at = "ended"
  /\ WaiterStep(IF job[waiter.on].err = "canceled"
                THEN [at |-> "pick", todo |-> waiter.todo \ {waiter.on}]
                ELSE [at |-> "sending"])

WaitClosed ==
  /\ waiter.at = "pick"
  /\ waiter.todo = {}
  /\ WaiterStep([at |-> "closed"])

(* RunIndexer reports the jobs in the storage, which may fail too.  A      *)
(* goroutine of Wait that still runs is left behind and has no effect.     *)
IndexerReturns(err) ==
  /\ indexer' = "returned"
  /\ waiter' = [at |-> "none"]
  /\ \/ failed' = (failed \/ err) /\ UNCHANGED faults
     \/ failed' = TRUE /\ Fault
  /\ UNCHANGED <<mainVars, servers, jobVars>>

(* It returns the error of a job... *)
JobErrorReceived ==
  /\ indexer = "wait"
  /\ waiter.at = "sending"
  /\ IndexerReturns(TRUE)

(* ... or nil, when all of them were cancelled... *)
AllJobsEnded ==
  /\ indexer = "wait"
  /\ waiter.at = "closed"
  /\ IndexerReturns(FALSE)

(* ... or is told to shut down, and waits anew. *)
ShutDown ==
  /\ indexer = "wait"
  /\ Done
  /\ indexer' = "drain"
  /\ waiter' = [at |-> "pick", todo |-> jobs]
  /\ UNCHANGED <<mainVars, failed, servers, jobVars, faults>>

Drained ==
  /\ indexer = "drain"
  /\ waiter.at \in {"sending", "closed"}
  /\ IndexerReturns(FALSE)

-----------------------------------------------------------------------------
(***************************************************************************)
(* The servers.                                                            *)
(***************************************************************************)

(* RunGRPC cannot listen or accept, or the set-up of RunGateway fails.     *)
(* That the gateway cannot listen is logged and ends nothing.              *)
ServerFails(s) ==
  /\ s \in servers
  /\ Fault
  /\ servers' = servers \ {s}
  /\ failed' = TRUE
  /\ UNCHANGED <<mainVars, indexer, jobVars, waiter>>

(* The listener of RunGRPC is closed, and it returns the error that        *)
(* follows; RunGateway may run into its timeout while it shuts down.       *)
ServerStops(s) ==
  /\ s \in servers
  /\ Done
  /\ servers' = servers \ {s}
  /\ failed' \in {failed \/ s = "grpc", TRUE}
  /\ UNCHANGED <<mainVars, indexer, jobVars, waiter, faults>>

-----------------------------------------------------------------------------
(***************************************************************************)
(* The end of an application, and the loop of the start command.           *)
(***************************************************************************)

(* All workers have returned.  Jobs that the first error has not waited    *)
(* for may still run.                                                      *)
Close ==
  /\ phase = "run"
  /\ indexer = "returned"
  /\ servers = {}
  /\ phase' = "returned"
  /\ dbOpen' = FALSE
  /\ UNCHANGED <<config, stop, failed, indexer, servers, jobVars, waiter, faults>>

(* What memory holds when the application is not running. *)
Cleared ==
  /\ failed' = FALSE
  /\ indexer' = "none"
  /\ servers' = {}
  /\ jobs' = {}
  /\ job' = [j \in Jobs |-> NoJob]
  /\ waiter' = [at |-> "none"]

(* Mutant of Pause: the break leaves the select and not the loop. *)
PauseAnyway ==
  /\ phase = "returned"
  /\ phase' = "pause"
  /\ UNCHANGED <<dbOpen, config, stop, failed, indexer, servers, jobVars, waiter, faults>>

Pause ==
  /\ phase = "returned"
  /\ ~stop
  /\ phase' = "pause"
  /\ UNCHANGED <<dbOpen, config, stop, failed, indexer, servers, jobVars, waiter, faults>>

(* The five seconds are over, whether or not the process was interrupted.  *)
(* A job of the closed database that is still running can only fail, and   *)
(* is not followed any further.                                            *)
Restart ==
  /\ phase = "pause"
  /\ phase' = "init"
  /\ Cleared
  /\ UNCHANGED <<dbOpen, config, stop, stored, faults>>

Exit ==
  /\ phase = "returned"
  /\ stop
  /\ phase' = "stopped"
  /\ UNCHANGED <<dbOpen, config, stop, failed, indexer, servers, jobVars, waiter, faults>>

(* The process is asked to stop. *)
Interrupt ==
  /\ phase # "stopped"
  /\ ~stop
  /\ stop' = TRUE
  /\ UNCHANGED <<dbOpen, config, phase, failed, indexer, servers, jobVars, waiter, faults>>

(* The process dies: it is killed, or the runtime aborts it, as it may     *)
(* when CancelAll ranges over the map while StartJob adds to it.  It is    *)
(* started anew, perhaps with another configuration.                       *)
Crash ==
  /\ phase # "stopped"
  /\ Fault
  /\ phase' = "init"
  /\ dbOpen' = FALSE
  /\ stop' = FALSE
  /\ config' \in SUBSET Jobs \ {{}}
  /\ Cleared
  /\ UNCHANGED stored

-----------------------------------------------------------------------------
Init ==
  /\ stored = [j \in Jobs |-> NoBlock]
  /\ dbOpen = FALSE
  /\ config \in SUBSET Jobs \ {{}}
  /\ stop = FALSE
  /\ phase = "init"
  /\ failed = FALSE
  /\ indexer = "none"
  /\ servers = {}
  /\ jobs = {}
  /\ job = [j \in Jobs |-> NoJob]
  /\ waiter = [at |-> "none"]
  /\ faults = 0

MainStep == NewDB \/ StartWorkers \/ Close \/ Pause \/ Restart \/ Exit

IndexerStep ==
  \/ \E j \in Jobs : ResumeJob(j) \/ ReloadJob(j)
  \/ ResumeDone
  \/ ReloadDone
  \/ JobErrorReceived
  \/ AllJobsEnded
  \/ ShutDown
  \/ Drained

WaitStep == (\E j \in Jobs : WaitFor(j)) \/ JobWaited \/ WaitClosed

JobEnds(j) == JobCancelled(j) \/ CancelAll(j)

Next ==
  \/ MainStep
  \/ IndexerStep
  \/ WaitStep
  \/ \E j \in Jobs : JobEnds(j) \/ JobCommit(j) \/ JobFails(j)
  \/ \E s \in Servers : ServerStops(s) \/ ServerFails(s)
  \/ StartJobsFails
  \/ ConnectFails
  \/ ConfigureFails
  \/ Interrupt
  \/ Crash

Spec == Init /\ [][Next]_vars

(* Goroutines are scheduled, and calls return once their context is done.  *)
FairSpec ==
  /\ Spec
  /\ WF_vars(MainStep)
  /\ WF_vars(IndexerStep)
  /\ WF_vars(WaitStep)
  /\ \A j \in Jobs : WF_vars(JobEnds(j))
  /\ \A s \in Servers : WF_vars(ServerStops(s))

-----------------------------------------------------------------------------
(***************************************************************************)
(* Properties.                                                             *)
(***************************************************************************)
JobStates ==
  [at : {"none", "running", "failing", "ended"}, err : {"none", "error", "canceled"},
   cancelled : BOOLEAN, from : Blocks]

WaiterStates ==
  [at : {"none", "sending", "closed"}] \union [at : {"pick"}, todo : SUBSET Jobs]
    \union [at : {"on"}, todo : SUBSET Jobs, on : Jobs]

(* The variables have their types. *)
TypeOK ==
  /\ stored \in [Jobs -> Blocks \union {NoBlock}]
  /\ dbOpen \in BOOLEAN /\ stop \in BOOLEAN /\ failed \in BOOLEAN
  /\ config \in SUBSET Jobs /\ jobs \in SUBSET Jobs
  /\ phase \in {"init", "configure", "run", "returned", "pause", "stopped"}
  /\ indexer \in {"none", "resume", "reload", "wait", "drain", "returned"}
  /\ servers \in SUBSET Servers
  /\ job \in [Jobs -> JobStates]
  /\ waiter \in WaiterStates
  /\ faults \in 0..MaxFaults

(* A job that runs when StartApplication has closed the database has been  *)
(* told to end: RunIndexer returns with the first error of a job and does  *)
(* not wait for the others, but the servers return only when the context   *)
(* that all jobs inherit is done.                                          *)
NoLiveJobOnClosedDatabase ==
  ~dbOpen => \A j \in Jobs : job[j].at = "running" => JobDone(j)

(* RunIndexer returns without an error, which leaves the servers running,  *)
(* only when every job that it has started has ended: none is abandoned by *)
(* Wait, in whatever order it goes through the jobs.                       *)
QuietReturnLeavesNoJob ==
  indexer = "returned" /\ ~Done =>
    \A j \in config : job[j].at = "ended" /\ job[j].err = "canceled"

(* A job with stored progress is started from there and never again from   *)
(* its StartBlock: InitConfiguratorFromStorage resumes it before           *)
(* ReloadConfig looks for jobs that do not run, over restarts, crashes and *)
(* changes of the configuration.                                           *)
ProgressResumed ==
  [][\A j \in Jobs :
       job[j].at # "running" /\ job'[j].at = "running" /\ stored[j] # NoBlock
         => job'[j].from = stored[j]]_vars

(* A job that fails once all jobs are started, with an error that is no    *)
(* cancellation, ends the application, so that the start command restarts  *)
(* it: Wait reaches the job although it waits for the others first.        *)
FailureEndsApplication ==
  \A j \in Jobs :
    job[j].at = "failing" /\ job[j].err = "error" /\ config \subseteq jobs /\ phase = "run"
      ~> phase # "run"

(* A process that is asked to stop does so, wherever it is: no worker and  *)
(* no job keeps it waiting.                                                *)
InterruptStopsProcess == stop ~> phase = "stopped" \/ ~stop

(* "close resources on exit" (application.go:122): when StartApplication   *)
(* has returned the database is closed, so that the restarted application  *)
(* can open it.                                                            *)
ResourcesClosedOnExit == phase = "returned" => ~dbOpen
=============================================================================
