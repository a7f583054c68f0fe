-------------------------- MODULE ApplicationProofs -------------------------
(***************************************************************************)
(* Proofs about Application, for any set of jobs and any bounds.           *)
(***************************************************************************)
EXTENDS Application, TLAPS

(* When the workers run the database is open, a server has returned only   *)
(* if their context is done, and outside of that time no job is started    *)
(* and none goes on that has not been told to end.                         *)
PhaseInv ==
  /\ phase \in {"configure", "run"} => dbOpen
  /\ indexer \in {"resume", "reload", "wait", "drain"} => phase = "run"
  /\ phase \in {"init", "configure"} => \A j \in Jobs : job[j].at = "none"
  /\ phase = "run" /\ servers # Servers => Done
  /\ phase # "run" => \A j \in Jobs : job[j].at = "running" => Done

(* Only the jobs of the map have a goroutine, and what ReloadConfig has    *)
(* left to start has no progress.                                          *)
StartInv ==
  /\ \A j \in Jobs \ jobs : job[j].at = "none"
  /\ indexer = "reload" => \A j \in config \ jobs : stored[j] = NoBlock

Quiet(j) == job[j].at = "ended" /\ job[j].err = "canceled"

(* What Wait has gone past has ended by cancellation, and RunIndexer       *)
(* returns on an error, on a context that is done, or past all jobs.       *)
WaitInv ==
  /\ indexer \in {"wait", "drain"} => config \subseteq jobs
  /\ waiter.at # "none" => indexer \in {"wait", "drain"}
  /\ waiter.at \in {"pick", "on"} => \A j \in jobs \ waiter.todo : Quiet(j)
  /\ waiter.at = "closed" => \A j \in jobs : Quiet(j)
  /\ indexer = "drain" => Done
  /\ indexer = "returned" => Done \/ \A j \in config : Quiet(j)

(* The part of TypeOK that the argument needs. *)
JobTypes ==
  /\ stored \in [Jobs -> Blocks \union {NoBlock}]
  /\ job \in [Jobs -> JobStates]
  /\ config \in SUBSET Jobs /\ jobs \in SUBSET Jobs
  /\ stop \in BOOLEAN /\ failed \in BOOLEAN

AppInv == JobTypes /\ PhaseInv /\ StartInv /\ WaitInv

(* The states that goroutines of jobs begin in and come to. *)
LEMMA NoJobType == NoJob \in JobStates
BY BlockAssumption DEF NoJob, JobStates, Blocks

LEMMA StartJobTypes ==
  ASSUME JobTypes, NEW j \in Jobs, NEW b \in Blocks, StartJob(j, b)
  PROVE  JobTypes'
<1>1. [NoJob EXCEPT !.at = "running", !.from = b] \in JobStates
  BY DEF NoJob, JobStates
<1>2. QED
  BY <1>1 DEF StartJob, JobTypes, mainVars

LEMMA JobReturnsTypes ==
  ASSUME JobTypes, NEW j \in Jobs, NEW err \in {"error", "canceled"}, JobReturns(j, err)
  PROVE  JobTypes'
<1>1. job[j] \in JobStates
  BY DEF JobTypes
<1>2. [job[j] EXCEPT !.at = "failing", !.err = err] \in JobStates
  BY <1>1 DEF JobStates
<1>3. QED
  BY <1>2 DEF JobReturns, JobTypes, mainVars

LEMMA InitInv == Init => AppInv
<1> SUFFICES ASSUME Init PROVE AppInv
  OBVIOUS
<1>1. JobTypes
  BY NoJobType DEF Init, JobTypes
<1>2. PhaseInv /\ StartInv /\ WaitInv
  BY DEF Init, PhaseInv, StartInv, WaitInv, NoJob, Servers, Done
<1>3. QED
  BY <1>1, <1>2 DEF AppInv

(* What CancelAll does to every job. *)
LEMMA CancelAllEffect ==
  ASSUME JobTypes, NEW j \in Jobs, CancelAll(j)
  PROVE  /\ job[j].at = "failing"
         /\ job' \in [Jobs -> JobStates]
         /\ \A k \in Jobs : /\ job'[k].at = IF k = j THEN "ended" ELSE job[k].at
                            /\ job'[k].err = job[k].err
         /\ UNCHANGED <<stored, dbOpen, config, stop, phase, failed, indexer, servers,
                        jobs, waiter>>
<1>1. \A k \in Jobs : job[k] \in JobStates
  BY DEF JobTypes
<1>2. \A k \in Jobs : job'[k] = [job[k] EXCEPT !.at = IF k = j THEN "ended" ELSE @,
                                             !.cancelled = @ \/ k \in jobs]
  BY DEF CancelAll
<1>3. ASSUME NEW k \in Jobs
      PROVE  /\ job'[k] \in JobStates
             /\ job'[k].at = IF k = j THEN "ended" ELSE job[k].at
             /\ job'[k].err = job[k].err
  <2> DEFINE end == IF k = j THEN "ended" ELSE job[k].at
             cancelled == job[k].cancelled \/ k \in jobs
  <2>1. /\ job'[k] = [job[k] EXCEPT !.at = end, !.cancelled = cancelled]
        /\ end \in {"none", "running", "failing", "ended"} /\ cancelled \in BOOLEAN
    BY <1>1, <1>2 DEF JobStates
  <2> HIDE DEF end, cancelled
  <2>2. job'[k] \in JobStates /\ job'[k].at = end /\ job'[k].err = job[k].err
    BY <1>1, <2>1 DEF JobStates
  <2>3. QED
    BY <2>2 DEF end
<1>4. job' = [k \in Jobs |-> job'[k]]
  BY DEF CancelAll
<1>5. /\ job[j].at = "failing"
      /\ UNCHANGED <<stored, dbOpen, config, stop, phase, failed, indexer, servers,
                     jobs, waiter>>
  BY DEF CancelAll, mainVars
<1>6. QED
  BY <1>3, <1>4, <1>5

(* A server returns only when the context of the workers is done, or ends  *)
(* it.                                                                     *)
LEMMA ServerEffect ==
  ASSUME JobTypes, NEW s \in Servers, ServerStops(s) \/ ServerFails(s)
  PROVE  /\ failed' \in BOOLEAN /\ (failed => failed')
         /\ Done'
         /\ UNCHANGED <<stored, dbOpen, config, stop, phase, indexer, jobs, job, waiter>>
<1>1. CASE ServerFails(s)
  BY <1>1 DEF ServerFails, Done, mainVars, jobVars
<1>2. CASE ServerStops(s)
  <2>1. Done /\ UNCHANGED <<stored, dbOpen, config, stop, phase, indexer, jobs, job, waiter>>
    BY <1>2 DEF ServerStops, mainVars, jobVars
  <2>2. failed' = (failed \/ s = "grpc") \/ failed' = TRUE
    BY <1>2 DEF ServerStops
  <2>3. failed' \in BOOLEAN /\ (failed => failed')
    BY <2>2, Zenon DEF JobTypes
  <2>4. QED
    BY <2>1, <2>3 DEF Done
<1>3. QED
  BY <1>1, <1>2

LEMMA JobTypesStep == ASSUME JobTypes, [Next]_vars PROVE JobTypes'
<1> USE BlockAssumption DEF mainVars, jobVars
<1>0. CASE UNCHANGED vars
  BY <1>0 DEF vars, JobTypes, Blocks, JobStates
<1>1. CASE NewDB
  BY <1>1 DEF NewDB, JobTypes, Blocks, JobStates
<1>2. CASE StartWorkers
  BY <1>2 DEF StartWorkers, Servers, JobTypes, Blocks, JobStates
<1>3. CASE Close
  BY <1>3 DEF Close, Servers, JobTypes, Blocks, JobStates
<1>4. CASE Pause \/ Exit
  BY <1>4 DEF Pause, Exit, JobTypes, Blocks, JobStates
<1>5. CASE Restart
  BY <1>5, NoJobType DEF Restart, Cleared, JobTypes
<1>6. CASE Crash
  BY <1>6, NoJobType DEF Crash, Cleared, Fault, JobTypes
<1>7. CASE Interrupt
  BY <1>7 DEF Interrupt, JobTypes, Blocks, JobStates
<1>8. CASE ConnectFails \/ ConfigureFails
  BY <1>8 DEF ConnectFails, ConfigureFails, Fault, JobTypes, Blocks, JobStates
<1>9. ASSUME NEW j \in Jobs, ResumeJob(j) PROVE JobTypes'
  <2>1. stored[j] \in Blocks
    BY <1>9 DEF ResumeJob, JobTypes
  <2>2. QED
    BY <1>9, <2>1, StartJobTypes DEF ResumeJob
<1>10. ASSUME NEW j \in Jobs, ReloadJob(j) PROVE JobTypes'
  <2>1. StartBlock \in Blocks
    BY DEF Blocks
  <2>2. QED
    BY <1>10, <2>1, StartJobTypes DEF ReloadJob
<1>11. CASE ResumeDone
  BY <1>11 DEF ResumeDone, JobTypes, Blocks, JobStates
<1>12. CASE ReloadDone
  BY <1>12 DEF ReloadDone, JobTypes, Blocks, JobStates
<1>13. CASE StartJobsFails
  BY <1>13 DEF StartJobsFails, Fault, JobTypes, Blocks, JobStates
<1>14. CASE JobErrorReceived
  BY <1>14 DEF JobErrorReceived, IndexerReturns, Fault, JobTypes, Blocks, JobStates
<1>15. CASE AllJobsEnded
  BY <1>15 DEF AllJobsEnded, IndexerReturns, Fault, JobTypes, Blocks, JobStates
<1>16. CASE Drained
  BY <1>16 DEF Drained, IndexerReturns, Fault, JobTypes, Blocks, JobStates
<1>17. CASE ShutDown
  BY <1>17 DEF ShutDown, JobTypes, Blocks, JobStates
<1>18. CASE \E j \in Jobs : WaitFor(j)
  BY <1>18 DEF WaitFor, WaiterStep, JobTypes, Blocks, JobStates
<1>19. CASE JobWaited
  BY <1>19 DEF JobWaited, WaiterStep, JobTypes, Blocks, JobStates
<1>20. CASE WaitClosed
  BY <1>20 DEF WaitClosed, WaiterStep, JobTypes, Blocks, JobStates
<1>21. CASE \E j \in Jobs : JobCommit(j)
  BY <1>21 DEF JobCommit, JobTypes, Blocks, JobStates
<1>22. CASE \E j \in Jobs : JobFails(j) \/ JobCancelled(j)
  BY <1>22, JobReturnsTypes DEF JobFails, JobCancelled
<1>23. CASE \E j \in Jobs : CancelAll(j)
  BY <1>23, CancelAllEffect DEF JobTypes, Blocks, JobStates
<1>24. CASE \E s \in Servers : ServerStops(s) \/ ServerFails(s)
  BY <1>24, ServerEffect DEF JobTypes, Blocks, JobStates
<1>25. QED
  BY <1>0, <1>1, <1>2, <1>3, <1>4, <1>5, <1>6, <1>7, <1>8, <1>9, <1>10, <1>11, <1>12,
     <1>13, <1>14, <1>15, <1>16, <1>17, <1>18, <1>19, <1>20, <1>21, <1>22, <1>23, <1>24
     DEF Next, MainStep, IndexerStep, WaitStep, JobEnds

LEMMA PhaseInvStep == ASSUME JobTypes, PhaseInv, [Next]_vars PROVE PhaseInv'
<1> USE BlockAssumption DEF mainVars, jobVars
<1>0. CASE UNCHANGED vars
  BY <1>0 DEF vars, PhaseInv, Done, JobTypes, JobStates
<1>1. CASE NewDB
  BY <1>1 DEF NewDB, PhaseInv, Done, JobTypes, JobStates
<1>2. CASE StartWorkers
  BY <1>2 DEF StartWorkers, Servers, PhaseInv, Done, JobTypes, JobStates
<1>3. CASE Close
  BY <1>3 DEF Close, Servers, PhaseInv, Done, JobTypes, JobStates
<1>4. CASE Pause \/ Exit
  BY <1>4 DEF Pause, Exit, PhaseInv, Done, JobTypes, JobStates
<1>5. CASE Restart
  BY <1>5 DEF Restart, Cleared, NoJob, PhaseInv, Done, JobTypes, JobStates
<1>6. CASE Crash
  BY <1>6 DEF Crash, Cleared, NoJob, Fault, PhaseInv, Done, JobTypes, JobStates
<1>7. CASE Interrupt
  BY <1>7 DEF Interrupt, PhaseInv, Done, JobTypes, JobStates
<1>8. CASE ConnectFails \/ ConfigureFails
  BY <1>8 DEF ConnectFails, ConfigureFails, Fault, PhaseInv, Done, JobTypes, JobStates
<1>9. CASE \E j \in Jobs : ResumeJob(j)
  BY <1>9 DEF ResumeJob, StartJob, NoJob, PhaseInv, Done, JobTypes, JobStates
<1>10. CASE \E j \in Jobs : ReloadJob(j)
  BY <1>10 DEF ReloadJob, StartJob, NoJob, PhaseInv, Done, JobTypes, JobStates
<1>11. CASE ResumeDone
  BY <1>11 DEF ResumeDone, PhaseInv, Done, JobTypes, JobStates
<1>12. CASE ReloadDone
  BY <1>12 DEF ReloadDone, PhaseInv, Done, JobTypes, JobStates
<1>13. CASE StartJobsFails
  BY <1>13 DEF StartJobsFails, Fault, PhaseInv, Done, JobTypes, JobStates
<1>14. CASE JobErrorReceived
  BY <1>14 DEF JobErrorReceived, IndexerReturns, Fault, PhaseInv, Done, JobTypes, JobStates
<1>15. CASE AllJobsEnded
  BY <1>15 DEF AllJobsEnded, IndexerReturns, Fault, PhaseInv, Done, JobTypes, JobStates
<1>16. CASE Drained
  BY <1>16 DEF Drained, IndexerReturns, Fault, PhaseInv, Done, JobTypes, JobStates
<1>17. CASE ShutDown
  BY <1>17 DEF ShutDown, PhaseInv, Done, JobTypes, JobStates
<1>18. CASE \E j \in Jobs : WaitFor(j)
  BY <1>18 DEF WaitFor, WaiterStep, PhaseInv, Done, JobTypes, JobStates
<1>19. CASE JobWaited
  BY <1>19 DEF JobWaited, WaiterStep, PhaseInv, Done, JobTypes, JobStates
<1>20. CASE WaitClosed
  BY <1>20 DEF WaitClosed, WaiterStep, PhaseInv, Done, JobTypes, JobStates
<1>21. CASE \E j \in Jobs : JobCommit(j)
  BY <1>21 DEF JobCommit, PhaseInv, Done, JobTypes, JobStates
<1>22. CASE \E j \in Jobs : JobFails(j) \/ JobCancelled(j)
  BY <1>22
     DEF JobFails, JobCancelled, JobReturns, Fault, PhaseInv, Done, JobTypes, JobStates
<1>23. CASE \E j \in Jobs : CancelAll(j)
  BY <1>23, CancelAllEffect DEF PhaseInv, Done, JobTypes, JobStates
<1>24. CASE \E s \in Servers : ServerStops(s) \/ ServerFails(s)
  BY <1>24, ServerEffect DEF PhaseInv, Done, JobTypes, JobStates
<1>25. QED
  BY <1>0, <1>1, <1>2, <1>3, <1>4, <1>5, <1>6, <1>7, <1>8, <1>9, <1>10, <1>11, <1>12,
     <1>13, <1>14, <1>15, <1>16, <1>17, <1>18, <1>19, <1>20, <1>21, <1>22, <1>23, <1>24
     DEF Next, MainStep, IndexerStep, WaitStep, JobEnds

LEMMA StartInvStep == ASSUME JobTypes, PhaseInv, StartInv, [Next]_vars PROVE StartInv'
<1> USE BlockAssumption DEF mainVars, jobVars
<1>0. CASE UNCHANGED vars
  BY <1>0 DEF vars, StartInv, PhaseInv, JobTypes, JobStates
<1>1. CASE NewDB
  BY <1>1 DEF NewDB, StartInv, PhaseInv, JobTypes, JobStates
<1>2. CASE StartWorkers
  BY <1>2 DEF StartWorkers, Servers, StartInv, PhaseInv, JobTypes, JobStates
<1>3. CASE Close
  BY <1>3 DEF Close, Servers, StartInv, PhaseInv, JobTypes, JobStates
<1>4. CASE Pause \/ Exit
  BY <1>4 DEF Pause, Exit, StartInv, PhaseInv, JobTypes, JobStates
<1>5. CASE Restart
  BY <1>5 DEF Restart, Cleared, NoJob, StartInv, PhaseInv, JobTypes, JobStates
<1>6. CASE Crash
  BY <1>6 DEF Crash, Cleared, NoJob, Fault, StartInv, PhaseInv, JobTypes, JobStates
<1>7. CASE Interrupt
  BY <1>7 DEF Interrupt, StartInv, PhaseInv, JobTypes, JobStates
<1>8. CASE ConnectFails \/ ConfigureFails
  BY <1>8 DEF ConnectFails, ConfigureFails, Fault, StartInv, PhaseInv, JobTypes, JobStates
<1>9. CASE \E j \in Jobs : ResumeJob(j)
  BY <1>9 DEF ResumeJob, StartJob, NoJob, StartInv, PhaseInv, JobTypes, JobStates
<1>10. CASE \E j \in Jobs : ReloadJob(j)
  BY <1>10 DEF ReloadJob, StartJob, NoJob, StartInv, PhaseInv, JobTypes, JobStates
<1>11. CASE ResumeDone
  BY <1>11 DEF ResumeDone, StartInv, PhaseInv, JobTypes, JobStates
<1>12. CASE ReloadDone
  BY <1>12 DEF ReloadDone, StartInv, PhaseInv, JobTypes, JobStates
<1>13. CASE StartJobsFails
  BY <1>13 DEF StartJobsFails, Fault, StartInv, PhaseInv, JobTypes, JobStates
<1>14. CASE JobErrorReceived
  BY <1>14
     DEF JobErrorReceived, IndexerReturns, Fault, StartInv, PhaseInv, JobTypes,
         JobStates
<1>15. CASE AllJobsEnded
  BY <1>15 DEF AllJobsEnded, IndexerReturns, Fault, StartInv, PhaseInv, JobTypes, JobStates
<1>16. CASE Drained
  BY <1>16 DEF Drained, IndexerReturns, Fault, StartInv, PhaseInv, JobTypes, JobStates
<1>17. CASE ShutDown
  BY <1>17 DEF ShutDown, StartInv, PhaseInv, JobTypes, JobStates
<1>18. CASE \E j \in Jobs : WaitFor(j)
  BY <1>18 DEF WaitFor, WaiterStep, StartInv, PhaseInv, JobTypes, JobStates
<1>19. CASE JobWaited
  BY <1>19 DEF JobWaited, WaiterStep, StartInv, PhaseInv, JobTypes, JobStates
<1>20. CASE WaitClosed
  BY <1>20 DEF WaitClosed, WaiterStep, StartInv, PhaseInv, JobTypes, JobStates
<1>21. CASE \E j \in Jobs : JobCommit(j)
  BY <1>21 DEF JobCommit, StartInv, PhaseInv, JobTypes, JobStates
<1>22. CASE \E j \in Jobs : JobFails(j) \/ JobCancelled(j)
  BY <1>22
     DEF JobFails, JobCancelled, JobReturns, Fault, StartInv, PhaseInv, JobTypes,
         JobStates
<1>23. CASE \E j \in Jobs : CancelAll(j)
  BY <1>23, CancelAllEffect DEF StartInv, PhaseInv, JobTypes, JobStates
<1>24. CASE \E s \in Servers : ServerStops(s) \/ ServerFails(s)
  BY <1>24, ServerEffect DEF StartInv, PhaseInv, JobTypes, JobStates
<1>25. QED
  BY <1>0, <1>1, <1>2, <1>3, <1>4, <1>5, <1>6, <1>7, <1>8, <1>9, <1>10, <1>11, <1>12,
     <1>13, <1>14, <1>15, <1>16, <1>17, <1>18, <1>19, <1>20, <1>21, <1>22, <1>23, <1>24
     DEF Next, MainStep, IndexerStep, WaitStep, JobEnds

LEMMA WaitInvStep == ASSUME JobTypes, PhaseInv, StartInv, WaitInv, [Next]_vars PROVE WaitInv'
<1> USE BlockAssumption DEF mainVars, jobVars
<1>0. CASE UNCHANGED vars
  BY <1>0 DEF vars, WaitInv, StartInv, PhaseInv, Quiet, Done, JobTypes, JobStates
<1>1. CASE NewDB
  BY <1>1 DEF NewDB, WaitInv, StartInv, PhaseInv, Quiet, Done, JobTypes, JobStates
<1>2. CASE StartWorkers
  BY <1>2
     DEF StartWorkers, Servers, WaitInv, StartInv, PhaseInv, Quiet, Done, JobTypes,
         JobStates
<1>3. CASE Close
  BY <1>3 DEF Close, Servers, WaitInv, StartInv, PhaseInv, Quiet, Done, JobTypes, JobStates
<1>4. CASE Pause \/ Exit
  BY <1>4 DEF Pause, Exit, WaitInv, StartInv, PhaseInv, Quiet, Done, JobTypes, JobStates
<1>5. CASE Restart
  BY <1>5
     DEF Restart, Cleared, NoJob, WaitInv, StartInv, PhaseInv, Quiet, Done, JobTypes,
         JobStates
<1>6. CASE Crash
  BY <1>6
     DEF Crash, Cleared, NoJob, Fault, WaitInv, StartInv, PhaseInv, Quiet, Done,
         JobTypes, JobStates
<1>7. CASE Interrupt
  BY <1>7 DEF Interrupt, WaitInv, StartInv, PhaseInv, Quiet, Done, JobTypes, JobStates
<1>8. CASE ConnectFails \/ ConfigureFails
  BY <1>8
     DEF ConnectFails, ConfigureFails, Fault, WaitInv, StartInv, PhaseInv, Quiet, Done,
         JobTypes, JobStates
<1>9. CASE \E j \in Jobs : ResumeJob(j)
  BY <1>9
     DEF ResumeJob, StartJob, NoJob, WaitInv, StartInv, PhaseInv, Quiet, Done, JobTypes,
         JobStates
<1>10. CASE \E j \in Jobs : ReloadJob(j)
  BY <1>10
     DEF ReloadJob, StartJob, NoJob, WaitInv, StartInv, PhaseInv, Quiet, Done, JobTypes,
         JobStates
<1>11. CASE ResumeDone
  BY <1>11 DEF ResumeDone, WaitInv, StartInv, PhaseInv, Quiet, Done, JobTypes, JobStates
<1>12. CASE ReloadDone
  BY <1>12 DEF ReloadDone, WaitInv, StartInv, PhaseInv, Quiet, Done, JobTypes, JobStates
<1>13. CASE StartJobsFails
  BY <1>13
     DEF StartJobsFails, Fault, WaitInv, StartInv, PhaseInv, Quiet, Done, JobTypes,
         JobStates
<1>14. CASE JobErrorReceived
  BY <1>14
     DEF JobErrorReceived, IndexerReturns, Fault, WaitInv, StartInv, PhaseInv, Quiet,
         Done, JobTypes, JobStates
<1>15. CASE AllJobsEnded
  BY <1>15
     DEF AllJobsEnded, IndexerReturns, Fault, WaitInv, StartInv, PhaseInv, Quiet, Done,
         JobTypes, JobStates
<1>16. CASE Drained
  BY <1>16
     DEF Drained, IndexerReturns, Fault, WaitInv, StartInv, PhaseInv, Quiet, Done,
         JobTypes, JobStates
<1>17. CASE ShutDown
  BY <1>17 DEF ShutDown, WaitInv, StartInv, PhaseInv, Quiet, Done, JobTypes, JobStates
<1>18. CASE \E j \in Jobs : WaitFor(j)
  BY <1>18
     DEF WaitFor, WaiterStep, WaitInv, StartInv, PhaseInv, Quiet, Done, JobTypes,
         JobStates
<1>19. CASE JobWaited
  BY <1>19
     DEF JobWaited, WaiterStep, WaitInv, StartInv, PhaseInv, Quiet, Done, JobTypes,
         JobStates
<1>20. CASE WaitClosed
  BY <1>20
     DEF WaitClosed, WaiterStep, WaitInv, StartInv, PhaseInv, Quiet, Done, JobTypes,
         JobStates
<1>21. CASE \E j \in Jobs : JobCommit(j)
  BY <1>21 DEF JobCommit, WaitInv, StartInv, PhaseInv, Quiet, Done, JobTypes, JobStates
<1>22. CASE \E j \in Jobs : JobFails(j) \/ JobCancelled(j)
  BY <1>22
     DEF JobFails, JobCancelled, JobReturns, Fault, WaitInv, StartInv, PhaseInv, Quiet,
         Done, JobTypes, JobStates
<1>23. CASE \E j \in Jobs : CancelAll(j)
  BY <1>23, CancelAllEffect
     DEF WaitInv, StartInv, PhaseInv, Quiet, Done, JobTypes, JobStates
<1>24. CASE \E s \in Servers : ServerStops(s) \/ ServerFails(s)
  BY <1>24, ServerEffect DEF WaitInv, StartInv, PhaseInv, Quiet, Done, JobTypes, JobStates
<1>25. QED
  BY <1>0, <1>1, <1>2, <1>3, <1>4, <1>5, <1>6, <1>7, <1>8, <1>9, <1>10, <1>11, <1>12,
     <1>13, <1>14, <1>15, <1>16, <1>17, <1>18, <1>19, <1>20, <1>21, <1>22, <1>23, <1>24
     DEF Next, MainStep, IndexerStep, WaitStep, JobEnds

LEMMA AppInvStep == AppInv /\ [Next]_vars => AppInv'
BY JobTypesStep, PhaseInvStep, StartInvStep, WaitInvStep DEF AppInv

LEMMA AppInvariant == Spec => []AppInv
BY InitInv, AppInvStep, PTL DEF Spec

(* No job goes on when StartApplication has closed the database, unless it *)
(* has been told to end.                                                   *)
THEOREM ClosedDatabaseHasNoLiveJob == Spec => []NoLiveJobOnClosedDatabase
<1>1. AppInv => NoLiveJobOnClosedDatabase
  BY DEF AppInv, PhaseInv, NoLiveJobOnClosedDatabase, JobDone
<1>2. QED
  BY <1>1, AppInvariant, PTL

(* RunIndexer returns quietly only when all its jobs have ended. *)
THEOREM QuietReturnIsLast == Spec => []QuietReturnLeavesNoJob
<1>1. AppInv => QuietReturnLeavesNoJob
  BY DEF AppInv, WaitInv, Quiet, QuietReturnLeavesNoJob
<1>2. QED
  BY <1>1, AppInvariant, PTL

(* A job with progress is started from it, over restarts and crashes. *)
THEOREM JobsResume == Spec => ProgressResumed
<1> DEFINE Resumes(j) ==
      job[j].at # "running" /\ job'[j].at = "running" /\ stored[j] # NoBlock
        => job'[j].from = stored[j]
<1>1. AppInv /\ [Next]_vars => [\A j \in Jobs : Resumes(j)]_vars
  <2> SUFFICES ASSUME AppInv, Next, NEW j \in Jobs PROVE Resumes(j)
    OBVIOUS
  <2> USE DEF AppInv, mainVars, jobVars
  <2>1. CASE \E k \in Jobs : ResumeJob(k)
    BY <2>1 DEF ResumeJob, StartJob, NoJob, JobTypes
  <2>2. CASE \E k \in Jobs : ReloadJob(k)
    BY <2>2 DEF ReloadJob, StartJob, NoJob, JobTypes, StartInv
  <2>3. CASE \E k \in Jobs : JobFails(k) \/ JobCancelled(k)
    BY <2>3 DEF JobFails, JobCancelled, JobReturns, JobTypes, JobStates
  <2>4. CASE \E k \in Jobs : CancelAll(k)
    BY <2>4, CancelAllEffect
  <2>5. CASE Restart \/ Crash
    BY <2>5 DEF Restart, Crash, Cleared, NoJob
  <2>6. CASE \/ NewDB \/ StartWorkers \/ Close \/ Pause \/ Exit \/ Interrupt
             \/ ConnectFails \/ ConfigureFails \/ StartJobsFails
    BY <2>6 DEF NewDB, StartWorkers, Close, Pause, Exit, Interrupt, ConnectFails,
                ConfigureFails, StartJobsFails
  <2>7. CASE \/ ResumeDone \/ ReloadDone \/ ShutDown
             \/ JobErrorReceived \/ AllJobsEnded \/ Drained \/ WaitStep
    BY <2>7 DEF ResumeDone, ReloadDone, ShutDown, JobErrorReceived, AllJobsEnded, Drained,
                IndexerReturns, WaitStep, WaitFor, JobWaited, WaitClosed, WaiterStep
  <2>8. CASE \E k \in Jobs : JobCommit(k)
    BY <2>8 DEF JobCommit
  <2>9. CASE \E s \in Servers : ServerStops(s) \/ ServerFails(s)
    BY <2>9, ServerEffect
  <2>10. QED
    BY <2>1, <2>2, <2>3, <2>4, <2>5, <2>6, <2>7, <2>8, <2>9
       DEF Next, MainStep, IndexerStep, JobEnds
<1>2. QED
  BY <1>1, AppInvariant, PTL DEF Spec, ProgressResumed

-----------------------------------------------------------------------------
(***************************************************************************)
(* Types.                                                                  *)
(***************************************************************************)

(* The part of TypeOK that the argument above does without. *)
ControlTypes ==
  /\ dbOpen \in BOOLEAN
  /\ phase \in {"init", "configure", "run", "returned", "pause", "stopped"}
  /\ indexer \in {"none", "resume", "reload", "wait", "drain", "returned"}
  /\ servers \in SUBSET Servers
  /\ waiter \in WaiterStates
  /\ faults \in 0..MaxFaults

(* A call that fails stays within the bound. *)
LEMMA FaultBound ==
  ASSUME ControlTypes, Fault \/ UNCHANGED faults
  PROVE  faults' \in 0..MaxFaults
BY BlockAssumption DEF ControlTypes, Fault

(* The states that the goroutine of Wait takes. *)
LEMMA WaiterTypes ==
  /\ \A at \in {"none", "sending", "closed"} : [at |-> at] \in WaiterStates
  /\ \A todo \in SUBSET Jobs : [at |-> "pick", todo |-> todo] \in WaiterStates
  /\ \A todo \in SUBSET Jobs, j \in Jobs :
       [at |-> "on", todo |-> todo, on |-> j] \in WaiterStates
BY DEF WaiterStates

LEMMA WaiterFields ==
  ASSUME ControlTypes
  PROVE  /\ waiter.at \in {"pick", "on"} => waiter.todo \in SUBSET Jobs
         /\ waiter.at = "on" => waiter.on \in Jobs
<1>1. CASE waiter \in [at : {"none", "sending", "closed"}]
  BY <1>1
<1>2. CASE waiter \in [at : {"pick"}, todo : SUBSET Jobs]
  BY <1>2
<1>3. CASE waiter \in [at : {"on"}, todo : SUBSET Jobs, on : Jobs]
  BY <1>3
<1>4. QED
  BY <1>1, <1>2, <1>3 DEF ControlTypes, WaiterStates

LEMMA ControlTypesStep == ASSUME JobTypes, ControlTypes, [Next]_vars PROVE ControlTypes'
<1> USE DEF mainVars, jobVars
<1>1. CASE UNCHANGED vars
  BY <1>1 DEF vars, ControlTypes
<1>2. CASE NewDB \/ StartWorkers \/ Close \/ Pause \/ Exit \/ Interrupt
  BY <1>2 DEF NewDB, StartWorkers, Close, Pause, Exit, Interrupt, ControlTypes
<1>3. CASE Restart \/ Crash
  <2>1. waiter' \in WaiterStates
    BY <1>3, WaiterTypes DEF Restart, Crash, Cleared
  <2>2. faults' \in 0..MaxFaults
    BY <1>3, FaultBound DEF Restart, Crash
  <2>3. QED
    BY <1>3, <2>1, <2>2 DEF Restart, Crash, Cleared, ControlTypes
<1>4. CASE ConnectFails \/ ConfigureFails \/ StartJobsFails
  <2>1. faults' \in 0..MaxFaults
    BY <1>4, FaultBound DEF ConnectFails, ConfigureFails, StartJobsFails
  <2>2. QED
    BY <1>4, <2>1 DEF ConnectFails, ConfigureFails, StartJobsFails, ControlTypes
<1>5. CASE \E j \in Jobs : ResumeJob(j) \/ ReloadJob(j)
  BY <1>5 DEF ResumeJob, ReloadJob, StartJob, ControlTypes
<1>6. CASE ResumeDone
  BY <1>6 DEF ResumeDone, ControlTypes
<1>7. CASE ReloadDone \/ ShutDown
  <2>1. waiter' \in WaiterStates
    BY <1>7, WaiterTypes DEF ReloadDone, ShutDown, JobTypes
  <2>2. QED
    BY <1>7, <2>1 DEF ReloadDone, ShutDown, ControlTypes
<1>8. CASE JobErrorReceived \/ AllJobsEnded \/ Drained
  <2>1. PICK err \in BOOLEAN : IndexerReturns(err)
    BY <1>8 DEF JobErrorReceived, AllJobsEnded, Drained
  <2>2. waiter' \in WaiterStates
    BY <2>1, WaiterTypes DEF IndexerReturns
  <2>3. faults' \in 0..MaxFaults
    BY <2>1, FaultBound DEF IndexerReturns
  <2>4. QED
    BY <2>1, <2>2, <2>3 DEF IndexerReturns, ControlTypes
<1>9. CASE WaitStep
  <2>1. PICK w \in WaiterStates : WaiterStep(w)
    <3>1. ASSUME NEW j \in Jobs, WaitFor(j)
          PROVE  \E w \in WaiterStates : WaiterStep(w)
      BY <3>1, WaiterTypes, WaiterFields DEF WaitFor
    <3>2. CASE JobWaited
      <4>1. waiter.todo \ {waiter.on} \in SUBSET Jobs
        BY <3>2, WaiterFields DEF JobWaited
      <4>2. QED
        BY <3>2, <4>1, WaiterTypes DEF JobWaited
    <3>3. CASE WaitClosed
      BY <3>3, WaiterTypes DEF WaitClosed
    <3>4. QED
      BY <1>9, <3>1, <3>2, <3>3 DEF WaitStep
  <2>2. QED
    BY <2>1 DEF WaiterStep, ControlTypes
<1>10. CASE \E j \in Jobs : JobEnds(j) \/ JobCommit(j) \/ JobFails(j)
  <2>1. /\ UNCHANGED <<dbOpen, phase, indexer, servers, waiter>>
        /\ Fault \/ UNCHANGED faults
    BY <1>10 DEF JobEnds, JobCancelled, CancelAll, JobCommit, JobFails, JobReturns
  <2>2. QED
    BY <2>1, FaultBound DEF ControlTypes
<1>11. CASE \E s \in Servers : ServerStops(s) \/ ServerFails(s)
  <2>1. /\ UNCHANGED <<dbOpen, phase, indexer, waiter>> /\ servers' \subseteq servers
        /\ Fault \/ UNCHANGED faults
    BY <1>11 DEF ServerStops, ServerFails
  <2>2. QED
    BY <2>1, FaultBound DEF ControlTypes
<1>12. QED
  BY <1>1, <1>2, <1>3, <1>4, <1>5, <1>6, <1>7, <1>8, <1>9, <1>10, <1>11
     DEF Next, MainStep, IndexerStep

(* The variables keep their types, whatever fails and however often the    *)
(* process is started again.                                               *)
THEOREM ApplicationTypeCorrect == Spec => []TypeOK
<1>1. Init => ControlTypes
  <2>1. 0 \in 0..MaxFaults
    BY BlockAssumption
  <2>2. [at |-> "none"] \in WaiterStates
    BY WaiterTypes
  <2>3. QED
    BY <2>1, <2>2 DEF Init, ControlTypes
<1>2. AppInv /\ ControlTypes /\ [Next]_vars => ControlTypes'
  BY ControlTypesStep DEF AppInv
<1>3. AppInv /\ ControlTypes => TypeOK
  BY DEF AppInv, JobTypes, ControlTypes, TypeOK
<1>4. QED
  BY <1>1, <1>2, <1>3, AppInvariant, PTL DEF Spec
=============================================================================
