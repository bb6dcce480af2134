------------------------------- MODULE Daemon --------------------------------
(***************************************************************************)
(* The daemon's two users of the GPU: the serve of ServeManager, and the   *)
(* conversions of CheckpointManager (daemon/checkpoint.py), started by a   *)
(* route that stops the serve first (daemon/app.py).  The routes hand      *)
(* their calls to a pool of one thread, so two calls never overlap, but    *)
(* others may run between the two calls of one route.                      *)
(***************************************************************************)
EXTENDS ServeManager

CONSTANTS
    JobIds,         \* ids clients give to conversions
    MaxJobs         \* bound on conversions

ASSUME DaemonAssumption == MaxJobs \in Nat /\ JobIds # {}

VARIABLES
    route,          \* checkpoint_start: none, stopping the serve, or stopped
    job,            \* _job: its id, its state, and the conversion it stands for
    conversions,    \* conversion processes that are alive
    job_of,         \* the job id each conversion was started for
    conv_monitor    \* where the monitor thread of each conversion is

checkpointVars == <<job, conversions, job_of, conv_monitor>>
vars == <<managerVars, route, checkpointVars>>

Jobs == 1 .. MaxJobs
NoJob == [id |-> "none", state |-> "none", conv |-> None]

InitDaemon ==
    /\ Init
    /\ route = "none"
    /\ job = NoJob
    /\ conversions = {}
    /\ job_of = [n \in Jobs |-> "none"]
    /\ conv_monitor = [n \in Jobs |-> "none"]

\* The pool's thread is free; an auto-restart has a thread of its own.
PoolFree == up /\ op.kind \in {"none", "auto"}

\* engine_start, engine_stop, engine_switch and shutdown_daemon; and whatever the
\* manager does next.  checkpoint_start goes on when its stop returned.
Manager ==
    /\ ManagerStep \/ Calls
    /\ route' = IF route = "stopping" /\ op'.kind = "none"
                THEN (IF stopped' THEN "stopped" ELSE "none") ELSE route
    /\ UNCHANGED checkpointVars

CheckpointStopsServe ==
    /\ route = "none"
    /\ Stop("stop", FALSE)
    /\ route' = IF op'.kind = "none" THEN "stopped" ELSE "stopping"
    /\ UNCHANGED checkpointVars

\* CheckpointManager.start: refused while a job runs, or while the child of a
\* cancelled one has not been reaped.
Terminating == FALSE
StillTerminating == job.conv # None /\ conv_monitor[job.conv] \notin {"reaped", "done"}

Refused == job.state = "running" \/ StillTerminating

CheckpointStart(id) ==
    /\ route = "stopped" /\ PoolFree
    /\ route' = "none"
    /\ IF Refused THEN UNCHANGED checkpointVars
       ELSE \E n \in Jobs :
              /\ conv_monitor[n] = "none" /\ \A k \in Jobs : k < n => conv_monitor[k] # "none"
              /\ job' = [id |-> id, state |-> "running", conv |-> n]
              /\ conversions' = conversions \cup {n}
              /\ job_of' = [job_of EXCEPT ![n] = id]
              /\ conv_monitor' = [conv_monitor EXCEPT ![n] = "wait"]
    /\ UNCHANGED managerVars

\* The bound on conversions is reached, or the spawn failed.
CheckpointStartFails ==
    /\ route = "stopped" /\ PoolFree
    /\ route' = "none"
    /\ IF Refused THEN UNCHANGED job ELSE job' = NoJob
    /\ UNCHANGED <<managerVars, conversions, job_of, conv_monitor>>

\* cancel: SIGTERM and, after the grace, SIGKILL; the process exits in its time.
CheckpointCancel(id) ==
    /\ PoolFree
    /\ job.state = "running" /\ job.id = id
    /\ job' = [job EXCEPT !.state = "cancelled"]
    /\ UNCHANGED <<managerVars, route, conversions, job_of, conv_monitor>>

ConversionExits(n) ==
    /\ n \in conversions
    /\ conversions' = conversions \ {n}
    /\ UNCHANGED <<managerVars, route, job, job_of, conv_monitor>>

\* _monitor: child.reaped is set first, the job's state follows under the lock.
ConversionReaped(n) ==
    /\ up /\ n \notin conversions
    /\ conv_monitor[n] = "wait"
    /\ conv_monitor' = [conv_monitor EXCEPT ![n] = "reaped"]
    /\ UNCHANGED <<managerVars, route, job, conversions, job_of>>

JobEnds(n) ==
    /\ up
    /\ conv_monitor[n] = "reaped"
    /\ conv_monitor' = [conv_monitor EXCEPT ![n] = "done"]
    /\ job' = IF job.id = job_of[n] /\ job.state # "cancelled"
              THEN [job EXCEPT !.state = "done"] ELSE job
    /\ UNCHANGED <<managerVars, route, conversions, job_of>>

\* A conversion outlives the daemon, and no daemon re-attaches to it.
GoesDown ==
    /\ DaemonDown
    /\ route' = "none"
    /\ job' = NoJob
    /\ conv_monitor' = [n \in Jobs |-> IF conv_monitor[n] = "none" THEN "none" ELSE "done"]
    /\ UNCHANGED <<conversions, job_of>>

BootsAgain == Boot /\ UNCHANGED <<route, checkpointVars>>

NextDaemon ==
    \/ Manager \/ CheckpointStopsServe \/ CheckpointStartFails
    \/ \E id \in JobIds : CheckpointStart(id) \/ CheckpointCancel(id)
    \/ \E n \in Jobs : ConversionExits(n) \/ ConversionReaped(n) \/ JobEnds(n)
    \/ GoesDown \/ BootsAgain

SpecDaemon == InitDaemon /\ [][NextDaemon]_vars

-----------------------------------------------------------------------------
\* Conversions this daemon watches.
Watched == {n \in conversions : conv_monitor[n] # "done"}

\* "no two GPU conversions at once" (checkpoint.py:83-84): a cancelled conversion
\* keeps the GPU until it is gone.
OneConversion == Cardinality(Watched) <= 1

\* At most one serve and at most one conversion.
OneOfEach == OneServe /\ OneConversion

\* "GPU exclusivity (a convert needs the GPU, so the caller stops the serve
\* first) is enforced at the route layer (app.py)" (checkpoint.py:1-3).
GpuExclusive == Watched # {} => serves \subseteq lost
==============================================================================
