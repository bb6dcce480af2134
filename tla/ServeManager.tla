---------------------------- MODULE ServeManager -----------------------------
(***************************************************************************)
(* ServeManager (daemon/serve_manager.py) with its accounting outbox       *)
(* (daemon/accounting.py) and its state file (daemon/pidfile.py): the      *)
(* daemon that spawns a serve, stops it once its final receipt is durable, *)
(* reaps it, restarts it after a crash, and re-adopts it after the daemon  *)
(* itself went down.                                                       *)
(*                                                                         *)
(* A generation is one spawned serve process; pid and start time, which    *)
(* the code compares, identify it.  One lifecycle transaction runs at a    *)
(* time (the _lifecycle lock), so the waits on _starting never wait and    *)
(* are left out; each monitor thread and each process interleaves with it. *)
(***************************************************************************)
EXTENDS Naturals, FiniteSets

CONSTANTS
    MaxSpawns,      \* bound on generations
    MaxCrashes,     \* bound on the times the daemon goes down
    AutoRestart     \* --auto-restart

ASSUME ServeManagerAssumption ==
    MaxSpawns \in Nat \ {0} /\ MaxCrashes \in Nat /\ AutoRestart \in BOOLEAN

VARIABLES
    up,                 \* the daemon runs
    crashes,            \* how often it went down
    child,              \* _child, or None
    stopping,           \* _stopping
    stop_requested,     \* _stop_requested
    shutdown_requested, \* _shutdown_requested
    durable,            \* _durable_accounting
    op,                 \* the transaction that holds _lifecycle
    restarts,           \* auto-restart threads that wait for it, by the dead generation
    monitor,            \* where the monitor thread of each generation is
    was_stopping,       \* what _reap read first
    spawned,            \* generations so far
    serves,             \* serve processes that are alive
    record,             \* the generation in the state file, or None
    outbox,             \* receipts
    \* history:
    own,                \* generations this daemon spawned or re-adopted
    unaccounted,        \* generations whose crash receipt could not be written
    lost,               \* serves alive without a record when the daemon went down
    stopped             \* a stop or shutdown succeeded and no client start followed

memory == <<child, stopping, stop_requested, shutdown_requested, durable>>
disk == <<record, outbox>>
history == <<own, unaccounted, lost, stopped>>
managerVars == <<up, crashes, memory, op, restarts, monitor, was_stopping, spawned, serves, disk,
                 history>>

None == 0
Gens == 1 .. MaxSpawns
Idle == [kind |-> "none", pc |-> "none", gen |-> None, force |-> FALSE]

Init ==
    /\ up = TRUE
    /\ crashes = 0
    /\ child = None
    /\ stopping = FALSE
    /\ stop_requested = FALSE
    /\ shutdown_requested = FALSE
    /\ durable = {}
    /\ op = Idle
    /\ restarts = {}
    /\ monitor = [g \in Gens |-> "none"]
    /\ was_stopping = [g \in Gens |-> FALSE]
    /\ spawned = 0
    /\ serves = {}
    /\ record = None
    /\ outbox = {}
    /\ own = {}
    /\ unaccounted = {}
    /\ lost = {}
    /\ stopped = FALSE

At(pc) == up /\ op.pc = pc
Goto(pc) == op' = [op EXCEPT !.pc = pc]

\* child.reaped is set.
Reaped(g) == monitor[g] \in {"reaped", "done"}

-----------------------------------------------------------------------------
(* start, and the second half of switch.                                   *)

\* A serve that is not being stopped: start is idempotent or a Conflict.
Running == child # None /\ ~stopping

\* _start by a client: it takes back an earlier stop.
StartChecks(kind) ==
    /\ IF shutdown_requested
       THEN UNCHANGED <<stop_requested, stopped>> /\ op' = Idle
       ELSE /\ stop_requested' = FALSE
            /\ stopped' = FALSE
            /\ op' = IF Running THEN Idle ELSE [Idle EXCEPT !.kind = kind, !.pc = "spawn"]
    /\ UNCHANGED <<up, crashes, child, stopping, shutdown_requested, durable, restarts, monitor,
                   was_stopping, spawned, serves, disk, own, unaccounted, lost>>

Start == At("none") /\ StartChecks("start")

SwitchStarts == At("start") /\ StartChecks("switch")

\* _start from an auto-restart thread: it honours a stop and a shutdown.
honours_nothing == ~Running
honours == ~shutdown_requested /\ ~stop_requested /\ ~Running

AutoStart(g) ==
    /\ At("none")
    /\ g \in restarts
    /\ restarts' = restarts \ {g}
    /\ op' = IF honours THEN [Idle EXCEPT !.kind = "auto", !.pc = "spawn"] ELSE Idle
    /\ UNCHANGED <<up, crashes, memory, monitor, was_stopping, spawned, serves, disk, history>>

Spawn ==
    /\ At("spawn") /\ spawned < MaxSpawns
    /\ spawned' = spawned + 1
    /\ serves' = serves \cup {spawned'}
    /\ op' = [op EXCEPT !.pc = "install", !.gen = spawned']
    /\ own' = own \cup {spawned'}
    /\ UNCHANGED <<up, crashes, memory, restarts, monitor, was_stopping, disk, unaccounted, lost,
                   stopped>>

SpawnFails ==
    /\ At("spawn")
    /\ op' = Idle
    /\ UNCHANGED <<up, crashes, memory, restarts, monitor, was_stopping, spawned, serves, disk,
                   history>>

Install ==
    /\ At("install")
    /\ child' = op.gen
    /\ stopping' = FALSE
    /\ Goto("persist")
    /\ UNCHANGED <<up, crashes, stop_requested, shutdown_requested, durable, restarts, monitor,
                   was_stopping, spawned, serves, disk, history>>

\* _persist; a state file that cannot be written ends the start here, with the
\* child installed and nobody watching it.
Persist ==
    /\ At("persist")
    /\ \/ record' = op.gen /\ Goto("watch")
       \/ record' = record /\ op' = Idle
    /\ UNCHANGED <<up, crashes, memory, restarts, monitor, was_stopping, spawned, serves, outbox, history>>

\* _begin_watch
Watch ==
    /\ At("watch")
    /\ monitor' = [monitor EXCEPT ![op.gen] = "wait"]
    /\ op' = Idle
    /\ UNCHANGED <<up, crashes, memory, restarts, was_stopping, spawned, serves, disk, history>>

-----------------------------------------------------------------------------
(* stop, shutdown, and the first half of switch.                           *)

\* _stop has succeeded: switch goes on, the others return.
AfterStop(kind) ==
    IF kind = "switch" THEN op' = [Idle EXCEPT !.kind = kind, !.pc = "start"] /\ UNCHANGED stopped
    ELSE op' = Idle /\ stopped' = TRUE

Stop(kind, force) ==
    /\ At("none")
    /\ stop_requested' = TRUE
    /\ shutdown_requested' = (shutdown_requested \/ kind = "shutdown")
    /\ IF child = None
       THEN AfterStop(kind) /\ UNCHANGED stopping
       ELSE /\ stopping' = TRUE
            /\ op' = [kind |-> kind, pc |-> "prepare", gen |-> child, force |-> force]
            /\ UNCHANGED stopped
    /\ UNCHANGED <<up, crashes, child, durable, restarts, monitor, was_stopping, spawned, serves,
                   disk, own, unaccounted, lost>>

\* _prepare_and_persist_accounting takes _accounting_guard, which the reap of
\* this child then has to wait for.
TakeGuard ==
    /\ At("prepare")
    /\ Goto("preparing")
    /\ UNCHANGED <<up, crashes, memory, restarts, monitor, was_stopping, spawned, serves, disk,
                   history>>

\* A serve that answers seals its totals or, if it is older, reports them; one
\* that does not has a degraded receipt only by force.
MayHaveReceipt == op.gen \in serves \/ op.force

Prepared ==
    /\ At("preparing") /\ MayHaveReceipt
    /\ outbox' = outbox \cup {op.gen}
    /\ durable' = durable \cup {op.gen}
    /\ Goto("signal")
    /\ UNCHANGED <<up, crashes, child, stopping, stop_requested, shutdown_requested, restarts,
                   monitor, was_stopping, spawned, serves, record, history>>

\* The exception handlers of _stop and shutdown: the child can be stopped again,
\* the intent to stop it remains.
retryable == stopping /\ child # op.gen

StopRaises ==
    /\ stopping' = retryable
    /\ shutdown_requested' = (shutdown_requested /\ op.kind # "shutdown")
    /\ op' = Idle
    /\ UNCHANGED <<up, crashes, child, stop_requested, durable, restarts, monitor, was_stopping,
                   spawned, serves, disk, history>>

SkipsReceipt ==
    /\ At("preparing")
    /\ Goto("signal")
    /\ UNCHANGED <<up, crashes, memory, restarts, monitor, was_stopping, spawned, serves, disk,
                   history>>

\* No receipt (without force), or the outbox could not be written.
PrepareFails == At("preparing") /\ StopRaises

Signal ==
    /\ At("signal") /\ ~Reaped(op.gen)
    /\ Goto("term")
    /\ UNCHANGED <<up, crashes, memory, restarts, monitor, was_stopping, spawned, serves, disk,
                   history>>

\* The grace is over: SIGKILL ...
TermTimeout ==
    /\ At("term") /\ ~Reaped(op.gen)
    /\ Goto("kill")
    /\ UNCHANGED <<up, crashes, memory, restarts, monitor, was_stopping, spawned, serves, disk,
                   history>>

\* ... and a process that survives even that.
KillTimeout == At("kill") /\ ~Reaped(op.gen) /\ StopRaises

StopEnds ==
    /\ op.pc \in {"signal", "term", "kill"} /\ up
    /\ Reaped(op.gen)
    /\ AfterStop(op.kind)
    /\ UNCHANGED <<up, crashes, memory, restarts, monitor, was_stopping, spawned, serves, disk,
                   own, unaccounted, lost>>

-----------------------------------------------------------------------------
(* Processes, and the monitor thread of each: _monitor and _reap.          *)

Exit(g) ==
    /\ g \in serves
    /\ serves' = serves \ {g}
    /\ UNCHANGED <<up, crashes, memory, op, restarts, monitor, was_stopping, spawned, disk, history>>

MonitorAt(g, pc, next) ==
    /\ up
    /\ monitor[g] = pc
    /\ monitor' = [monitor EXCEPT ![g] = next]
    /\ UNCHANGED <<up, crashes, shutdown_requested, op, spawned, serves, own, lost, stopped>>

ReapStarts(g) ==
    /\ g \notin serves
    /\ MonitorAt(g, "wait", "account")
    /\ was_stopping' = [was_stopping EXCEPT ![g] = stopping \/ stop_requested]
    /\ UNCHANGED <<child, stopping, stop_requested, durable, restarts, record, outbox, unaccounted>>

\* _persist_crash_accounting, under _accounting_guard; if it fails no automatic
\* restart may hide the gap.
ReapAccounts(g) ==
    /\ op.pc # "preparing"
    /\ MonitorAt(g, "account", "drop")
    /\ \/ /\ g \notin durable /\ child = g
          /\ outbox' = outbox \cup {g}
          /\ durable' = durable \cup {g}
          /\ UNCHANGED <<stop_requested, unaccounted>>
       \/ /\ g \notin durable /\ child = g
          /\ stop_requested' = TRUE
          /\ unaccounted' = unaccounted \cup {g}
          /\ UNCHANGED <<outbox, durable>>
       \/ /\ g \in durable \/ child # g
          /\ UNCHANGED <<outbox, durable, stop_requested, unaccounted>>
    /\ UNCHANGED <<child, stopping, restarts, was_stopping, record>>

ReapDrops(g) ==
    /\ MonitorAt(g, "drop", IF child = g THEN "clear" ELSE "reaped")
    /\ child' = IF child = g THEN None ELSE child
    /\ stopping' = (stopping /\ child # g)
    /\ UNCHANGED <<stop_requested, durable, restarts, was_stopping, record, outbox, unaccounted>>

\* The state file is cleared before the waiters of child.reaped wake up.
ReapClears(g) ==
    /\ MonitorAt(g, "clear", "reaped")
    /\ record' = None
    /\ UNCHANGED <<child, stopping, stop_requested, durable, restarts, was_stopping, outbox,
                   unaccounted>>

ReapRestarts(g) ==
    /\ MonitorAt(g, "reaped", "done")
    /\ restarts' = IF AutoRestart /\ ~was_stopping[g] /\ ~stop_requested
                   THEN restarts \cup {g} ELSE restarts
    /\ was_stopping' = [was_stopping EXCEPT ![g] = FALSE]
    /\ UNCHANGED <<child, stopping, stop_requested, durable, record, outbox, unaccounted>>

-----------------------------------------------------------------------------
(* The daemon goes down, by a crash or a detach, and boots again.          *)

DaemonDown ==
    /\ up /\ crashes < MaxCrashes
    /\ up' = FALSE
    /\ crashes' = crashes + 1
    /\ child' = None /\ stopping' = FALSE
    /\ stop_requested' = FALSE /\ shutdown_requested' = FALSE
    /\ durable' = {}
    /\ op' = Idle
    /\ restarts' = {}
    /\ monitor' = [g \in Gens |-> "none"]
    /\ was_stopping' = [g \in Gens |-> FALSE]
    /\ own' = {}
    /\ lost' = lost \cup (serves \ {record})
    /\ UNCHANGED <<spawned, serves, disk, unaccounted, stopped>>

\* readopt: a recorded serve that is still that process; any other record goes.
Boot ==
    /\ ~up
    /\ up' = TRUE
    /\ IF record \in serves
       THEN /\ child' = record /\ own' = {record}
            /\ monitor' = [monitor EXCEPT ![record] = "wait"] /\ UNCHANGED record
       ELSE record' = None /\ UNCHANGED <<child, own, monitor>>
    /\ UNCHANGED <<crashes, stopping, stop_requested, shutdown_requested, durable, op, restarts,
                   was_stopping, spawned, serves, outbox, unaccounted, lost, stopped>>

-----------------------------------------------------------------------------
ManagerStep ==
    \/ Spawn \/ SpawnFails \/ Install \/ Persist \/ Watch \/ SwitchStarts
    \/ TakeGuard \/ Prepared \/ PrepareFails \/ Signal \/ TermTimeout \/ KillTimeout \/ StopEnds
    \/ \E g \in Gens :
         \/ AutoStart(g) \/ Exit(g)
         \/ ReapStarts(g) \/ ReapAccounts(g) \/ ReapDrops(g) \/ ReapClears(g) \/ ReapRestarts(g)

Calls ==
    \/ Start
    \/ \E kind \in {"stop", "shutdown", "switch"}, force \in BOOLEAN : Stop(kind, force)

Next == ManagerStep \/ Calls \/ DaemonDown \/ Boot

Spec == Init /\ [][Next]_managerVars

-----------------------------------------------------------------------------
\* The serve is the child (running, being reaped, or unwatched because its
\* record could not be written), or is about to be.
InHand(g) == child = g \/ (op.pc = "install" /\ op.gen = g)

\* As long as the daemon that spawned or re-adopted a serve is up: a stop signals
\* it only with its receipt durable, and once it is out of the daemon's hands it
\* has one, however stop, exit and reap were ordered; the only gap is a crash
\* receipt that the outbox refused.  What a crash of the daemon leaves without
\* a receipt is NoUnrecordedGap's.
EndsAreReceipted ==
    /\ op.pc \in {"signal", "term", "kill"} => op.gen \in outbox
    /\ \A g \in own : InHand(g) \/ g \in outbox \cup unaccounted

\* "a daemon/Desktop crash cannot create an unrecorded gap" (accounting.py:4): the
\* record of a serve goes only when there is a receipt of it.  It does not hold:
\* readopt clears the record of a serve that ended while no daemon was up.
NoUnrecordedGap ==
    [][record \notin {None, record'} => record \in outbox' \cup unaccounted']_managerVars

\* Once a stop or a shutdown succeeded no serve runs until a client starts one:
\* no crash restart undoes it (serve_manager.py:226).
StopIsFinal == stopped => serves \subseteq lost

\* The daemon never has two serves on the GPU, failed stops, crashes and
\* restarts included; what a daemon left without a record is not its own.
OneServe == Cardinality(serves \ lost) <= 1
==============================================================================
