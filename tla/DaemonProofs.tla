----------------------------- MODULE DaemonProofs ------------------------------
(***************************************************************************)
(* The daemon for every number of generations, crashes and conversions:    *)
(* the inductive invariant of ServeManager, the properties it gives, and   *)
(* the routes' use of the manager as a refinement of the manager alone.    *)
(***************************************************************************)
EXTENDS Daemon, FiniteSetTheorems, TLAPS

Starting == {"install", "persist", "watch"}
Stopping == {"prepare", "preparing", "signal", "term", "kill"}
Signalled == {"signal", "term", "kill"}
Watching == {"wait", "account", "drop"}
Forgotten == {"clear", "reaped", "done"}

Kinds == {"none", "start", "switch", "auto", "stop", "shutdown"}
Ops == [kind : Kinds, pc : {"none", "start", "spawn"} \cup Starting \cup Stopping,
        gen : Nat, force : BOOLEAN]

ManagerTypes ==
    /\ up \in BOOLEAN /\ stopping \in BOOLEAN /\ stop_requested \in BOOLEAN
    /\ stopped \in BOOLEAN
    /\ spawned \in 0 .. MaxSpawns
    /\ child \in {None} \cup 1 .. spawned
    /\ record \in {None} \cup 1 .. spawned
    /\ serves \subseteq 1 .. spawned
    /\ lost \subseteq 1 .. spawned
    /\ monitor \in [Gens -> {"none"} \cup Watching \cup Forgotten]
    /\ op \in Ops
    /\ op.pc \in Starting \cup Stopping => op.gen \in 1 .. spawned

\* A transaction that starts a serve finds no child, and installs the newest
\* generation; one that stops it keeps the generation it began with.
OpOK ==
    /\ op.pc \in {"spawn", "install"} => child = None
    /\ op.pc = "install" => op.gen = spawned
    /\ op.pc \in {"persist", "watch"} => child = op.gen
    /\ op.pc \in Starting => monitor[op.gen] = "none" /\ op.gen \notin lost
    /\ op.pc \in Stopping => child \in {None, op.gen}
    /\ op.pc \in Stopping => stop_requested
    /\ op.pc \notin Stopping \/ child = None => ~stopping
    /\ op.pc \in Signalled => op.gen \in outbox

\* A generation is watched as the child, and forgotten only after it exited.
MonitorOK ==
    \A g \in Gens :
        /\ g > spawned => monitor[g] = "none"
        /\ monitor[g] \in Watching => child = g
        /\ monitor[g] \in Forgotten => child # g
        /\ monitor[g] \notin {"none", "wait"} => g \notin serves
        /\ monitor[g] = "drop" \/ monitor[g] \in Forgotten => g \in outbox \cup unaccounted

\* Every live serve is the child, the one being started, or recorded while the
\* daemon is down; the others were lost with an earlier daemon.
ServesOK ==
    /\ durable \subseteq outbox
    /\ record \notin lost
    /\ \A g \in serves \ lost :
         IF up THEN child = g \/ (op.pc = "install" /\ op.gen = g) ELSE record = g

\* A daemon that is down has no memory.
DownOK ==
    ~up => /\ op = Idle /\ child = None /\ ~stopping /\ restarts = {}
           /\ \A g \in Gens : monitor[g] = "none"

\* After a successful stop nothing is being started, and what could start a
\* serve by itself either is not there or honours the stop.
StoppedOK ==
    stopped =>
        /\ child = None /\ serves \subseteq lost
        /\ op.pc \notin {"spawn"} \cup Starting
        /\ \/ stop_requested
           \/ restarts = {} /\ \A g \in Gens : monitor[g] = "none"

ManagerInv == ManagerTypes /\ OpOK /\ MonitorOK /\ ServesOK /\ DownOK /\ StoppedOK
-----------------------------------------------------------------------------
\* The records the transactions are made of.
LEMMA IdleOps == Idle \in Ops /\ Idle.pc = "none" /\ Idle.kind = "none"
BY DEF Idle, Ops, Kinds, None

Begin(kind, pc) == [Idle EXCEPT !.kind = kind, !.pc = pc]

\* The transaction of a start, as StartChecks, AutoStart and AfterStop begin it.
LEMMA BeginOps ==
  ASSUME NEW kind \in Kinds, NEW pc \in {"start", "spawn"}
  PROVE  Begin(kind, pc) \in Ops /\ Begin(kind, pc).pc = pc
BY DEF Begin, Idle, Ops, Kinds, None

\* A transaction that goes on keeps its kind and its generation.
LEMMA GotoOps ==
  ASSUME op \in Ops, NEW pc \in Starting \cup Stopping, Goto(pc)
  PROVE  op' \in Ops /\ op'.pc = pc /\ op'.gen = op.gen /\ op'.kind = op.kind
BY DEF Ops, Goto

\* ServeManager.__init__ establishes the invariant.
LEMMA ManagerInit == Init => ManagerInv
<1> SUFFICES ASSUME Init
             PROVE  ManagerInv
  OBVIOUS
<1> USE DEF Init, None, Gens, Starting, Stopping, Signalled, Watching, Forgotten
<1>1. ManagerTypes
  <2>1. spawned \in 0 .. MaxSpawns
    BY ServeManagerAssumption
  <2>2. monitor \in [Gens -> {"none"} \cup Watching \cup Forgotten]
    OBVIOUS
  <2>3. op \in Ops /\ op.pc = "none"
    BY IdleOps
  <2> QED BY <2>1, <2>2, <2>3 DEF ManagerTypes
<1>2. OpOK /\ MonitorOK /\ ServesOK /\ DownOK /\ StoppedOK
  BY IdleOps DEF OpOK, MonitorOK, ServesOK, DownOK, StoppedOK
<1> QED BY <1>1, <1>2 DEF ManagerInv

\* _start by a client, and the second half of switch: it goes on only without a child.
LEMMA StartChecksInv ==
  ASSUME ManagerInv, NEW kind \in Kinds, op.pc \in {"none", "start"}, up, StartChecks(kind)
  PROVE  ManagerInv'
<1> USE ServeManagerAssumption DEF ManagerInv, StartChecks, Running, managerVars, memory, disk,
      history, At, Reaped, None, Gens, Starting, Stopping, Signalled, Watching, Forgotten
<1>0. /\ op' \in Ops /\ op'.pc \in {"none", "spawn"}
      /\ op'.pc = "spawn" => child = None /\ ~stopped'
  <2>1. CASE op' = Idle
    BY <2>1, IdleOps
  <2>2. CASE op' = Begin(kind, "spawn") /\ ~Running /\ stopped' = FALSE
    <3>1. Begin(kind, "spawn") \in Ops /\ Begin(kind, "spawn").pc = "spawn"
      BY BeginOps
    <3>2. child = None /\ ~stopped'
      BY <2>2 DEF OpOK
    <3> QED BY <2>2, <3>1, <3>2
  <2> QED BY <2>1, <2>2 DEF Begin
<1>1. ManagerTypes'
  BY <1>0 DEF ManagerTypes
<1>2. OpOK'
  BY <1>0 DEF OpOK
<1>3. MonitorOK'
  BY <1>0 DEF MonitorOK
<1>4. ServesOK'
  BY <1>0 DEF ServesOK
<1>5. DownOK'
  BY <1>0 DEF DownOK
<1>6. StoppedOK'
  BY <1>0 DEF StoppedOK
<1> QED BY ONLY <1>1, <1>2, <1>3, <1>4, <1>5, <1>6 DEF ManagerInv

\* A new generation is spawned while no serve of this daemon is alive.
LEMMA SpawnInv ==
  ASSUME ManagerInv, Spawn
  PROVE  ManagerInv'
<1> USE ServeManagerAssumption DEF ManagerInv, Spawn, managerVars, memory, disk,
      history, At, Reaped, None, Gens, Starting, Stopping, Signalled, Watching, Forgotten
<1>0. op' \in Ops /\ op'.pc = "install" /\ op'.gen = spawned'
  <2>1. op \in Ops /\ spawned' \in Nat
    BY DEF ManagerTypes
  <2> QED BY <2>1 DEF Ops
<1>1. ManagerTypes'
  BY <1>0 DEF ManagerTypes
<1>2. OpOK'
  BY <1>0 DEF ManagerTypes, OpOK, MonitorOK
<1>3. MonitorOK'
  BY <1>0 DEF ManagerTypes, MonitorOK
<1>4. ServesOK'
  BY <1>0 DEF ServesOK
<1>5. DownOK'
  BY <1>0 DEF DownOK
<1>6. StoppedOK'
  BY <1>0 DEF StoppedOK
<1> QED BY ONLY <1>1, <1>2, <1>3, <1>4, <1>5, <1>6 DEF ManagerInv

\* A spawn that fails leaves nothing behind.
LEMMA SpawnFailsInv ==
  ASSUME ManagerInv, SpawnFails
  PROVE  ManagerInv'
<1> USE ServeManagerAssumption DEF ManagerInv, SpawnFails, managerVars, memory, disk,
      history, At, Reaped, None, Gens, Starting, Stopping, Signalled, Watching, Forgotten
<1>0. op' \in Ops /\ op'.pc = "none"
  BY IdleOps
<1>1. ManagerTypes'
  BY <1>0 DEF ManagerTypes
<1>2. OpOK'
  BY <1>0 DEF OpOK
<1>3. MonitorOK'
  BY <1>0 DEF MonitorOK
<1>4. ServesOK'
  BY <1>0 DEF ServesOK
<1>5. DownOK'
  BY <1>0 DEF DownOK
<1>6. StoppedOK'
  BY <1>0 DEF StoppedOK
<1> QED BY ONLY <1>1, <1>2, <1>3, <1>4, <1>5, <1>6 DEF ManagerInv

\* The newest generation becomes the child, not watched yet.
LEMMA InstallInv ==
  ASSUME ManagerInv, Install
  PROVE  ManagerInv'
<1> USE ServeManagerAssumption DEF ManagerInv, Install, managerVars, memory, disk,
      history, At, Reaped, None, Gens, Starting, Stopping, Signalled, Watching, Forgotten
<1>0. op' \in Ops /\ op'.pc = "persist" /\ op'.gen = op.gen
  BY GotoOps DEF ManagerTypes
<1>1. ManagerTypes'
  BY <1>0 DEF ManagerTypes
<1>2. OpOK'
  BY <1>0 DEF OpOK
<1>3. MonitorOK'
  BY <1>0 DEF OpOK, MonitorOK
<1>4. ServesOK'
  BY <1>0 DEF ManagerTypes, OpOK, ServesOK
<1>5. DownOK'
  BY <1>0 DEF DownOK
<1>6. StoppedOK'
  BY <1>0 DEF StoppedOK
<1> QED BY ONLY <1>1, <1>2, <1>3, <1>4, <1>5, <1>6 DEF ManagerInv

\* The state file names the child, or the start ends with it unwatched.
LEMMA PersistInv ==
  ASSUME ManagerInv, Persist
  PROVE  ManagerInv'
<1> USE ServeManagerAssumption DEF ManagerInv, Persist, managerVars, memory, disk,
      history, At, Reaped, None, Gens, Starting, Stopping, Signalled, Watching, Forgotten
<1>0. /\ op' \in Ops /\ op'.pc \in {"none", "watch"}
      /\ op'.pc = "watch" => op'.gen = op.gen
      /\ record' \in {record, op.gen}
  <2>1. CASE op' = Idle
    BY <2>1, IdleOps
  <2>2. CASE Goto("watch")
    BY <2>2, GotoOps DEF ManagerTypes
  <2> QED BY <2>1, <2>2
<1>1. ManagerTypes'
  BY <1>0 DEF ManagerTypes
<1>2. OpOK'
  BY <1>0 DEF OpOK
<1>3. MonitorOK'
  BY <1>0 DEF MonitorOK
<1>4. ServesOK'
  BY <1>0 DEF OpOK, ServesOK
<1>5. DownOK'
  BY <1>0 DEF DownOK
<1>6. StoppedOK'
  BY <1>0 DEF StoppedOK
<1> QED BY ONLY <1>1, <1>2, <1>3, <1>4, <1>5, <1>6 DEF ManagerInv

\* The monitor thread of the child starts.
LEMMA WatchInv ==
  ASSUME ManagerInv, Watch
  PROVE  ManagerInv'
<1> USE ServeManagerAssumption DEF ManagerInv, Watch, managerVars, memory, disk,
      history, At, Reaped, None, Gens, Starting, Stopping, Signalled, Watching, Forgotten
<1>0. op' \in Ops /\ op'.pc = "none"
  BY IdleOps
<1>1. ManagerTypes'
  BY <1>0 DEF ManagerTypes
<1>2. OpOK'
  BY <1>0 DEF OpOK
<1>3. MonitorOK'
  BY <1>0 DEF ManagerTypes, OpOK, MonitorOK
<1>4. ServesOK'
  BY <1>0 DEF ServesOK
<1>5. DownOK'
  BY <1>0 DEF DownOK
<1>6. StoppedOK'
  BY <1>0 DEF StoppedOK
<1> QED BY ONLY <1>1, <1>2, <1>3, <1>4, <1>5, <1>6 DEF ManagerInv

\* The accounting guard changes only where the transaction is.
LEMMA TakeGuardInv ==
  ASSUME ManagerInv, TakeGuard
  PROVE  ManagerInv'
<1> USE ServeManagerAssumption DEF ManagerInv, TakeGuard, managerVars, memory, disk,
      history, At, Reaped, None, Gens, Starting, Stopping, Signalled, Watching, Forgotten
<1>0. op' \in Ops /\ op'.pc = "preparing" /\ op'.gen = op.gen
  BY GotoOps DEF ManagerTypes
<1>1. ManagerTypes'
  BY <1>0 DEF ManagerTypes
<1>2. OpOK'
  BY <1>0 DEF OpOK
<1>3. MonitorOK'
  BY <1>0 DEF MonitorOK
<1>4. ServesOK'
  BY <1>0 DEF ServesOK
<1>5. DownOK'
  BY <1>0 DEF DownOK
<1>6. StoppedOK'
  BY <1>0 DEF StoppedOK
<1> QED BY ONLY <1>1, <1>2, <1>3, <1>4, <1>5, <1>6 DEF ManagerInv

\* The receipt is in the outbox before the serve can be signalled.
LEMMA PreparedInv ==
  ASSUME ManagerInv, Prepared
  PROVE  ManagerInv'
<1> USE ServeManagerAssumption DEF ManagerInv, Prepared, managerVars, memory, disk,
      history, At, Reaped, None, Gens, Starting, Stopping, Signalled, Watching, Forgotten
<1>0. op' \in Ops /\ op'.pc = "signal" /\ op'.gen = op.gen
  BY GotoOps DEF ManagerTypes
<1>1. ManagerTypes'
  BY <1>0 DEF ManagerTypes
<1>2. OpOK'
  BY <1>0 DEF OpOK
<1>3. MonitorOK'
  BY <1>0 DEF MonitorOK
<1>4. ServesOK'
  BY <1>0 DEF ServesOK
<1>5. DownOK'
  BY <1>0 DEF DownOK
<1>6. StoppedOK'
  BY <1>0 DEF StoppedOK
<1> QED BY ONLY <1>1, <1>2, <1>3, <1>4, <1>5, <1>6 DEF ManagerInv

\* SIGTERM.
LEMMA SignalInv ==
  ASSUME ManagerInv, Signal
  PROVE  ManagerInv'
<1> USE ServeManagerAssumption DEF ManagerInv, Signal, managerVars, memory, disk,
      history, At, Reaped, None, Gens, Starting, Stopping, Signalled, Watching, Forgotten
<1>0. op' \in Ops /\ op'.pc = "term" /\ op'.gen = op.gen
  BY GotoOps DEF ManagerTypes
<1>1. ManagerTypes'
  BY <1>0 DEF ManagerTypes
<1>2. OpOK'
  BY <1>0 DEF OpOK
<1>3. MonitorOK'
  BY <1>0 DEF MonitorOK
<1>4. ServesOK'
  BY <1>0 DEF ServesOK
<1>5. DownOK'
  BY <1>0 DEF DownOK
<1>6. StoppedOK'
  BY <1>0 DEF StoppedOK
<1> QED BY ONLY <1>1, <1>2, <1>3, <1>4, <1>5, <1>6 DEF ManagerInv

\* SIGKILL.
LEMMA TermTimeoutInv ==
  ASSUME ManagerInv, TermTimeout
  PROVE  ManagerInv'
<1> USE ServeManagerAssumption DEF ManagerInv, TermTimeout, managerVars, memory, disk,
      history, At, Reaped, None, Gens, Starting, Stopping, Signalled, Watching, Forgotten
<1>0. op' \in Ops /\ op'.pc = "kill" /\ op'.gen = op.gen
  BY GotoOps DEF ManagerTypes
<1>1. ManagerTypes'
  BY <1>0 DEF ManagerTypes
<1>2. OpOK'
  BY <1>0 DEF OpOK
<1>3. MonitorOK'
  BY <1>0 DEF MonitorOK
<1>4. ServesOK'
  BY <1>0 DEF ServesOK
<1>5. DownOK'
  BY <1>0 DEF DownOK
<1>6. StoppedOK'
  BY <1>0 DEF StoppedOK
<1> QED BY ONLY <1>1, <1>2, <1>3, <1>4, <1>5, <1>6 DEF ManagerInv

\* A failed stop clears _stopping: its child is the one it began with, or gone.
LEMMA StopRaisesInv ==
  ASSUME ManagerInv, StopRaises, up, op.pc \in Stopping
  PROVE  ManagerInv'
<1> USE ServeManagerAssumption DEF ManagerInv, StopRaises, retryable, managerVars, memory, disk,
      history, At, Reaped, None, Gens, Starting, Stopping, Signalled, Watching, Forgotten
<1>0. op' \in Ops /\ op'.pc = "none" /\ ~stopping'
  <2>1. ~stopping'
    <3>1. stopping' = (stopping /\ child # op.gen) /\ child \in {None, op.gen}
      BY DEF OpOK
    <3>2. CASE child = op.gen
      BY <3>1, <3>2
    <3>3. CASE child = None
      BY <3>1, <3>3 DEF OpOK
    <3> QED BY <3>1, <3>2, <3>3
  <2> QED BY <2>1, IdleOps
<1>1. ManagerTypes'
  BY <1>0 DEF ManagerTypes
<1>2. OpOK'
  BY <1>0 DEF OpOK
<1>3. MonitorOK'
  BY <1>0 DEF MonitorOK
<1>4. ServesOK'
  BY <1>0 DEF ServesOK
<1>5. DownOK'
  BY <1>0 DEF DownOK
<1>6. StoppedOK'
  BY <1>0 DEF StoppedOK
<1> QED BY ONLY <1>1, <1>2, <1>3, <1>4, <1>5, <1>6 DEF ManagerInv

\* A reaped generation is not the child, so no serve of this daemon is alive.
LEMMA StopEndsInv ==
  ASSUME ManagerInv, StopEnds
  PROVE  ManagerInv'
<1> USE ServeManagerAssumption DEF ManagerInv, StopEnds, managerVars, memory, disk,
      history, At, Reaped, None, Gens, Starting, Stopping, Signalled, Watching, Forgotten
<1>0. /\ op' \in Ops /\ op'.pc \in {"none", "start"}
      /\ stopped' \in BOOLEAN /\ child = None
  <2>1. op.gen \in Gens /\ child \in {None, op.gen}
    BY DEF ManagerTypes, OpOK
  <2>2. child = None
    BY <2>1 DEF MonitorOK
  <2>3. CASE op.kind = "switch"
    <3>1. op' = Begin("switch", "start") /\ stopped' = stopped
      BY <2>3 DEF AfterStop, Begin
    <3> QED BY <2>2, <3>1, BeginOps DEF ManagerTypes, Kinds
  <2>4. CASE op.kind # "switch"
    BY <2>2, <2>4, IdleOps DEF AfterStop
  <2> QED BY <2>3, <2>4
<1>1. ManagerTypes'
  BY <1>0 DEF ManagerTypes
<1>2. OpOK'
  BY <1>0 DEF OpOK
<1>3. MonitorOK'
  BY <1>0 DEF MonitorOK
<1>4. ServesOK'
  BY <1>0 DEF ServesOK
<1>5. DownOK'
  BY <1>0 DEF DownOK
<1>6. StoppedOK'
  BY <1>0 DEF ManagerTypes, OpOK, ServesOK, StoppedOK
<1> QED BY ONLY <1>1, <1>2, <1>3, <1>4, <1>5, <1>6 DEF ManagerInv

\* A stop with no child succeeds at once; otherwise it works on the child.
LEMMA StopInv ==
  ASSUME ManagerInv, NEW kind \in {"stop", "shutdown", "switch"}, NEW force \in BOOLEAN,
         Stop(kind, force)
  PROVE  ManagerInv'
<1> USE ServeManagerAssumption DEF ManagerInv, Stop, managerVars, memory, disk,
      history, At, Reaped, None, Gens, Starting, Stopping, Signalled, Watching, Forgotten
<1>0. /\ op' \in Ops /\ op'.pc \in {"none", "start", "prepare"}
      /\ stopped' \in BOOLEAN
      /\ op'.pc = "prepare" => op'.gen = child /\ child # None /\ stopped' = stopped
      /\ op'.pc # "prepare" => child = None /\ stopping' = stopping
  <2>1. CASE child = None /\ kind = "switch"
    <3>1. op' = Begin("switch", "start") /\ stopped' = stopped /\ stopping' = stopping
      BY <2>1 DEF AfterStop, Begin
    <3> QED BY <2>1, <3>1, BeginOps DEF ManagerTypes, Kinds
  <2>2. CASE child = None /\ kind # "switch"
    BY <2>2, IdleOps DEF AfterStop
  <2>3. CASE child # None
    <3>1. child \in Nat /\ stopped' = stopped /\ stopped \in BOOLEAN
      BY <2>3 DEF ManagerTypes
    <3>2. op' = [kind |-> kind, pc |-> "prepare", gen |-> child, force |-> force]
      BY <2>3
    <3> QED BY <2>3, <3>1, <3>2 DEF Ops, Kinds
  <2> QED BY <2>1, <2>2, <2>3
<1>1. ManagerTypes'
  BY <1>0 DEF ManagerTypes
<1>2. OpOK'
  BY <1>0 DEF OpOK
<1>3. MonitorOK'
  BY <1>0 DEF MonitorOK
<1>4. ServesOK'
  BY <1>0 DEF ServesOK
<1>5. DownOK'
  BY <1>0 DEF DownOK
<1>6. StoppedOK'
  <2>1. child = None => \A g \in serves : g \in lost
    BY DEF ManagerTypes, ServesOK
  <2>2. CASE op'.pc = "prepare"
    BY <1>0, <2>2 DEF StoppedOK
  <2>3. CASE op'.pc # "prepare"
    BY <1>0, <2>1, <2>3 DEF StoppedOK
  <2> QED BY <2>2, <2>3
<1> QED BY ONLY <1>1, <1>2, <1>3, <1>4, <1>5, <1>6 DEF ManagerInv

\* An automatic restart goes on only when no stop was asked for, so after none succeeded.
LEMMA AutoStartInv ==
  ASSUME ManagerInv, NEW g \in Gens, AutoStart(g)
  PROVE  ManagerInv'
<1> USE ServeManagerAssumption DEF ManagerInv, AutoStart, managerVars, memory, disk,
      history, At, Reaped, None, Gens, Starting, Stopping, Signalled, Watching, Forgotten
<1>0. /\ op' \in Ops /\ op'.pc \in {"none", "spawn"}
      /\ op'.pc = "spawn" => child = None /\ ~stop_requested
  <2>1. CASE op' = Idle
    BY <2>1, IdleOps
  <2>2. CASE op' = Begin("auto", "spawn") /\ honours
    BY <2>2, BeginOps DEF OpOK, honours, Running, Kinds
  <2> QED BY <2>1, <2>2 DEF Begin
<1>1. ManagerTypes'
  BY <1>0 DEF ManagerTypes
<1>2. OpOK'
  BY <1>0 DEF OpOK
<1>3. MonitorOK'
  BY <1>0 DEF MonitorOK
<1>4. ServesOK'
  BY <1>0 DEF ServesOK
<1>5. DownOK'
  BY <1>0 DEF DownOK
<1>6. StoppedOK'
  BY <1>0 DEF StoppedOK
<1> QED BY ONLY <1>1, <1>2, <1>3, <1>4, <1>5, <1>6 DEF ManagerInv

\* A serve may exit in any state.
LEMMA ExitInv ==
  ASSUME ManagerInv, NEW g \in Gens, Exit(g)
  PROVE  ManagerInv'
<1> USE ServeManagerAssumption DEF ManagerInv, Exit, managerVars, memory, disk,
      history, At, Reaped, None, Gens, Starting, Stopping, Signalled, Watching, Forgotten
<1>1. ManagerTypes'
  BY DEF ManagerTypes
<1>2. OpOK'
  BY DEF OpOK
<1>3. MonitorOK'
  BY DEF MonitorOK
<1>4. ServesOK'
  BY DEF ServesOK
<1>5. DownOK'
  BY DEF DownOK
<1>6. StoppedOK'
  BY DEF StoppedOK
<1> QED BY ONLY <1>1, <1>2, <1>3, <1>4, <1>5, <1>6 DEF ManagerInv

\* The monitor has seen its process exit.
LEMMA ReapStartsInv ==
  ASSUME ManagerInv, NEW g \in Gens, ReapStarts(g)
  PROVE  ManagerInv'
<1> USE ServeManagerAssumption DEF ManagerInv, ReapStarts, MonitorAt, managerVars, memory, disk,
      history, At, Reaped, None, Gens, Starting, Stopping, Signalled, Watching, Forgotten
<1>1. ManagerTypes'
  BY DEF ManagerTypes
<1>2. OpOK'
  BY DEF OpOK
<1>3. MonitorOK'
  BY DEF MonitorOK
<1>4. ServesOK'
  BY DEF ServesOK
<1>5. DownOK'
  BY DEF DownOK
<1>6. StoppedOK'
  BY DEF StoppedOK
<1> QED BY ONLY <1>1, <1>2, <1>3, <1>4, <1>5, <1>6 DEF ManagerInv

\* The crash receipt is written, or its refusal is remembered with the stop.
LEMMA ReapAccountsInv ==
  ASSUME ManagerInv, NEW g \in Gens, ReapAccounts(g)
  PROVE  ManagerInv'
<1> USE ServeManagerAssumption DEF ManagerInv, ReapAccounts, MonitorAt, managerVars, memory, disk,
      history, At, Reaped, None, Gens, Starting, Stopping, Signalled, Watching, Forgotten
<1>1. ManagerTypes'
  BY DEF ManagerTypes
<1>2. OpOK'
  BY DEF OpOK
<1>3. MonitorOK'
  BY DEF MonitorOK, ServesOK
<1>4. ServesOK'
  BY DEF ServesOK
<1>5. DownOK'
  BY DEF DownOK
<1>6. StoppedOK'
  BY DEF StoppedOK
<1> QED BY ONLY <1>1, <1>2, <1>3, <1>4, <1>5, <1>6 DEF ManagerInv

\* A watched generation is the child: it is forgotten with its receipt.
LEMMA ReapDropsInv ==
  ASSUME ManagerInv, NEW g \in Gens, ReapDrops(g)
  PROVE  ManagerInv'
<1> USE ServeManagerAssumption DEF ManagerInv, ReapDrops, MonitorAt, managerVars, memory, disk,
      history, At, Reaped, None, Gens, Starting, Stopping, Signalled, Watching, Forgotten
<1>1. ManagerTypes'
  BY DEF ManagerTypes
<1>2. OpOK'
  BY DEF ManagerTypes, OpOK, StoppedOK
<1>3. MonitorOK'
  BY DEF ManagerTypes, MonitorOK
<1>4. ServesOK'
  BY DEF MonitorOK, ServesOK
<1>5. DownOK'
  BY DEF DownOK
<1>6. StoppedOK'
  BY DEF StoppedOK
<1> QED BY ONLY <1>1, <1>2, <1>3, <1>4, <1>5, <1>6 DEF ManagerInv

\* The state file forgets it too.
LEMMA ReapClearsInv ==
  ASSUME ManagerInv, NEW g \in Gens, ReapClears(g)
  PROVE  ManagerInv'
<1> USE ServeManagerAssumption DEF ManagerInv, ReapClears, MonitorAt, managerVars, memory, disk,
      history, At, Reaped, None, Gens, Starting, Stopping, Signalled, Watching, Forgotten
<1>1. ManagerTypes'
  BY DEF ManagerTypes
<1>2. OpOK'
  BY DEF OpOK
<1>3. MonitorOK'
  BY DEF MonitorOK
<1>4. ServesOK'
  BY DEF ManagerTypes, ServesOK
<1>5. DownOK'
  BY DEF DownOK
<1>6. StoppedOK'
  BY DEF StoppedOK
<1> QED BY ONLY <1>1, <1>2, <1>3, <1>4, <1>5, <1>6 DEF ManagerInv

\* A restart is asked for only when no stop was.
LEMMA ReapRestartsInv ==
  ASSUME ManagerInv, NEW g \in Gens, ReapRestarts(g)
  PROVE  ManagerInv'
<1> USE ServeManagerAssumption DEF ManagerInv, ReapRestarts, MonitorAt, managerVars, memory, disk,
      history, At, Reaped, None, Gens, Starting, Stopping, Signalled, Watching, Forgotten
<1>1. ManagerTypes'
  BY DEF ManagerTypes
<1>2. OpOK'
  BY DEF OpOK
<1>3. MonitorOK'
  BY DEF MonitorOK
<1>4. ServesOK'
  BY DEF ServesOK
<1>5. DownOK'
  BY DEF DownOK
<1>6. StoppedOK'
  BY DEF StoppedOK
<1> QED BY ONLY <1>1, <1>2, <1>3, <1>4, <1>5, <1>6 DEF ManagerInv

\* What the daemon knew is gone; a serve without a record is lost.
LEMMA DaemonDownInv ==
  ASSUME ManagerInv, DaemonDown
  PROVE  ManagerInv'
<1> USE ServeManagerAssumption DEF ManagerInv, DaemonDown, managerVars, memory, disk,
      history, At, Reaped, None, Gens, Starting, Stopping, Signalled, Watching, Forgotten
<1>0. op' \in Ops /\ op'.pc = "none"
  BY IdleOps
<1>1. ManagerTypes'
  BY <1>0 DEF ManagerTypes
<1>2. OpOK'
  BY <1>0 DEF OpOK
<1>3. MonitorOK'
  BY <1>0 DEF MonitorOK
<1>4. ServesOK'
  BY <1>0 DEF ServesOK
<1>5. DownOK'
  BY <1>0 DEF DownOK
<1>6. StoppedOK'
  BY <1>0 DEF StoppedOK
<1> QED BY ONLY <1>1, <1>2, <1>3, <1>4, <1>5, <1>6 DEF ManagerInv

\* The recorded serve, if it is alive, is the child again.
LEMMA BootInv ==
  ASSUME ManagerInv, Boot
  PROVE  ManagerInv'
<1> USE IdleOps, ServeManagerAssumption DEF ManagerInv, Boot, managerVars, memory, disk,
      history, At, Reaped, None, Gens, Starting, Stopping, Signalled, Watching, Forgotten
<1>1. ManagerTypes'
  BY DEF ManagerTypes
<1>2. OpOK'
  BY DEF OpOK, DownOK
<1>3. MonitorOK'
  BY DEF ManagerTypes, MonitorOK, DownOK
<1>4. ServesOK'
  BY DEF ManagerTypes, ServesOK
<1>5. DownOK'
  BY DEF DownOK
<1>6. StoppedOK'
  BY DEF ServesOK, StoppedOK
<1> QED BY ONLY <1>1, <1>2, <1>3, <1>4, <1>5, <1>6 DEF ManagerInv

-----------------------------------------------------------------------------
\* Every step of the manager keeps the invariant.
LEMMA ManagerNextInv ==
  ASSUME ManagerInv, [Next]_managerVars
  PROVE  ManagerInv'
<1>1. CASE Start \/ SwitchStarts
  BY <1>1, StartChecksInv DEF Start, SwitchStarts, At, Kinds
<1>2. CASE Spawn \/ SpawnFails \/ Install \/ Persist \/ Watch
  BY <1>2, SpawnInv, SpawnFailsInv, InstallInv, PersistInv, WatchInv
<1>3. CASE TakeGuard \/ Prepared \/ Signal \/ TermTimeout \/ StopEnds
  BY <1>3, TakeGuardInv, PreparedInv, SignalInv, TermTimeoutInv, StopEndsInv
<1>4. CASE PrepareFails \/ KillTimeout
  BY <1>4, StopRaisesInv DEF PrepareFails, KillTimeout, At, Stopping
<1>5. ASSUME NEW kind \in {"stop", "shutdown", "switch"}, NEW force \in BOOLEAN,
             Stop(kind, force)
      PROVE  ManagerInv'
  BY <1>5, StopInv
<1>6. ASSUME NEW g \in Gens, AutoStart(g) \/ Exit(g)
      PROVE  ManagerInv'
  BY <1>6, AutoStartInv, ExitInv
<1>7. ASSUME NEW g \in Gens,
             ReapStarts(g) \/ ReapAccounts(g) \/ ReapDrops(g) \/ ReapClears(g) \/ ReapRestarts(g)
      PROVE  ManagerInv'
  BY <1>7, ReapStartsInv, ReapAccountsInv, ReapDropsInv, ReapClearsInv, ReapRestartsInv
<1>8. CASE DaemonDown \/ Boot
  BY <1>8, DaemonDownInv, BootInv
<1>9. CASE UNCHANGED managerVars
  BY <1>9 DEF managerVars, memory, disk, history, ManagerInv, ManagerTypes, OpOK, MonitorOK,
              ServesOK, DownOK, StoppedOK
<1> QED BY <1>1, <1>2, <1>3, <1>4, <1>5, <1>6, <1>7, <1>8, <1>9 DEF Next, ManagerStep, Calls

\* In every reachable state of ServeManager a generation is watched only while it
\* is the child, forgotten by a reap only with its receipt or a refused one, and
\* no serve is alive that this daemon or its state file does not know, but those
\* an earlier daemon lost.
THEOREM ManagerInvariant == Spec => []ManagerInv
<1>1. Init => ManagerInv
  BY ManagerInit
<1>2. ManagerInv /\ [Next]_managerVars => ManagerInv'
  BY ManagerNextInv
<1> QED BY <1>1, <1>2, PTL DEF Spec

\* What this daemon spawned or re-adopted is in its hands, or accounted for.
OwnOK ==
    /\ own \subseteq 1 .. spawned
    /\ \A g \in own : InHand(g) \/ g \in outbox \cup unaccounted

\* A serve leaves the daemon's hands when its reap drops it, after its receipt, and
\* when the daemon goes down, which then has none of its own.
LEMMA OwnNext ==
  ASSUME ManagerInv, OwnOK, [Next]_managerVars
  PROVE  OwnOK'
<1> USE DEF OwnOK, InHand
<1>1. CASE Start \/ SwitchStarts
  BY <1>1, IdleOps DEF Start, SwitchStarts, StartChecks, At, disk, Idle
<1>2. CASE Spawn
  BY <1>2, ServeManagerAssumption DEF Spawn, At, memory, disk, ManagerInv, ManagerTypes, Ops
<1>3. CASE Install
  BY <1>3 DEF Install, At, Goto, disk, history, ManagerInv, ManagerTypes, OpOK, Ops, None
<1>4. CASE SpawnFails \/ Persist \/ Watch
  BY <1>4 DEF SpawnFails, Persist, Watch, At, Goto, memory, disk, history, ManagerInv, ManagerTypes,
              Ops, Idle
<1>5. CASE TakeGuard \/ Prepared \/ Signal \/ TermTimeout \/ StopEnds
  BY <1>5 DEF TakeGuard, Prepared, Signal, TermTimeout, StopEnds, AfterStop, At, Goto, memory, disk,
              history, ManagerInv, ManagerTypes, Ops, Idle
<1>6. CASE PrepareFails \/ KillTimeout
  BY <1>6 DEF PrepareFails, KillTimeout, StopRaises, At, disk, history
<1>7. ASSUME NEW kind \in {"stop", "shutdown", "switch"}, NEW force \in BOOLEAN,
             Stop(kind, force)
      PROVE  OwnOK'
  BY <1>7 DEF Stop, AfterStop, At, disk
<1>8. ASSUME NEW g \in Gens, AutoStart(g) \/ Exit(g)
      PROVE  OwnOK'
  BY <1>8 DEF AutoStart, Exit, At, memory, disk, history
<1>9. ASSUME NEW g \in Gens, ReapDrops(g)
      PROVE  OwnOK'
  BY <1>9 DEF ReapDrops, MonitorAt, ManagerInv, MonitorOK
<1>10. ASSUME NEW g \in Gens, ReapStarts(g) \/ ReapAccounts(g) \/ ReapClears(g) \/ ReapRestarts(g)
       PROVE  OwnOK'
  BY <1>10 DEF ReapStarts, ReapAccounts, ReapClears, ReapRestarts, MonitorAt
<1>11. CASE DaemonDown
  BY <1>11 DEF DaemonDown
<1>12. CASE Boot
  BY <1>12 DEF Boot, ManagerInv, ManagerTypes
<1>13. CASE UNCHANGED managerVars
  BY <1>13 DEF managerVars, memory, disk, history
<1> QED BY <1>1, <1>2, <1>3, <1>4, <1>5, <1>6, <1>7, <1>8, <1>9, <1>10, <1>11, <1>12, <1>13
        DEF Next, ManagerStep, Calls

\* The two invariants give each property.
LEMMA EndsAreReceiptedInv == ManagerInv /\ OwnOK => EndsAreReceipted
BY DEF ManagerInv, OpOK, OwnOK, EndsAreReceipted, Signalled

LEMMA StopIsFinalInv == ManagerInv => StopIsFinal
BY DEF ManagerInv, StoppedOK, StopIsFinal

\* A set without two different elements has at most one.
LEMMA AtMostOne ==
  ASSUME NEW S, \A x, y \in S : x = y
  PROVE  Cardinality(S) <= 1
<1>1. CASE S = {}
  BY <1>1, FS_EmptySet
<1>2. CASE \E x \in S : S = {x}
  BY <1>2, FS_Singleton
<1> QED BY <1>1, <1>2

\* Two live serves of this daemon would both be its child.
LEMMA OneServeInv == ManagerInv => OneServe
<1> SUFFICES ASSUME ManagerInv
             PROVE  OneServe
  OBVIOUS
<1>1. \A g, h \in serves \ lost : g = h
  BY DEF ManagerInv, ManagerTypes, OpOK, ServesOK, None
<1> QED BY <1>1, AtMostOne DEF OneServe

\* A daemon signals no serve before its receipt is durable, and lets none that it
\* spawned or re-adopted out of its hands without one, or one that was refused.
\* Serves that end while no daemon is up are outside of it (NoUnrecordedGap).
THEOREM ReceiptsWhileUp == Spec => []EndsAreReceipted
<1>1. Init => OwnOK
  BY DEF Init, OwnOK
<1>2. ManagerInv /\ OwnOK /\ [Next]_managerVars => OwnOK'
  BY OwnNext
<1> QED BY <1>1, <1>2, ManagerInvariant, EndsAreReceiptedInv, PTL DEF Spec

\* A stop or a shutdown that succeeded stands until a client starts a serve, for
\* any interleaving of reaps, restart threads and daemon crashes.
THEOREM StopsStand == Spec => []StopIsFinal
BY ManagerInvariant, StopIsFinalInv, PTL

\* One serve at a time on the GPU, but for those a daemon lost before their
\* record was written.
THEOREM ServesAreAlone == Spec => []OneServe
BY ManagerInvariant, OneServeInv, PTL

-----------------------------------------------------------------------------
\* The routes add no behaviour to the manager: whatever checkpoint_start,
\* conversions and their monitors do, the manager takes a step of its own or none.
LEMMA DaemonStep == [NextDaemon]_vars => [Next]_managerVars
<1> SUFFICES ASSUME [NextDaemon]_vars
             PROVE  [Next]_managerVars
  OBVIOUS
<1>1. CASE Manager
  BY <1>1 DEF Manager, Next
<1>2. CASE CheckpointStopsServe
  BY <1>2 DEF CheckpointStopsServe, Next, Calls
<1>3. CASE CheckpointStartFails
  BY <1>3 DEF CheckpointStartFails
<1>4. ASSUME NEW id \in JobIds, CheckpointStart(id) \/ CheckpointCancel(id)
      PROVE  UNCHANGED managerVars
  BY <1>4 DEF CheckpointStart, CheckpointCancel
<1>5. ASSUME NEW n \in Jobs, ConversionExits(n) \/ ConversionReaped(n) \/ JobEnds(n)
      PROVE  UNCHANGED managerVars
  BY <1>5 DEF ConversionExits, ConversionReaped, JobEnds
<1>6. CASE GoesDown \/ BootsAgain
  BY <1>6 DEF GoesDown, BootsAgain, Next
<1>7. CASE UNCHANGED vars
  BY <1>7 DEF vars
<1> QED BY <1>1, <1>2, <1>3, <1>4, <1>5, <1>6, <1>7 DEF NextDaemon

\* app.py's routes and CheckpointManager use the manager only through its calls:
\* every behaviour of the daemon is one of the manager's.
THEOREM DaemonRefinesManager == SpecDaemon => Spec
<1>1. InitDaemon => Init
  BY DEF InitDaemon
<1> QED BY <1>1, DaemonStep, PTL DEF SpecDaemon, Spec

\* So the manager keeps its promises with the routes of app.py around it: while it
\* is up, none of its serves leaves its hands without a receipt or a refused one ...
THEOREM DaemonReceiptsWhileUp == SpecDaemon => []EndsAreReceipted
BY DaemonRefinesManager, ReceiptsWhileUp, PTL

\* ... and no route but a start undoes a stop, checkpoint_start's own included.
THEOREM DaemonStopsStand == SpecDaemon => []StopIsFinal
BY DaemonRefinesManager, StopsStand, PTL

-----------------------------------------------------------------------------
\* CheckpointManager: the conversion that is watched is the job's, a monitor that
\* has seen its process end has it right, and a conversion not begun is not alive.
ConversionsOK ==
    /\ conv_monitor \in [Jobs -> {"none", "wait", "reaped", "done"}]
    /\ conversions \subseteq Jobs
    /\ job.conv \in {None} \cup Jobs
    /\ DOMAIN job = {"id", "state", "conv"}
    /\ \A n \in Jobs :
         /\ conv_monitor[n] = "wait" => job.conv = n
         /\ conv_monitor[n] \in {"none", "reaped"} => n \notin conversions

\* No conversion at first.
LEMMA ConversionsInit == InitDaemon => ConversionsOK
BY DEF InitDaemon, ConversionsOK, NoJob, Jobs, None

\* Every step of the daemon keeps it: a conversion is begun only when none is watched.
LEMMA ConversionsNext ==
  ASSUME ConversionsOK, [NextDaemon]_vars
  PROVE  ConversionsOK'
<1> USE DEF ConversionsOK, checkpointVars
<1>1. CASE Manager \/ CheckpointStopsServe \/ BootsAgain \/ UNCHANGED vars
  BY <1>1 DEF Manager, CheckpointStopsServe, BootsAgain, vars
<1>2. CASE CheckpointStartFails
  BY <1>2 DEF CheckpointStartFails, Refused, StillTerminating, NoJob
<1>3. ASSUME NEW id \in JobIds, CheckpointStart(id)
      PROVE  ConversionsOK'
  <2>1. CASE Refused
    BY <1>3, <2>1 DEF CheckpointStart
  <2>2. CASE ~Refused
    <3>1. PICK n \in Jobs : /\ conv_monitor[n] = "none"
                            /\ job' = [id |-> id, state |-> "running", conv |-> n]
                            /\ conversions' = conversions \cup {n}
                            /\ conv_monitor' = [conv_monitor EXCEPT ![n] = "wait"]
      BY <1>3, <2>2 DEF CheckpointStart
    <3>2. \A m \in Jobs : conv_monitor[m] # "wait"
      BY <2>2 DEF Refused, StillTerminating, Jobs, None
    <3>3. job'.conv = n /\ DOMAIN job' = {"id", "state", "conv"}
      BY <3>1
    <3>4. \A m \in Jobs : conv_monitor'[m] = IF m = n THEN "wait" ELSE conv_monitor[m]
      BY <3>1
    <3>5. conv_monitor' \in [Jobs -> {"none", "wait", "reaped", "done"}]
      BY <3>1
    <3> QED BY <3>1, <3>2, <3>3, <3>4, <3>5
  <2> QED BY <2>1, <2>2
<1>4. ASSUME NEW id \in JobIds, CheckpointCancel(id)
      PROVE  ConversionsOK'
  BY <1>4 DEF CheckpointCancel
<1>5. ASSUME NEW n \in Jobs, ConversionExits(n) \/ ConversionReaped(n) \/ JobEnds(n)
      PROVE  ConversionsOK'
  BY <1>5 DEF ConversionExits, ConversionReaped, JobEnds
<1>6. CASE GoesDown
  BY <1>6 DEF GoesDown, NoJob
<1> QED BY <1>1, <1>2, <1>3, <1>4, <1>5, <1>6 DEF NextDaemon

\* checkpoint.py's promise, "no two GPU conversions at once", and one serve: for
\* any number of jobs, cancels, serves and crashes of the daemon.
THEOREM OneOfEachHolds == SpecDaemon => []OneOfEach
<1>1. ConversionsOK => OneConversion
  <2>1. SUFFICES ASSUME ConversionsOK
                 PROVE  OneConversion
    OBVIOUS
  <2>2. \A n \in Watched : n = job.conv
    BY <2>1 DEF ConversionsOK, Watched
  <2>3. \A m, n \in Watched : m = n
    BY <2>2
  <2> QED BY <2>3, AtMostOne DEF OneConversion
<1>2. SpecDaemon => []ConversionsOK
  BY ConversionsInit, ConversionsNext, PTL DEF SpecDaemon
<1>3. OneServe /\ OneConversion => OneOfEach
  BY DEF OneOfEach
<1> QED BY <1>1, <1>2, <1>3, DaemonRefinesManager, ServesAreAlone, PTL
==============================================================================
