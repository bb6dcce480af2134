------------------------------ MODULE RequestFlow ------------------------------
(***************************************************************************)
(* The path of a generation through the serve: FrontendManager             *)
(* (server/api_server.py) with its statistics (stats.py) and the stop      *)
(* barrier (accounting.py), the tokenizer workers (tokenizer/server.py),   *)
(* the scheduler as the contract of Engine, and the supervisor thread      *)
(* (supervisor.py) that reports a dead worker.                             *)
(*                                                                         *)
(* Queues are ZMQ PUSH/PULL sockets: first in first out from one sender to *)
(* one receiver, in any order between senders; the frontend's PUSH deals   *)
(* its messages to the tokenizer workers in no order a client can rely on. *)
(* Coroutines of the event loop interleave at their awaits; the supervisor *)
(* thread interleaves everywhere.  Clocks are nondeterministic: a timeout  *)
(* may pass whenever its wait is not over.                                 *)
(***************************************************************************)
EXTENDS Naturals, FiniteSets, Sequences, SequencesExt

CONSTANTS
    Uids,            \* the uids uid_counter hands out: 0 .. n
    MaxTokens,       \* bound on the tokens the engine samples for a request
    BadPrompts,      \* requests whose prompt cannot be tokenized, or is empty
    Tokenizers,      \* workers the frontend sends to
    Detokenizer,     \* the worker the scheduler sends to; num_tokenizer = 0 shares one
    LocalBs,         \* tokenize_worker's local_bs
    GateLimit,       \* frontend_generation_limit; 0 for none
    MaxRebuilds,     \* bound on rebuild requests
    StopRounds,      \* bound on the drains that time out; the daemon may ask for a stop if not 0
    SendFails,       \* whether a send from the frontend may raise
    MaxDeaths,       \* bound on backend workers that die
    ListenerStarted  \* whether a request was served before the behaviour starts

ASSUME RequestFlowAssumption ==
    /\ IsFiniteSet(Uids) /\ Uids = 0 .. Cardinality(Uids) - 1
    /\ MaxTokens \in Nat \ {0} /\ LocalBs \in Nat \ {0}
    /\ BadPrompts \subseteq Uids
    /\ Tokenizers # {} /\ "scheduler" \notin Tokenizers \cup {Detokenizer}
    /\ GateLimit \in Nat /\ MaxRebuilds \in Nat /\ MaxDeaths \in Nat
    /\ StopRounds \in Nat /\ SendFails \in BOOLEAN /\ ListenerStarted \in BOOLEAN

VARIABLES
    maintenance_state,  \* loading, serving, rebuilding, stopping or failed
    fatal_error,
    listening,          \* initialized and _loop: the listener task runs
    uid_counter,
    ack_map,            \* requests with an entry in ack_map and event_map
    acks,               \* what the entry holds: token replies, a finished one
    gate_free,          \* the value of the _generation_gate semaphore
    gate_uids,          \* _generation_gate_uids
    stats,              \* StatsTracker
    http,               \* the handler of each request
    abort_tasks,        \* abort_user tasks of each request: the client's, the stop's
    active_rebuild,     \* _active_rebuild_id, or 0
    rebuild_futures,
    last_rebuild_id,
    prepare,            \* the prepare-stop call: no, drain, aborting, abort_wait
    stop_rounds,
    sealed,             \* _sealed_accounting, or <<>>
    supervisor,         \* loading, watching, marked, rebuilds_failed, done
    loop_calls,         \* callbacks handed to the loop with call_soon_threadsafe
    to_worker,          \* frontend to tokenizer w
    to_detok,           \* scheduler to detokenizer
    to_sched,           \* tokenizer w to scheduler
    to_front,           \* worker w to frontend
    decode_map,         \* requests with a decode status in the detokenizer
    rebuild_msg,        \* the id of the rebuild the scheduler has queued
    dead,               \* processes that died
    stage, tombstones, pending_abort_acks, admitted, emitted, queued_rebuild

Backend == INSTANCE Engine

requests == <<uid_counter, ack_map, acks, gate_free, gate_uids, stats, http, abort_tasks>>
rebuilds == <<active_rebuild, rebuild_futures, last_rebuild_id>>
stopping == <<prepare, sealed, stop_rounds>>
watching == <<fatal_error, supervisor, loop_calls>>
queues == <<to_worker, to_detok, to_sched, to_front>>
backend == <<stage, tombstones, pending_abort_acks, admitted, emitted, queued_rebuild, rebuild_msg>>
vars == <<maintenance_state, listening, requests, rebuilds, stopping, watching, queues,
          decode_map, dead, backend>>

Workers == Tokenizers \cup {Detokenizer}
Processes == Workers \cup {"scheduler"}
RebuildIds == 1 .. MaxRebuilds
Alive(p) == p \notin dead

Init ==
    /\ maintenance_state = "loading"
    /\ fatal_error = FALSE
    /\ listening = ListenerStarted
    /\ uid_counter = 0
    /\ ack_map = {}
    /\ acks = [u \in Uids |-> {}]
    /\ gate_free = GateLimit
    /\ gate_uids = {}
    /\ stats = [inflight |-> {}, aborting |-> {}, completed |-> {},
                prompts |-> [u \in Uids |-> 0], tokens |-> [u \in Uids |-> 0]]
    /\ http = [u \in Uids |-> "none"]
    /\ abort_tasks = [u \in Uids |-> {}]
    /\ active_rebuild = 0
    /\ rebuild_futures = {}
    /\ last_rebuild_id = 0
    /\ prepare = "no"
    /\ sealed = <<>>
    /\ stop_rounds = 0
    /\ supervisor = "loading"
    /\ loop_calls = <<>>
    /\ to_worker = [w \in Tokenizers |-> <<>>]
    /\ to_detok = <<>>
    /\ to_sched = [w \in Tokenizers |-> <<>>]
    /\ to_front = [w \in Workers |-> <<>>]
    /\ decode_map = {}
    /\ rebuild_msg = 0
    /\ dead = {}
    /\ Backend!Init

Msg(kind, id) == [kind |-> kind, id |-> id]
Msgs(kind, ids) == SetToSeq({Msg(kind, i) : i \in ids})
\* The messages of s at these positions, in their order.
At(s, positions) ==
    [k \in 1 .. Cardinality(positions) |->
        s[CHOOSE i \in positions : Cardinality({j \in positions : j <= i}) = k]]
OfKind(s, kinds) == At(s, {i \in DOMAIN s : s[i].kind \in kinds})
Ids(s) == {s[i].id : i \in DOMAIN s}
FinishedByToken(m) == m.kind = "last"
Finished(m) == m.kind \in {"last", "error"}

-----------------------------------------------------------------------------
(* StatsTracker.                                                           *)

on_new_user(st, u) == [st EXCEPT !.inflight = @ \cup {u}, !.aborting = @ \ {u}]

on_abort(st, u) == IF u \in st.inflight THEN [st EXCEPT !.aborting = @ \cup {u}] ELSE st

\* Tokens count whoever still listens; the first terminal reply ends the request.
observe_end(st, u) ==
    IF u \notin st.inflight THEN st
    ELSE [st EXCEPT !.inflight = @ \ {u},
                    !.aborting = @ \ {u},
                    !.completed = IF u \in st.aborting THEN @ ELSE @ \cup {u}]

observe(st, m) ==
    LET tokens == IF m.kind \in {"token", "last"} THEN 1 ELSE 0
        counted == [st EXCEPT !.tokens[m.id] = @ + tokens,
                              !.prompts[m.id] = @ + (IF m.kind = "admitted" THEN 1 ELSE 0)]
    IN  IF Finished(m) THEN observe_end(counted, m.id) ELSE counted

-----------------------------------------------------------------------------
(* FrontendManager: generations.                                           *)

\* No other coroutine runs between new_user and the send that follows it.
LoopFree == \A u \in Uids : http[u] # "registered"

Send(m) ==
    /\ listening' = TRUE
    /\ \E w \in Tokenizers : to_worker' = [to_worker EXCEPT ![w] = Append(@, m)]
    /\ UNCHANGED <<to_detok, to_sched, to_front>>

\* release_generation_slot
ReleaseSlotBlindly(u) ==
    /\ gate_uids' = gate_uids \ {u}
    /\ gate_free' = gate_free + (IF GateLimit > 0 THEN 1 ELSE 0)
ReleaseSlot(u) ==
    /\ gate_uids' = gate_uids \ {u}
    /\ gate_free' = gate_free + (IF u \in gate_uids THEN 1 ELSE 0)

\* admit_generation: a slot of the gate, then new_user under the maintenance lock.
AdmitGeneration(u) ==
    /\ LoopFree
    /\ u = uid_counter
    /\ GateLimit > 0 => gate_free > 0
    /\ maintenance_state = "serving" /\ ~fatal_error
    /\ uid_counter' = uid_counter + 1
    /\ ack_map' = ack_map \cup {u}
    /\ stats' = on_new_user(stats, u)
    /\ IF GateLimit > 0
       THEN gate_free' = gate_free - 1 /\ gate_uids' = gate_uids \cup {u}
       ELSE UNCHANGED <<gate_free, gate_uids>>
    /\ http' = [http EXCEPT ![u] = "registered"]
    /\ UNCHANGED <<acks, abort_tasks, maintenance_state, listening, rebuilds, stopping, watching,
                   queues, decode_map, dead, backend>>

\* submit_tokenize_message
Submit(u) ==
    /\ http[u] = "registered"
    /\ Send(Msg("tokenize", u))
    /\ http' = [http EXCEPT ![u] = "waiting"]
    /\ UNCHANGED <<uid_counter, ack_map, acks, gate_free, gate_uids, stats, abort_tasks,
                   maintenance_state, rebuilds, stopping, watching, decode_map, dead, backend>>

\* The send raised or was cancelled, before or after the message left:
\* discard_unsubmitted_generation.
SubmitFails(u) ==
    /\ SendFails
    /\ http[u] = "registered"
    /\ \/ Send(Msg("tokenize", u))
       \/ listening' = TRUE /\ UNCHANGED queues
    /\ http' = [http EXCEPT ![u] = "failed"]
    /\ ack_map' = ack_map \ {u}
    /\ stats' = on_abort(stats, u)
    /\ ReleaseSlot(u)
    /\ UNCHANGED <<uid_counter, acks, abort_tasks, maintenance_state, rebuilds, stopping, watching,
                   decode_map, dead, backend>>

\* wait_for_ack wakes up: its replies go to the client, up to a finished one.
TakeAcks(u) ==
    /\ LoopFree
    /\ http[u] = "waiting" /\ u \in ack_map /\ acks[u] # {}
    /\ acks' = [acks EXCEPT ![u] = {}]
    /\ IF "finished" \in acks[u]
       THEN http' = [http EXCEPT ![u] = "answered"] /\ ack_map' = ack_map \ {u}
       ELSE UNCHANGED <<http, ack_map>>
    /\ UNCHANGED <<uid_counter, gate_free, gate_uids, stats, abort_tasks, maintenance_state,
                   listening, rebuilds, stopping, watching, queues, decode_map, dead, backend>>

\* It wakes up after abort_user deleted its entry: KeyError ends the stream.
TakeAcksFails(u) ==
    /\ LoopFree
    /\ http[u] = "waiting" /\ u \notin ack_map /\ acks[u] # {}
    /\ http' = [http EXCEPT ![u] = "broken"]
    /\ abort_tasks' = [abort_tasks EXCEPT ![u] = @ \cup {"client"}]
    /\ UNCHANGED <<uid_counter, ack_map, acks, gate_free, gate_uids, stats, maintenance_state,
                   listening, rebuilds, stopping, watching, queues, decode_map, dead, backend>>

\* The client disconnects: the stream is closed, wait_for_ack's finally drops
\* the entry, and an abort_user task is created.
ClientLeaves(u) ==
    /\ LoopFree
    /\ http[u] = "waiting"
    /\ http' = [http EXCEPT ![u] = "left"]
    /\ ack_map' = ack_map \ {u}
    /\ acks' = [acks EXCEPT ![u] = {}]
    /\ abort_tasks' = [abort_tasks EXCEPT ![u] = @ \cup {"client"}]
    /\ UNCHANGED <<uid_counter, gate_free, gate_uids, stats, maintenance_state, listening, rebuilds,
                   stopping, watching, queues, decode_map, dead, backend>>

abort_user(u, why) ==
    /\ LoopFree
    /\ why \in abort_tasks[u]
    /\ abort_tasks' = [abort_tasks EXCEPT ![u] = @ \ {why}]
    /\ ack_map' = ack_map \ {u}
    /\ stats' = on_abort(stats, u)
    /\ Send(Msg("abort", u))
    /\ UNCHANGED <<uid_counter, acks, gate_free, gate_uids, http, maintenance_state, rebuilds,
                   stopping, watching, decode_map, dead, backend>>

-----------------------------------------------------------------------------
(* FrontendManager: the listener.                                          *)

Received(w) == Head(to_front[w])

Takes(w) ==
    /\ LoopFree /\ listening
    /\ to_front[w] # <<>>
    /\ to_front' = [to_front EXCEPT ![w] = Tail(@)]
    /\ UNCHANGED <<to_worker, to_detok, to_sched, listening, watching, stopping, decode_map, dead,
                   backend>>

\* A UserReply: statistics first, then the gate, then delivery to whoever waits.
ListenReply(w) ==
    /\ Takes(w)
    /\ LET m == Received(w)
       IN  /\ m.kind # "rebuilt"
           /\ stats' = observe(stats, m)
           /\ IF Finished(m) THEN ReleaseSlot(m.id) ELSE UNCHANGED <<gate_free, gate_uids>>
           /\ acks' = [acks EXCEPT ![m.id] =
                          IF m.id \notin ack_map THEN @
                          ELSE @ \cup {IF Finished(m) THEN "finished" ELSE "reply"}]
    /\ UNCHANGED <<uid_counter, ack_map, http, abort_tasks, maintenance_state, rebuilds>>

\* A CacheRebuildReply: only the active operation is completed, and it opens
\* the gate only if nothing else has closed it.
IsAwaited(m) == m.id \in rebuild_futures
IsActive(m) == m.id = active_rebuild

ServingAgain == "serving"
AfterRebuild ==
    IF fatal_error THEN "failed"
    ELSE IF maintenance_state = "rebuilding" THEN "serving" ELSE maintenance_state

ResolveRebuild(w) ==
    /\ Takes(w)
    /\ Received(w).kind = "rebuilt"
    /\ IF IsActive(Received(w))
       THEN /\ active_rebuild' = 0
            /\ rebuild_futures' = rebuild_futures \ {active_rebuild}
            /\ maintenance_state' = AfterRebuild
       ELSE UNCHANGED <<maintenance_state, active_rebuild, rebuild_futures>>
    /\ UNCHANGED <<last_rebuild_id, requests>>

-----------------------------------------------------------------------------
(* dispatch_rebuild.                                                       *)

BeginRebuild ==
    /\ LoopFree
    /\ last_rebuild_id < MaxRebuilds
    /\ maintenance_state = "serving" /\ ~fatal_error /\ active_rebuild = 0
    /\ last_rebuild_id' = last_rebuild_id + 1
    /\ active_rebuild' = last_rebuild_id'
    /\ maintenance_state' = "rebuilding"
    /\ UNCHANGED <<requests, stopping, watching, decode_map, dead, backend>>

DispatchRebuild ==
    /\ BeginRebuild
    /\ rebuild_futures' = rebuild_futures \cup {last_rebuild_id'}
    /\ Send(Msg("rebuild", last_rebuild_id'))

\* The send raised: delivery is unknown, so the operation stays active.
DispatchFails ==
    /\ SendFails
    /\ BeginRebuild
    /\ UNCHANGED rebuild_futures
    /\ \/ Send(Msg("rebuild", last_rebuild_id'))
       \/ listening' = TRUE /\ UNCHANGED queues

\* The HTTP wait ends; the backend operation does not.
RebuildTimeoutReopens(r) ==
    /\ LoopFree
    /\ r \in rebuild_futures
    /\ rebuild_futures' = rebuild_futures \ {r}
    /\ active_rebuild' = 0
    /\ maintenance_state' = "serving"
    /\ UNCHANGED <<last_rebuild_id, listening, requests, stopping, watching, queues, decode_map,
                   dead, backend>>
RebuildTimeout(r) ==
    /\ LoopFree
    /\ r \in rebuild_futures
    /\ rebuild_futures' = rebuild_futures \ {r}
    /\ UNCHANGED <<active_rebuild, last_rebuild_id, maintenance_state, listening, requests,
                   stopping, watching, queues, decode_map, dead, backend>>

-----------------------------------------------------------------------------
(* prepare_stop_accounting.                                                *)

PrepareStop ==
    /\ StopRounds > 0 /\ LoopFree
    /\ prepare = "no" /\ sealed = <<>>
    /\ maintenance_state # "rebuilding"
    /\ maintenance_state' =
         IF maintenance_state = "failed" \/ fatal_error THEN "failed" ELSE "stopping"
    /\ prepare' = "drain"
    /\ UNCHANGED <<sealed, stop_rounds, listening, requests, rebuilds, watching, queues, decode_map, dead,
                   backend>>

NobodyListens == ack_map = {}
Idle == stats.inflight = {}

Waiting(prep) ==
    /\ LoopFree
    /\ prepare = prep
    /\ UNCHANGED <<maintenance_state, listening, uid_counter, ack_map, acks, gate_free, gate_uids,
                   stats, http, rebuilds, watching, queues, decode_map, dead, backend>>

\* Drain timed out: everything still in flight is aborted ...
AbortInFlight ==
    /\ Waiting("drain") /\ ~Idle
    /\ stop_rounds < StopRounds
    /\ stop_rounds' = stop_rounds + 1
    /\ abort_tasks' = [u \in Uids |-> IF u \in stats.inflight THEN abort_tasks[u] \cup {"stop"}
                                                             ELSE abort_tasks[u]]
    /\ prepare' = "aborting"
    /\ UNCHANGED sealed

\* ... and once the aborts are sent the barrier waits again.
AbortsSent ==
    /\ Waiting("aborting")
    /\ \A u \in Uids : "stop" \notin abort_tasks[u]
    /\ prepare' = "abort_wait"
    /\ UNCHANGED <<sealed, stop_rounds, abort_tasks>>

AbortTimeout ==
    /\ Waiting("abort_wait") /\ ~Idle
    /\ prepare' = "no"
    /\ UNCHANGED <<sealed, stop_rounds, abort_tasks>>

Totals == <<stats.prompts, stats.tokens>>

Seal ==
    /\ \E prep \in {"drain", "abort_wait"} : Waiting(prep)
    /\ Idle
    /\ sealed' = Totals
    /\ prepare' = "no"
    /\ UNCHANGED <<stop_rounds, abort_tasks>>

-----------------------------------------------------------------------------
(* tokenize_worker: one turn drains up to LocalBs messages and treats them *)
(* by kind, in this order: rebuild messages, replies (admissions, tokens,  *)
(* errors), tokenization, aborts.                                          *)

ErrorsRelayedFirst(told) ==
    OfKind(told, {"error"}) \o OfKind(told, {"token", "last"}) \o OfKind(told, {"admitted"})
\* _send_generation_replies
Relayed(told) ==
    OfKind(told, {"admitted"}) \o OfKind(told, {"token", "last"}) \o OfKind(told, {"error"})

\* Requests whose decode status this turn drops.
DecodedToEnd(told, asked) == Ids(OfKind(told, {"last"}))
DecodeEnds(told, asked) ==
    Ids(OfKind(told, {"last", "error"})) \cup Ids(OfKind(asked, {"abort"}))

Renamed(s, kind) == [k \in DOMAIN s |-> Msg(kind, s[k].id)]
ToEncode(asked) == {k \in DOMAIN asked : asked[k].kind = "tokenize"}
ToRefuse(asked) == {k \in ToEncode(asked) : asked[k].id \in BadPrompts}

\* What a turn sends to the scheduler, and what to the frontend.
Forwarded(asked) ==
    OfKind(asked, {"rebuild"}) \o
    (Renamed(At(asked, ToEncode(asked) \ ToRefuse(asked)), "user") \o OfKind(asked, {"abort"}))
Answered(told, asked) ==
    OfKind(told, {"rebuilt"}) \o
    (Relayed(told) \o Renamed(At(asked, ToRefuse(asked)), "error"))

WorkerTurn(w) ==
    \E i \in 0 .. (IF w \in Tokenizers THEN Len(to_worker[w]) ELSE 0),
       j \in 0 .. (IF w = Detokenizer THEN Len(to_detok) ELSE 0) :
      /\ Alive(w)
      /\ i + j \in 1 .. LocalBs
      /\ LET asked == IF w \in Tokenizers THEN SubSeq(to_worker[w], 1, i) ELSE <<>>
             told  == SubSeq(to_detok, 1, j)
         IN  /\ to_front' = [to_front EXCEPT ![w] = @ \o Answered(told, asked)]
             /\ IF w \in Tokenizers
                THEN /\ to_worker' = [to_worker EXCEPT ![w] = SubSeq(@, i + 1, Len(@))]
                     /\ to_sched' = [to_sched EXCEPT ![w] = @ \o Forwarded(asked)]
                ELSE UNCHANGED <<to_worker, to_sched>>
             /\ to_detok' = SubSeq(to_detok, j + 1, Len(to_detok))
             /\ decode_map' = IF w = Detokenizer
                              THEN (decode_map \cup Ids(OfKind(told, {"token"})))
                                     \ DecodeEnds(told, asked)
                              ELSE decode_map
      /\ UNCHANGED <<maintenance_state, listening, requests, rebuilds, stopping, watching, dead,
                     backend>>

-----------------------------------------------------------------------------
(* The scheduler process, as Engine allows it.                             *)

SchedulerRuns ==
    /\ Alive("scheduler")
    /\ UNCHANGED <<maintenance_state, listening, requests, rebuilds, stopping, watching,
                   to_worker, to_front, decode_map, dead>>

Reply(s) == to_detok' = to_detok \o s

SchedulerReceives(w) ==
    /\ SchedulerRuns
    /\ to_sched[w] # <<>>
    /\ to_sched' = [to_sched EXCEPT ![w] = Tail(@)]
    /\ LET m == Head(to_sched[w])
       IN  \/ /\ m.kind = "user"
              /\ \/ (Backend!UserDropped(m.id) \/ Backend!UserQueued(m.id)) /\ UNCHANGED to_detok
                 \/ Backend!UserRejected(m.id) /\ Reply(Msgs("error", {m.id}))
              /\ UNCHANGED rebuild_msg
           \/ /\ m.kind = "abort"
              /\ Backend!AbortReceived(m.id)
              /\ UNCHANGED <<to_detok, rebuild_msg>>
           \/ /\ m.kind = "rebuild"
              /\ \/ Backend!RebuildQueued /\ rebuild_msg' = m.id /\ UNCHANGED to_detok
                 \/ /\ Backend!RebuildBusy
                    /\ Reply(<<Msg("rebuilt", m.id)>>) /\ UNCHANGED rebuild_msg

SchedulerAdmits ==
    /\ SchedulerRuns
    /\ \E S \in SUBSET Uids : Backend!PromptsAdmitted(S) /\ Reply(Msgs("admitted", S))
    /\ UNCHANGED <<to_sched, rebuild_msg>>

SchedulerPublishes ==
    /\ SchedulerRuns
    /\ \E S \in SUBSET Uids : \E F \in SUBSET S :
         /\ S \cup pending_abort_acks # {}
         /\ {u \in S : emitted[u] + 1 = MaxTokens} \subseteq F
         /\ Backend!Published(S, F)
         /\ Reply(Msgs("token", S \ F) \o Msgs("last", F) \o Msgs("error", pending_abort_acks))
    /\ UNCHANGED <<to_sched, rebuild_msg>>

SchedulerRebuilds ==
    /\ SchedulerRuns
    /\ Backend!RebuildExecuted
    /\ Reply(<<Msg("rebuilt", rebuild_msg)>>)
    /\ rebuild_msg' = 0
    /\ UNCHANGED to_sched

-----------------------------------------------------------------------------
(* The supervisor thread, and what it hands to the event loop.             *)

Dies(p) ==
    /\ Cardinality(dead) < MaxDeaths
    /\ Alive(p)
    /\ dead' = dead \cup {p}
    /\ UNCHANGED <<maintenance_state, listening, requests, rebuilds, stopping, watching, queues,
                   decode_map, backend>>

SupervisorRuns ==
    UNCHANGED <<listening, requests, rebuilds, stopping, queues, decode_map, dead, backend>>

\* _mark_backend_ready
MarkReady ==
    /\ SupervisorRuns
    /\ supervisor = "loading" /\ dead = {}
    /\ supervisor' = "watching"
    /\ maintenance_state' = IF maintenance_state = "loading" THEN "serving" ELSE maintenance_state
    /\ UNCHANGED <<fatal_error, loop_calls>>

\* _on_failure, step by step: the latch ...
MarkFailed ==
    /\ SupervisorRuns
    /\ supervisor \in {"loading", "watching"} /\ dead # {}
    /\ supervisor' = "marked"
    /\ fatal_error' = TRUE
    /\ maintenance_state' = "failed"
    /\ UNCHANGED loop_calls

HandToIdleLoop(call) ==
    loop_calls' = IF listening /\ loop_calls = <<>> THEN <<call>> ELSE loop_calls
HandToLoop(call) == loop_calls' = IF listening THEN Append(loop_calls, call) ELSE loop_calls

\* ... fail_pending_rebuilds ...
FailPendingRebuilds ==
    /\ SupervisorRuns
    /\ supervisor = "marked"
    /\ supervisor' = "rebuilds_failed"
    /\ HandToLoop("fail rebuilds")
    /\ UNCHANGED <<maintenance_state, fatal_error>>

\* ... and fail_inflight_requests.
FailInflightRequests ==
    /\ SupervisorRuns
    /\ supervisor = "rebuilds_failed"
    /\ supervisor' = "done"
    /\ HandToLoop("fail requests")
    /\ UNCHANGED <<maintenance_state, fatal_error>>

\* _resolve_all
ResolveAll ==
    /\ LoopFree
    /\ loop_calls # <<>> /\ Head(loop_calls) = "fail rebuilds"
    /\ loop_calls' = Tail(loop_calls)
    /\ rebuild_futures' = {}
    /\ UNCHANGED <<active_rebuild, last_rebuild_id, maintenance_state, listening, requests,
                   stopping, fatal_error, supervisor, queues, decode_map, dead, backend>>

\* _fail_all: every slot is released, every request in ack_map gets an error.
FailAll ==
    /\ LoopFree
    /\ loop_calls # <<>> /\ Head(loop_calls) = "fail requests"
    /\ loop_calls' = Tail(loop_calls)
    /\ gate_uids' = {}
    /\ gate_free' = gate_free + Cardinality(gate_uids)
    /\ stats' = [stats EXCEPT
                   !.inflight = @ \ ack_map,
                   !.aborting = @ \ ack_map,
                   !.completed = @ \cup ((ack_map \cap stats.inflight) \ stats.aborting)]
    /\ acks' = [u \in Uids |-> IF u \in ack_map THEN acks[u] \cup {"finished"} ELSE acks[u]]
    /\ UNCHANGED <<uid_counter, ack_map, http, abort_tasks, maintenance_state, listening, rebuilds,
                   stopping, fatal_error, supervisor, queues, decode_map, dead, backend>>

-----------------------------------------------------------------------------
Client(u) == AdmitGeneration(u) \/ SubmitFails(u) \/ ClientLeaves(u)

Handler(u) ==
    Submit(u) \/ TakeAcks(u) \/ TakeAcksFails(u) \/ \E why \in {"client", "stop"} : abort_user(u, why)

Listener(w) == ListenReply(w) \/ ResolveRebuild(w)

SchedulerSteps ==
    \/ \E w \in Tokenizers : SchedulerReceives(w)
    \/ SchedulerAdmits \/ SchedulerPublishes \/ SchedulerRebuilds

Supervisor ==
    MarkReady \/ MarkFailed \/ FailPendingRebuilds \/ FailInflightRequests \/ ResolveAll \/ FailAll

Barrier == AbortInFlight \/ AbortsSent \/ Seal

\* Nothing is left to do, or a worker is gone and the serve is about to exit.
Quiescent ==
    /\ dead # {} \/ /\ uid_counter = Cardinality(Uids) \/ maintenance_state = "stopping" \/ SendFails
                    /\ \A w \in Tokenizers : to_worker[w] = <<>> /\ to_sched[w] = <<>>
                    /\ to_detok = <<>> /\ \A w \in Workers : to_front[w] = <<>>
                    /\ Backend!HeldRequests = {} /\ prepare = "no"
    /\ UNCHANGED vars

Next ==
    \/ \E u \in Uids : Client(u) \/ Handler(u)
    \/ \E w \in Workers : Listener(w) \/ WorkerTurn(w)
    \/ SchedulerSteps
    \/ DispatchRebuild \/ DispatchFails \/ \E r \in RebuildIds : RebuildTimeout(r)
    \/ PrepareStop \/ Barrier \/ AbortTimeout
    \/ Supervisor \/ \E p \in Processes : Dies(p)
    \/ Quiescent

Spec == Init /\ [][Next]_vars

\* Every process keeps running while it has something to do.  Nothing is said of
\* stops: nobody has to ask for one, nor again when its barrier timed out.
FairSpec ==
    /\ Spec
    /\ \A u \in Uids : WF_vars(Handler(u))
    /\ \A w \in Workers : WF_vars(Listener(w)) /\ WF_vars(WorkerTurn(w))
    /\ \A w \in Tokenizers : WF_vars(SchedulerReceives(w))
    /\ WF_vars(SchedulerAdmits) /\ WF_vars(SchedulerPublishes) /\ WF_vars(SchedulerRebuilds)
    /\ WF_vars(Supervisor) /\ WF_vars(Barrier)

-----------------------------------------------------------------------------
(* Properties.                                                             *)

TypeOK ==
    /\ maintenance_state \in {"loading", "serving", "rebuilding", "stopping", "failed"}
    /\ fatal_error \in BOOLEAN /\ listening \in BOOLEAN
    /\ uid_counter \in 0 .. Cardinality(Uids)
    /\ ack_map \subseteq Uids /\ acks \in [Uids -> SUBSET {"reply", "finished"}]
    /\ gate_free \in 0 .. GateLimit /\ gate_uids \subseteq Uids
    /\ stats.inflight \subseteq Uids /\ stats.aborting \subseteq stats.inflight
    /\ stats.completed \subseteq Uids
    /\ stats.prompts \in [Uids -> 0 .. 1] /\ stats.tokens \in [Uids -> 0 .. MaxTokens]
    /\ http \in [Uids -> {"none", "registered", "waiting", "answered", "failed", "left", "broken"}]
    /\ abort_tasks \in [Uids -> SUBSET {"client", "stop"}]
    /\ active_rebuild \in {0} \cup RebuildIds /\ rebuild_futures \subseteq RebuildIds
    /\ prepare \in {"no", "drain", "aborting", "abort_wait"}
    /\ supervisor \in {"loading", "watching", "marked", "rebuilds_failed", "done"}
    /\ decode_map \subseteq Uids /\ dead \subseteq Processes

\* Messages on their way from the scheduler to the listener.
Upstream == {to_detok[i] : i \in DOMAIN to_detok} \cup
            UNION {{to_front[w][i] : i \in DOMAIN to_front[w]} : w \in Workers}

\* A request stays in flight for the statistics as long as the engine serves it
\* or a token of it is on its way: otherwise the totals could be sealed, and the
\* engine killed, with tokens uncounted (accounting.py:1-8).
InFlightUntilLastToken ==
    \A u \in Uids :
        \/ stage[u] \in {"held", "closing"}
        \/ \E m \in Upstream : m.id = u /\ m.kind \in {"admitted", "token", "last"}
        => u \in stats.inflight

\* The sealed totals are the engine's: every token it sampled is in them, for
\* good.
SealedTotalsFinal ==
    sealed # <<>> => sealed = Totals /\ stats.tokens = emitted

\* The generation limit bounds what is in the backend, not what is connected: a
\* slot whose client left is only free again after the terminal reply.
GateBoundsBackend ==
    GateLimit > 0 =>
        /\ gate_free + Cardinality(gate_uids) = GateLimit
        /\ Cardinality({u \in Uids : stage[u] \in {"held", "closing"}}) <= GateLimit

\* Pipes a rebuild travels through and back.
Pipes == Upstream \cup
         UNION {{to_worker[w][i] : i \in DOMAIN to_worker[w]} \cup
                {to_sched[w][i] : i \in DOMAIN to_sched[w]} : w \in Tokenizers}

\* While the backend owns a rebuild no generation is admitted and no second
\* rebuild starts, though its HTTP wait may be long over.
RebuildOwnsGate ==
    /\ \A m \in Pipes : m.kind \in {"rebuild", "rebuilt"} => m.id = active_rebuild
    /\ rebuild_msg \in {0, active_rebuild}
    /\ active_rebuild # 0 => maintenance_state \in {"rebuilding", "failed"}

\* A decode status in the detokenizer belongs to a request whose terminal
\* message has still to pass it; otherwise it would never be dropped.
NoDecodeLeak ==
    \A u \in decode_map :
        \/ stage[u] \in {"held", "closing"} \/ u \in pending_abort_acks
        \/ \E i \in DOMAIN to_detok : to_detok[i].id = u /\ Finished(to_detok[i])

\* Admission closed by a stop or by a failure never opens again.
AdmissionStaysClosed ==
    [][/\ maintenance_state = "stopping" => maintenance_state' \in {"stopping", "failed"}
       /\ maintenance_state = "failed" => maintenance_state' = "failed"]_vars

\* A client that stays connected is answered, unless the stop barrier dropped
\* its entry: after a worker's death, with an error.
ClientsAnswered ==
    \A u \in Uids : http[u] = "waiting" ~> http[u] # "waiting" \/ u \notin ack_map

\* Whoever wants the stop asks again each time its barrier timed out.  accounting.py:55
\* demands it of the daemon ("must preserve the process and retry"), which asks
\* once for each stop it is given and answers 503 (app.py:212-217): it is the operator's.
OperatorRetries == SF_vars(PrepareStop /\ maintenance_state = "stopping")

\* A stop that is asked for again whenever its barrier timed out seals in the end:
\* what keeps the totals open ends, also when its client is gone or its abort
\* overtook it.
StopSeals == OperatorRetries => (maintenance_state = "stopping" ~> sealed # <<>>)

\* A rebuild whose message was delivered does not keep the gate closed.
RebuildsEnd == maintenance_state = "rebuilding" ~> maintenance_state # "rebuilding"
==============================================================================
