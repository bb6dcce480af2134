-------------------------- MODULE SchedulerInvariant --------------------------
(***************************************************************************)
(* The inductive invariant behind the theorems of SchedulerProofs: who     *)
(* knows about a request, in every phase of the loop.                      *)
(***************************************************************************)
EXTENDS Scheduler

\* The launched entries _process_last_data will visit before, and after, the
\* next launch.
Old == IF pc = "drain" THEN drain ELSE last_data.reqs
New == IF pc = "drain" /\ Overlap THEN ongoing.reqs ELSE <<>>

\* The newest object of u is an entry of s; entries are one per request.
In(u, s) == \E i \in 1 .. Len(s) : s[i].uid = u /\ s[i].n = req[u].n
Distinct(s) == \A i, j \in 1 .. Len(s) : s[i].uid = s[j].uid => i = j

\* An entry is of the newest object, or of a chunk the request has outgrown.
EntryOK(e) ==
    /\ e.n \in 1 .. req[e.uid].n
    /\ IF e.n = req[e.uid].n THEN e.chunked = req[e.uid].chunked ELSE e.chunked

Queued(u) == \E i \in 1 .. Len(pending_list) : pending_list[i].uid = u
Planning == pc \in {"plan", "raise_multimodal"}
Processed(u) == Planning /\ \E i \in 1 .. Len(adder.reqs) : adder.reqs[i].uid = u

\* Launched batches; in a receive phase, and for the second one always,
\* entries are of the newest objects.
BatchesOK ==
    /\ Distinct(Old) /\ Distinct(New)
    /\ \A i \in 1 .. Len(Old) :
         /\ EntryOK(Old[i])
         /\ pc \in {"idle", "recv"} => Old[i].n = req[Old[i].uid].n
         /\ Planning => Old[i].n = req[Old[i].uid].n \/ Processed(Old[i].uid)
    /\ \A i \in 1 .. Len(New) : EntryOK(New[i]) /\ New[i].n = req[New[i].uid].n
    /\ ~Overlap => last_data = NoBatch
    /\ pc # "drain" => new_finished_reqs = {}
    /\ pc = "drain" /\ Overlap /\ last_data = NoBatch => drain = <<>> /\ new_finished_reqs = {}

\* The queue: a chunked entry has its object, a fresh one has none yet.
WaitingOK(p) ==
    ~Processed(p.uid) =>
        IF p.chunked
        THEN /\ Held(p.uid) /\ req[p.uid].chunked /\ ~req[p.uid].aborted
             /\ req[p.uid].cached_len <= Len(Prompt[p.uid])
        ELSE req[p.uid].n = 0

QueueOK ==
    /\ Distinct(pending_list)
    /\ \A i \in 1 .. Len(pending_list) : WaitingOK(pending_list[i])

\* The pass so far took a prefix of the queue, an entry of adder.reqs for each ...
Taken == [uid : Uids, n : Nat, chunked : BOOLEAN, token : {0}, fresh : BOOLEAN]
PlanTypes ==
    /\ adder.token_budget \in Int
    /\ adder.reqs \in Seq(Taken)
    /\ adder.chunked_list \in Seq(PendingReqs)
    /\ adder.rest \in Seq(PendingReqs)

PlanPrefix ==
    /\ Len(adder.reqs) + Len(adder.rest) = Len(pending_list)
    /\ \A i \in 1 .. Len(adder.rest) : adder.rest[i] = pending_list[Len(adder.reqs) + i]
    /\ \A i \in 1 .. Len(adder.reqs) : adder.reqs[i].uid = pending_list[i].uid

\* ... whose object is the one just made, and which is on chunked_list exactly
\* when prompt is left after it.
TakenOK(e) ==
    /\ Held(e.uid) /\ e.n = req[e.uid].n /\ e.chunked = req[e.uid].chunked
    /\ ~req[e.uid].aborted
    /\ req[e.uid].device_len <= Len(Prompt[e.uid])
    /\ e.chunked => \E k \in 1 .. Len(adder.chunked_list) : adder.chunked_list[k].uid = e.uid

PlanChunks ==
    /\ Distinct(adder.chunked_list)
    /\ \A k \in 1 .. Len(adder.chunked_list) :
         /\ adder.chunked_list[k].chunked
         /\ \E i \in 1 .. Len(adder.reqs) :
              adder.reqs[i].uid = adder.chunked_list[k].uid /\ adder.reqs[i].chunked

PlanOK ==
    Planning =>
        /\ PlanTypes /\ PlanPrefix /\ PlanChunks
        /\ \A i \in 1 .. Len(adder.reqs) : TakenOK(adder.reqs[i])

\* The decode set.
RunningOK ==
    \A u \in running_reqs :
        /\ Held(u) /\ ~req[u].chunked /\ ~req[u].aborted
        /\ req[u].device_len < max_device_len(u)
        /\ ~Queued(u)

\* A request that has not arrived, and one whose end has been seen.
UnbornOK ==
    \A u \in Uids :
        /\ u \in inbox.user => ~Queued(u) /\ req[u].n = 0
        /\ req[u].n = 0 => ~Held(u)
        /\ u \in finished_reqs \cup new_finished_reqs => req[u].n > 0 /\ ~Held(u)

\* The tokens the device has and the host has not.
Lag(u) == (IF In(u, Old) THEN 1 ELSE 0) + (IF In(u, New) THEN 1 ELSE 0)

\* An object that holds a row is known to somebody who will end it.
Known(u) ==
    Held(u) =>
        IF req[u].aborted THEN In(u, Old) /\ ~In(u, New)
        ELSE IF req[u].chunked THEN Queued(u)
        ELSE /\ u \in running_reqs \/ Processed(u) \/ In(u, Old) \/ In(u, New)
             /\ req[u].device_len = Len(req[u].input_ids) + Lag(u)
             /\ u \in running_reqs \/ Processed(u) \/ req[u].device_len >= max_device_len(u)

HeldOK == \A u \in Uids : Known(u)

\* A launched entry without its row has had its end seen.
LaunchedOK ==
    /\ \A i \in 1 .. Len(Old) : Held(Old[i].uid) \/ Old[i].uid \in finished_reqs
    /\ \A i \in 1 .. Len(New) : Held(New[i].uid) \/ New[i].uid \in new_finished_reqs

\* An aborted request is out of the queues; a late UserMsg meets its tombstone.
AbortedOK ==
    \A u \in out.acked \cup pending_abort_acks :
        /\ ~Queued(u) /\ u \notin running_reqs
        /\ u \in inbox.user => u \in tombstones
        /\ Held(u) => u \notin out.acked /\ In(u, Old) /\ ~In(u, New)

\* TableManager's rows: each is free once or held by one request.
TablesOK ==
    /\ \A i, j \in 1 .. Len(table_free) : table_free[i] = table_free[j] => i = j
    /\ \A u, v \in Holders : req[u].table_idx = req[v].table_idx => u = v
    /\ \A u \in Holders : \A i \in 1 .. Len(table_free) : table_free[i] # req[u].table_idx
    /\ \A t \in Tables : \/ \E i \in 1 .. Len(table_free) : table_free[i] = t
                         \/ \E u \in Holders : req[u].table_idx = t

\* In every phase of the loop, whoever holds a row is known to exactly the
\* queue, the decode set or the launched batch that will free it, and the
\* finished, tombstone and acknowledgement sets agree with that.
ControlInv ==
    /\ ControlTypes /\ BatchesOK /\ QueueOK /\ PlanOK /\ RunningOK /\ UnbornOK
    /\ HeldOK /\ LaunchedOK /\ AbortedOK /\ TablesOK
===============================================================================
