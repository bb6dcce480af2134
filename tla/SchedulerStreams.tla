--------------------------- MODULE SchedulerStreams ---------------------------
(***************************************************************************)
(* What a request's tokens go through: the prompt, the row of token_pool   *)
(* the device extends, the host's copy and the stream sent to the client.  *)
(* The inductive invariant behind HostFollowsDevice and StopsExactly, over *)
(* ControlInv and ContractInv.                                             *)
(***************************************************************************)
EXTENDS SchedulerContract

\* The stream of u, with the reply that is about to leave.
Sent(u) == out.tokens[u] \o new_tokens(u)

\* Prompt and output budget fit the row, and no object outgrows them.
BudgetOK(p) == Len(Prompt[p.uid]) + p.output_len <= ConfigMaxSeqLen
BudgetsOK ==
    /\ \A u \in Uids :
         IF req[u].n = 0 THEN req[u].device_len = 0 /\ req[u].cached_len = 0
         ELSE /\ req[u].cached_len <= req[u].device_len
              /\ req[u].device_len <= max_device_len(u)
              /\ req[u].output_len > 0 /\ max_device_len(u) <= ConfigMaxSeqLen
    /\ \A i \in 1 .. Len(pending_list) : BudgetOK(pending_list[i])
    /\ Planning => \A k \in 1 .. Len(adder.chunked_list) : BudgetOK(adder.chunked_list[k])

\* A chunk's host copy is the part of the prompt computed so far, or launched
\* next; nothing has been sent for it.
ChunksOK ==
    \A u \in Uids :
        /\ req[u].n = 0 \/ req[u].chunked => Sent(u) = <<>>
        /\ req[u].chunked =>
             /\ req[u].input_ids = Prefix(Prompt[u], Len(req[u].input_ids))
             /\ Len(req[u].input_ids) < Len(Prompt[u])
             /\ Len(req[u].input_ids) = IF Processed(u) THEN req[u].device_len ELSE req[u].cached_len

\* The host copy of a request still served is its prompt and its stream, short
\* of its budget and with no EOS.
HostOK ==
    \A u \in Holders : ~req[u].chunked =>
        /\ req[u].input_ids = Prompt[u] \o Sent(u)
        /\ Len(req[u].input_ids) < max_device_len(u)
        /\ \A k \in 1 .. Len(Sent(u)) : Sent(u)[k] # Eos

\* A stream goes on after no EOS, and ends with one or with the whole budget.
Complete(u) ==
    Len(Sent(u)) > 0 /\ (Last(Sent(u)) = Eos \/ Len(Prompt[u]) + Len(Sent(u)) = max_device_len(u))
Ending(u) == u \in out.finished \/ \E i \in 1 .. Len(reply) : reply[i].uid = u /\ reply[i].finished
EndsOK ==
    \A u \in Uids :
        /\ \A k \in 1 .. Len(Sent(u)) - 1 : Sent(u)[k] # Eos
        /\ Ending(u) => Complete(u)

\* The row holds the host's tokens, then those of the launched entries.
Device(u) == token_pool[req[u].table_idx]
RowOK(u) ==
    /\ \A k \in 1 .. Len(req[u].input_ids) : Device(u)[k] = req[u].input_ids[k]
    /\ ~req[u].chunked /\ ~req[u].aborted =>
         /\ \A i \in 1 .. Len(Old) : Old[i].uid = u /\ Old[i].n = req[u].n =>
              Device(u)[Len(req[u].input_ids) + 1] = Old[i].token
         /\ \A i \in 1 .. Len(New) : New[i].uid = u => Device(u)[req[u].device_len] = New[i].token

DeviceOK ==
    /\ token_pool \in [Tables -> [1 .. ConfigMaxSeqLen -> Vocab \cup {0}]]
    /\ \A u \in Holders : RowOK(u)

StreamInv == BudgetsOK /\ ChunksOK /\ HostOK /\ EndsOK /\ DeviceOK
===============================================================================
