---------------------------- MODULE SchedulerProofs ----------------------------
(***************************************************************************)
(* What holds of scheduler.py for every number of requests, rows, pages    *)
(* and every token budget: SchedulerInvariant!ControlInv is inductive, and *)
(* the ownership of the page table's rows, the safety of the overlap, the  *)
(* meaning of an abort acknowledgement and of a rebuild follow from it.    *)
(*                                                                         *)
(* One lemma per action, in the order of the loop: receiving, aborting,    *)
(* rebuilding, the prefill pass, the launch, the drain.                    *)
(***************************************************************************)
EXTENDS SchedulerInvariant, RadixTreeProofs

\* match_req hands out a handle that is a prefix of the prompt.
LEMMA MatchReq ==
  ASSUME NEW u \in Uids
  PROVE  /\ match_req(u).path \in Seq(Vocab)
         /\ Len(match_req(u).path) \in 0 .. Len(Prompt[u])
<1>1. Prompt[u] \in Seq(Vocab) /\ Len(Prompt[u]) > 0
  BY SchedulerAssumption
<1> DEFINE ids == IF Shareable(u) THEN Front(Prompt[u]) ELSE <<>>
<1>2. ids \in Seq(Vocab) /\ Len(ids) <= Len(Prompt[u])
  BY <1>1 DEF Front
<1>3. match_req(u).path = Prefix(ids, MatchLen(tree, ids))
  BY DEF match_req, match_prefix, Walk
<1> HIDE DEF ids
<1>4. MatchLen(tree, ids) \in 0 .. Len(ids)
  BY <1>2, MatchLenBound
<1> QED BY <1>1, <1>2, <1>3, <1>4, PrefixType

\* Whichever way cache_req goes, the object's handle stays a token sequence.
LEMMA CommitHandle ==
  ASSUME NEW u, NEW r \in Reqs, NEW finished \in BOOLEAN
  PROVE  cache_req(u, r, finished).handle \in Seq(Vocab)
<1>1. ComputedIds(r) \in Seq(Vocab)
  <2>1. Len(r.input_ids) \in Nat /\ r.cached_len \in Nat /\ r.input_ids \in Seq(Vocab)
    BY DEF Reqs
  <2>2. Min({Len(r.input_ids), r.cached_len}) \in 0 .. Len(r.input_ids)
    BY <2>1, MinOfTwo
  <2> QED BY <2>1, <2>2, PrefixType DEF ComputedIds
<1>2. \A pages : insert_prefix(tree, ComputedIds(r), pages).path \in Seq(Vocab)
  BY <1>1, InsertPath
<1>3. r.handle \in Seq(Vocab)
  BY DEF Reqs
<1> QED BY <1>2, <1>3 DEF cache_req

\* Replacing the object of one request leaves the others alone.
LEMMA UpdateReq ==
  ASSUME NEW u \in Uids, NEW r \in Reqs, req \in [Uids -> Reqs],
         req' = [req EXCEPT ![u] = r]
  PROVE  /\ req' \in [Uids -> Reqs]
         /\ req'[u] = r
         /\ \A v \in Uids \ {u} : req'[v] = req[v]
  OBVIOUS

\* Freeing the row of u keeps every row with one owner.
LEMMA FreeRowTables ==
  ASSUME NEW u \in Uids, NEW r \in Reqs, NEW commit,
         ControlTypes, TablesOK,
         r.table_idx = req[u].table_idx, Held(u),
         FreeRow(u, r, commit)
  PROVE  /\ TablesOK'
         /\ table_free' \in Seq(Tables)
         /\ req' \in [Uids -> Reqs]
         /\ req'[u] = [r EXCEPT !.table_idx = NoTable]
         /\ \A v \in Uids \ {u} : req'[v] = req[v]
<1> DEFINE t == req[u].table_idx
<1>1. t \in Tables /\ table_free \in Seq(Tables)
  BY DEF ControlTypes, Reqs, Held
<1>2. [r EXCEPT !.table_idx = NoTable] \in Reqs
  BY DEF Reqs
<1>3. /\ req' \in [Uids -> Reqs]
      /\ req'[u] = [r EXCEPT !.table_idx = NoTable]
      /\ \A v \in Uids \ {u} : req'[v] = req[v]
  BY <1>2, UpdateReq DEF FreeRow, ControlTypes
<1>4. ~Held(u)' /\ \A v \in Uids \ {u} : Held(v)' = Held(v)
  BY <1>3 DEF Held, Reqs
<1>5. table_free' = Append(table_free, t)
  BY DEF FreeRow
<1>6. /\ table_free' \in Seq(Tables)
      /\ Len(table_free') = Len(table_free) + 1
      /\ \A i \in 1 .. Len(table_free) : table_free'[i] = table_free[i]
      /\ table_free'[Len(table_free) + 1] = t
  BY <1>1, <1>5
<1>7. u \in Holders /\ Holders' = Holders \ {u}
  BY <1>4 DEF Holders
<1>8. \A i, j \in 1 .. Len(table_free') : table_free'[i] = table_free'[j] => i = j
  BY <1>1, <1>6, <1>7 DEF TablesOK
<1>9. \A v, w \in Holders' : req'[v].table_idx = req'[w].table_idx => v = w
  BY <1>3, <1>7 DEF TablesOK, Holders
<1>10. \A v \in Holders' : \A i \in 1 .. Len(table_free') : table_free'[i] # req'[v].table_idx
  BY <1>1, <1>3, <1>6, <1>7 DEF TablesOK, Holders
<1>11. ASSUME NEW s \in Tables
       PROVE  \/ \E i \in 1 .. Len(table_free') : table_free'[i] = s
              \/ \E v \in Holders' : req'[v].table_idx = s
  <2>1. CASE s = t
    BY <1>1, <1>6, <2>1
  <2>2. CASE \E i \in 1 .. Len(table_free) : table_free[i] = s
    BY <1>1, <1>6, <2>2
  <2>3. CASE s # t /\ \E v \in Holders : req[v].table_idx = s
    BY <1>3, <1>7, <2>3 DEF Holders
  <2> QED BY <2>1, <2>2, <2>3 DEF TablesOK
<1> QED BY <1>3, <1>6, <1>8, <1>9, <1>10, <1>11 DEF TablesOK

-----------------------------------------------------------------------------
(* Receiving.                                                              *)

\* What a step that only receives leaves as it was.
Quiet ==
    /\ pc \in {"idle", "recv"}
    /\ UNCHANGED <<pending_list, running_reqs, req, last_data, ongoing, drain, reply,
                   finished_reqs, new_finished_reqs>>

\* A receiving step that touches neither the queues nor the objects keeps every
\* part of the invariant that does not speak of the messages.
LEMMA QuietStep ==
  ASSUME ControlInv, Quiet,
         \/ pc' = "recv"
         \/ pc' = "plan" /\ adder'.reqs = <<>> /\ adder'.chunked_list = <<>>
                         /\ adder'.rest = pending_list /\ adder'.token_budget \in Int
  PROVE  /\ BatchesOK' /\ QueueOK' /\ PlanOK' /\ RunningOK' /\ HeldOK' /\ LaunchedOK'
         /\ table_free' = table_free => TablesOK'
         /\ Old' = Old /\ New' = New
         /\ \A u : Queued(u)' = Queued(u)
<1> USE DEF ControlInv, Quiet
<1>1. Old' = Old /\ New' = New /\ Old = last_data.reqs /\ New = <<>>
  BY DEF Old, New
<1>2. \A u : Queued(u)' = Queued(u) /\ ~Processed(u) /\ ~Processed(u)'
  BY DEF Queued, Processed, Planning
<1>3. \A u : (In(u, Old)' <=> In(u, Old)) /\ (In(u, New)' <=> In(u, New)) /\ Held(u)' = Held(u)
  BY <1>1 DEF In, Held
<1>4. BatchesOK'
  BY <1>1 DEF BatchesOK, Distinct, EntryOK, Planning
<1>5. QueueOK'
  BY <1>2, <1>3 DEF QueueOK, WaitingOK, Distinct
<1>6. PlanOK'
  <2>1. CASE pc' = "recv"
    BY <2>1 DEF PlanOK, Planning
  <2>2. CASE pc' = "plan"
    <3>1. pending_list' \in Seq(PendingReqs)
      BY DEF ControlTypes
    <3>2. /\ adder'.reqs = <<>> /\ adder'.chunked_list = <<>>
          /\ adder'.rest = pending_list' /\ adder'.token_budget \in Int
      BY <2>2
    <3> QED BY <3>1, <3>2 DEF PlanOK, PlanTypes, PlanPrefix, PlanChunks, Distinct
  <2> QED BY <2>1, <2>2
<1>7. RunningOK'
  BY <1>2, <1>3 DEF RunningOK, max_device_len
<1>8. HeldOK'
  BY <1>1, <1>2, <1>3 DEF HeldOK, Known, Lag, max_device_len
<1>9. LaunchedOK'
  BY <1>1, <1>3 DEF LaunchedOK
<1>10. table_free' = table_free => TablesOK'
  BY DEF TablesOK, Holders, Held
<1> QED BY <1>1, <1>2, <1>4, <1>5, <1>6, <1>7, <1>8, <1>9, <1>10

\* Dropping a UserMsg together with its tombstone.
LEMMA UserAbortedInv ==
  ASSUME ControlInv, NEW u \in Uids, UserAborted(u)
  PROVE  ControlInv'
<1> USE DEF UserAborted, Receiving, batches, device
<1>1. Quiet /\ pc' = "recv"
  BY DEF Quiet
<1>2. ControlTypes'
  BY DEF ControlInv, ControlTypes, Phases
<1>3. UnbornOK'
  BY <1>1, QuietStep DEF ControlInv, UnbornOK, Held
<1>4. AbortedOK'
  BY <1>1, QuietStep DEF ControlInv, AbortedOK, Held, In
<1> QED BY <1>1, <1>2, <1>3, <1>4, QuietStep DEF ControlInv

\* Refusing a prompt that leaves no room for output.
LEMMA UserTooLongInv ==
  ASSUME ControlInv, NEW u \in Uids, UserTooLong(u)
  PROVE  ControlInv'
<1> USE DEF UserTooLong, Receiving, batches, device
<1>1. Quiet /\ pc' = "recv"
  BY DEF Quiet
<1>2. inbox'.user \subseteq inbox.user /\ out'.acked = out.acked
  BY DEF ControlInv, ControlTypes
<1>3. ControlTypes'
  <2>1. inbox' \in [user : SUBSET Uids, abort : SUBSET Uids, rebuilds : Nat]
    BY DEF ControlInv, ControlTypes
  <2>2. /\ DOMAIN out' = {"tokens", "admitted", "finished", "error", "acked", "rebuilds"}
        /\ out'.finished \cup out'.error \cup out'.acked \subseteq Uids /\ out'.rebuilds \in Nat
    BY DEF ControlInv, ControlTypes
  <2> QED BY <2>1, <2>2 DEF ControlInv, ControlTypes, Phases
<1>4. UnbornOK'
  BY <1>1, <1>2, QuietStep DEF ControlInv, UnbornOK, Held
<1>5. AbortedOK'
  BY <1>1, <1>2, QuietStep DEF ControlInv, AbortedOK, Held, In
<1> QED BY <1>1, <1>3, <1>4, <1>5, QuietStep DEF ControlInv

\* Queueing a rebuild, or refusing it while requests run.
LEMMA RebuildReceivedInv ==
  ASSUME ControlInv, NEW n \in RebuildSizes, RebuildReceived(n)
  PROVE  ControlInv'
<1> USE DEF RebuildReceived, Receiving, batches, device
<1>1. Quiet /\ pc' = "recv"
  BY DEF Quiet
<1>2. inbox'.user = inbox.user /\ out'.acked = out.acked
  BY DEF ControlInv, ControlTypes
<1>3. ControlTypes'
  <2> DEFINE i == [inbox EXCEPT !.rebuilds = @ + 1]
             o == [out EXCEPT !.rebuilds = @ + 1]
  <2>1. i \in [user : SUBSET Uids, abort : SUBSET Uids, rebuilds : Nat]
    <3>1. inbox \in [user : SUBSET Uids, abort : SUBSET Uids, rebuilds : Nat]
      BY DEF ControlInv, ControlTypes
    <3> QED BY ONLY <3>1
  <2>2. /\ DOMAIN o = {"tokens", "admitted", "finished", "error", "acked", "rebuilds"}
        /\ o.finished \cup o.error \cup o.acked \subseteq Uids /\ o.rebuilds \in Nat
    BY DEF ControlInv, ControlTypes
  <2>4. inbox' = i /\ out' \in {out, o}
    OBVIOUS
  <2> HIDE DEF i, o
  <2>3. pending_rebuild' \in RebuildSizes \cup {NoRebuild}
    BY DEF ControlInv, ControlTypes
  <2> QED BY <2>1, <2>2, <2>3, <2>4 DEF ControlInv, ControlTypes, Phases
<1>4. UnbornOK'
  BY <1>1, <1>2, QuietStep DEF ControlInv, UnbornOK, Held
<1>5. AbortedOK'
  BY <1>1, <1>2, QuietStep DEF ControlInv, AbortedOK, Held, In
<1> QED BY <1>1, <1>3, <1>4, <1>5, QuietStep DEF ControlInv

\* The output budget a queued request gets leaves it inside config.max_seq_len.
LEMMA NewEntry ==
  ASSUME ControlInv, NEW u \in Uids, max_seq_len - Len(Prompt[u]) > 0,
         NEW len, len = Min({MaxTokens[u], max_seq_len - Len(Prompt[u])})
  PROVE  /\ len \in 1 .. ConfigMaxSeqLen /\ Len(Prompt[u]) + len <= ConfigMaxSeqLen
         /\ [uid |-> u, chunked |-> FALSE, output_len |-> len] \in PendingReqs
<1>1. /\ MaxTokens[u] \in Nat \ {0} /\ Len(Prompt[u]) \in Nat
      /\ ConfigMaxSeqLen \in Nat \ {0} /\ PageSize \in Nat \ {0}
  BY SchedulerAssumption, PageSizeAssumption
<1>2. num_pages \in Nat
  BY SchedulerAssumption DEF ControlInv, ControlTypes
<1>3. num_pages * PageSize \in Int
  BY <1>1, <1>2
<1>4. max_seq_len \in Int /\ max_seq_len <= ConfigMaxSeqLen
  <2> DEFINE pool == num_pages * PageSize
  <2>1. max_seq_len = Min({ConfigMaxSeqLen, pool}) /\ ConfigMaxSeqLen \in Int /\ pool \in Int
    BY <1>1, <1>3 DEF max_seq_len
  <2> HIDE DEF pool
  <2>2. Min({ConfigMaxSeqLen, pool}) = IF ConfigMaxSeqLen <= pool THEN ConfigMaxSeqLen ELSE pool
    BY ONLY <2>1, MinOfTwo, Zenon
  <2> QED BY <2>1, <2>2
<1>5. len \in 1 .. ConfigMaxSeqLen /\ Len(Prompt[u]) + len <= ConfigMaxSeqLen
  <2> DEFINE room == max_seq_len - Len(Prompt[u])
  <2>1. /\ len = Min({MaxTokens[u], room}) /\ room \in Int /\ room > 0
        /\ Len(Prompt[u]) + room <= ConfigMaxSeqLen
    BY <1>1, <1>4
  <2> HIDE DEF room
  <2>2. MaxTokens[u] \in Int
    BY <1>1
  <2>3. Min({MaxTokens[u], room}) = IF MaxTokens[u] <= room THEN MaxTokens[u] ELSE room
    BY ONLY <2>1, <2>2, MinOfTwo, Zenon
  <2> QED BY <1>1, <2>1, <2>3
<1> QED BY <1>5 DEF PendingReqs

\* Queueing a new request: nobody knew of it, and no abort is waiting for it.
LEMMA UserQueuedInv ==
  ASSUME ControlInv, NEW u \in Uids, UserQueued(u)
  PROVE  ControlInv'
<1> USE DEF UserQueued, Receiving, batches, device
<1> DEFINE len == Min({MaxTokens[u], max_seq_len - Len(Prompt[u])})
           p == [uid |-> u, chunked |-> FALSE, output_len |-> len]
<1>1. p \in PendingReqs
  <2>1. max_seq_len - Len(Prompt[u]) > 0
    OBVIOUS
  <2> HIDE DEF UserQueued
  <2> QED BY <2>1, NewEntry
<1> HIDE DEF len
<1>2. /\ pending_list \in Seq(PendingReqs) /\ pending_list' = Append(pending_list, p)
      /\ p.uid = u /\ ~p.chunked
  BY DEF ControlInv, ControlTypes, len
<1> HIDE DEF p
<1>3. /\ pending_list' \in Seq(PendingReqs)
      /\ Len(pending_list') = Len(pending_list) + 1
      /\ \A i \in 1 .. Len(pending_list) : pending_list'[i] = pending_list[i]
      /\ pending_list'[Len(pending_list')] = p
      /\ Len(pending_list) \in Nat
  BY <1>1, <1>2
<1>4. \A v : Queued(v)' <=> Queued(v) \/ v = u
  BY <1>2, <1>3 DEF Queued
<1>5. ~Queued(u) /\ req[u].n = 0 /\ ~Held(u) /\ u \notin running_reqs
  BY DEF ControlInv, UnbornOK, ControlTypes, RunningOK
<1>6. inbox'.user = inbox.user \ {u} /\ out'.acked = out.acked
  BY DEF ControlInv, ControlTypes
<1>7. Old' = Old /\ New' = New /\ Old = last_data.reqs /\ New = <<>>
  BY DEF Old, New
<1>8. \A v : ~Processed(v) /\ ~Processed(v)'
  BY DEF Processed, Planning
<1>9. \A v : (In(v, Old)' <=> In(v, Old)) /\ (In(v, New)' <=> In(v, New)) /\ Held(v)' = Held(v)
  BY <1>7 DEF In, Held
<1>10. ControlTypes'
  BY <1>3 DEF ControlInv, ControlTypes, Phases
<1>11. BatchesOK'
  BY <1>7 DEF ControlInv, BatchesOK, Distinct, EntryOK, Planning
<1>12. QueueOK'
  <2>1. Distinct(pending_list')
    BY <1>2, <1>3, <1>5 DEF ControlInv, QueueOK, Distinct, Queued
  <2> QED BY <1>2, <1>3, <1>5, <1>8, <1>9, <2>1 DEF ControlInv, QueueOK, WaitingOK
<1>13. PlanOK'
  BY DEF PlanOK, Planning
<1>14. RunningOK'
  BY <1>4, <1>5, <1>9 DEF ControlInv, RunningOK, max_device_len
<1>15. UnbornOK'
  BY <1>4, <1>6, <1>9 DEF ControlInv, UnbornOK
<1>16. HeldOK'
  BY <1>4, <1>7, <1>8, <1>9 DEF ControlInv, HeldOK, Known, Lag, max_device_len
<1>17. LaunchedOK'
  BY <1>7, <1>9 DEF ControlInv, LaunchedOK
<1>18. AbortedOK'
  BY <1>4, <1>6, <1>9 DEF ControlInv, AbortedOK
<1>19. TablesOK'
  BY DEF ControlInv, TablesOK, Holders, Held
<1> QED
  BY <1>10, <1>11, <1>12, <1>13, <1>14, <1>15, <1>16, <1>17, <1>18, <1>19 DEF ControlInv

\* What is left of a sequence after RemoveAt.
LEMMA RemoveAtProperties ==
  ASSUME NEW S, NEW s \in Seq(S), NEW i \in 1 .. Len(s)
  PROVE  /\ RemoveAt(s, i) \in Seq(S)
         /\ Len(RemoveAt(s, i)) = Len(s) - 1
         /\ \A j \in 1 .. Len(s) - 1 : RemoveAt(s, i)[j] = s[IF j < i THEN j ELSE j + 1]
<1> DEFINE a == SubSeq(s, 1, i - 1)
           b == SubSeq(s, i + 1, Len(s))
<1>1. /\ a \in Seq(S) /\ Len(a) = i - 1
      /\ \A j \in 1 .. i - 1 : a[j] = s[j]
  OBVIOUS
<1>2. /\ b \in Seq(S) /\ Len(b) = Len(s) - i
      /\ \A j \in 1 .. Len(s) - i : b[j] = s[i + j]
  OBVIOUS
<1>3. RemoveAt(s, i) = a \o b
  BY DEF RemoveAt
<1> HIDE DEF a, b
<1>4. a \o b \in Seq(S) /\ Len(a \o b) = Len(s) - 1
  <2>1. Len(a \o b) = Len(a) + Len(b) /\ a \o b \in Seq(S)
    BY <1>1, <1>2, ConcatProperties
  <2> QED BY <1>1, <1>2, <2>1
<1>5. ASSUME NEW j \in 1 .. Len(s) - 1
      PROVE  (a \o b)[j] = s[IF j < i THEN j ELSE j + 1]
  <2>1. (a \o b)[j] = IF j <= i - 1 THEN a[j] ELSE b[j - (i - 1)]
    BY <1>1, <1>2
  <2>2. CASE j < i
    BY <1>1, <2>1, <2>2
  <2>3. CASE j >= i
    <3>1. j - (i - 1) \in 1 .. Len(s) - i
      BY <2>3
    <3>2. b[j - (i - 1)] = s[i + (j - (i - 1))]
      BY <1>2, <3>1
    <3>3. i + (j - (i - 1)) = j + 1
      OBVIOUS
    <3> QED BY <2>1, <2>3, <3>2, <3>3
  <2>4. j < i \/ j >= i
    OBVIOUS
  <2> QED BY ONLY <2>2, <2>3, <2>4
<1> QED BY <1>3, <1>4, <1>5

\* PrefillManager.abort_req: u's entry goes, the others keep their order.
LEMMA PopPendingProperties ==
  ASSUME NEW u \in Uids, ControlTypes, Distinct(pending_list), PopPending(u)
  PROVE  /\ pending_list' \in Seq(PendingReqs)
         /\ Distinct(pending_list')
         /\ \A j \in 1 .. Len(pending_list') : \E i \in 1 .. Len(pending_list) :
                pending_list'[j] = pending_list[i] /\ pending_list[i].uid # u
         /\ ~Queued(u)'
         /\ \A v \in Uids \ {u} : Queued(v)' <=> Queued(v)
<1>1. pending_list \in Seq(PendingReqs)
  BY DEF ControlTypes
<1>2. CASE \E i \in 1 .. Len(pending_list) : pending_list[i].uid = u
  <2>1. PICK i \in 1 .. Len(pending_list) :
            pending_list[i].uid = u /\ pending_list' = RemoveAt(pending_list, i)
    BY <1>2 DEF PopPending
  <2>2. /\ pending_list' \in Seq(PendingReqs)
        /\ Len(pending_list') = Len(pending_list) - 1
        /\ \A j \in 1 .. Len(pending_list') :
             pending_list'[j] = pending_list[IF j < i THEN j ELSE j + 1]
    BY <1>1, <2>1, RemoveAtProperties
  <2>3. \A j \in 1 .. Len(pending_list') :
           \E k \in 1 .. Len(pending_list) :
              pending_list'[j] = pending_list[k] /\ pending_list[k].uid # u
    BY <1>1, <2>1, <2>2 DEF Distinct
  <2>4. Distinct(pending_list')
    <3> SUFFICES ASSUME NEW j \in 1 .. Len(pending_list'), NEW k \in 1 .. Len(pending_list'),
                        pending_list'[j].uid = pending_list'[k].uid
                 PROVE  j = k
      BY DEF Distinct
    <3> DEFINE At(x) == IF x < i THEN x ELSE x + 1
    <3>1. At(j) \in 1 .. Len(pending_list) /\ At(k) \in 1 .. Len(pending_list)
      BY <1>1, <2>2
    <3>2. At(j) = At(k)
      BY <2>2, <3>1 DEF Distinct
    <3> QED BY <1>1, <3>2
  <2>5. \A v \in Uids \ {u} : Queued(v)' <=> Queued(v)
    <3>1. ASSUME NEW v \in Uids \ {u}, Queued(v)
          PROVE  Queued(v)'
      <4>1. PICK k \in 1 .. Len(pending_list) : pending_list[k].uid = v
        BY <3>1 DEF Queued
      <4>2. k # i
        BY <2>1, <4>1
      <4>3. pending_list'[IF k < i THEN k ELSE k - 1] = pending_list[k]
        BY <1>1, <2>2, <4>2
      <4> QED BY <1>1, <2>2, <4>1, <4>2, <4>3 DEF Queued
    <3> QED BY <2>3, <3>1 DEF Queued
  <2> QED BY <2>2, <2>3, <2>4, <2>5 DEF Queued
<1>3. CASE ~\E i \in 1 .. Len(pending_list) : pending_list[i].uid = u
  BY <1>1, <1>3 DEF PopPending, Queued, Distinct
<1> QED BY <1>2, <1>3

\* What every abort does to the queues, whatever becomes of the object.
LEMMA AbortReceivedFacts ==
  ASSUME ControlInv, NEW u \in Uids, AbortReceived(u)
  PROVE  /\ pc \in {"idle", "recv"} /\ pc' = "recv"
         /\ Old' = Old /\ New' = New /\ Old = last_data.reqs /\ New = <<>>
         /\ pending_list' \in Seq(PendingReqs)
         /\ Distinct(pending_list')
         /\ \A j \in 1 .. Len(pending_list') : \E i \in 1 .. Len(pending_list) :
                pending_list'[j] = pending_list[i] /\ pending_list[i].uid # u
         /\ ~Queued(u)' /\ \A v \in Uids \ {u} : Queued(v)' <=> Queued(v)
         /\ running_reqs' = running_reqs \ {u}
         /\ \A v : ~Processed(v) /\ ~Processed(v)'
         /\ inbox'.user = inbox.user /\ inbox' \in [user : SUBSET Uids, abort : SUBSET Uids, rebuilds : Nat]
         /\ pending_abort_acks' = pending_abort_acks \cup {u} /\ tombstones' = tombstones \cup {u}
         /\ UNCHANGED <<out, last_data, ongoing, drain, reply, finished_reqs, new_finished_reqs,
                        pending_rebuild, num_pages>>
<1> USE DEF AbortReceived, Receiving, batches
<1>1. PopPending(u) /\ ControlTypes /\ Distinct(pending_list)
  BY DEF ControlInv, QueueOK
<1>2. pc \in {"idle", "recv"} /\ pc' = "recv"
  OBVIOUS
<1>3. Old' = Old /\ New' = New /\ Old = last_data.reqs /\ New = <<>>
  BY DEF Old, New
<1>4. \A v : ~Processed(v) /\ ~Processed(v)'
  BY DEF Processed, Planning
<1>5. inbox'.user = inbox.user /\ inbox' \in [user : SUBSET Uids, abort : SUBSET Uids, rebuilds : Nat]
  <2>1. inbox \in [user : SUBSET Uids, abort : SUBSET Uids, rebuilds : Nat]
    BY DEF ControlInv, ControlTypes
  <2>2. inbox' = [inbox EXCEPT !.abort = @ \ {u}]
    OBVIOUS
  <2> QED BY ONLY <2>1, <2>2
<1> QED BY <1>1, <1>2, <1>3, <1>4, <1>5, PopPendingProperties

\* An abort changes nothing of what is known of the other requests.
LEMMA AbortFrame ==
  ASSUME ControlInv, NEW u \in Uids, AbortReceived(u),
         req' \in [Uids -> Reqs],
         \A v \in Uids \ {u} : req'[v] = req[v],
         req'[u].n = req[u].n, req'[u].chunked = req[u].chunked,
         Held(u)' => Held(u)
  PROVE  /\ BatchesOK' /\ QueueOK' /\ PlanOK' /\ RunningOK' /\ UnbornOK'
         /\ \A v \in Uids : (In(v, Old)' <=> In(v, Old)) /\ ~In(v, New)'
         /\ \A v \in Uids \ {u} : Known(v)' /\ Held(v)' = Held(v)
         /\ table_free' \in Seq(Tables) => ControlTypes'
<1>1. /\ pc \in {"idle", "recv"} /\ pc' = "recv"
      /\ Old' = Old /\ New' = New /\ Old = last_data.reqs /\ New = <<>>
      /\ pending_list' \in Seq(PendingReqs) /\ Distinct(pending_list')
      /\ ~Queued(u)' /\ \A v \in Uids \ {u} : Queued(v)' <=> Queued(v)
      /\ running_reqs' = running_reqs \ {u}
      /\ \A v : ~Processed(v) /\ ~Processed(v)'
      /\ inbox'.user = inbox.user
      /\ inbox' \in [user : SUBSET Uids, abort : SUBSET Uids, rebuilds : Nat]
      /\ pending_abort_acks' = pending_abort_acks \cup {u} /\ tombstones' = tombstones \cup {u}
      /\ UNCHANGED <<out, last_data, ongoing, drain, reply, finished_reqs, new_finished_reqs,
                     pending_rebuild, num_pages>>
  BY AbortReceivedFacts
<1>2. \A j \in 1 .. Len(pending_list') : \E i \in 1 .. Len(pending_list) :
          pending_list'[j] = pending_list[i] /\ pending_list[i].uid # u
  BY AbortReceivedFacts
<1>3. /\ ControlTypes /\ BatchesOK /\ QueueOK /\ RunningOK /\ UnbornOK /\ HeldOK
      /\ pending_list \in Seq(PendingReqs)
      /\ Old \in Seq(Entries)
  BY <1>1 DEF ControlInv, ControlTypes, Batches
<1>4. \A i \in 1 .. Len(Old) : Old[i].uid \in Uids
  <2>1. ASSUME NEW i \in 1 .. Len(Old) PROVE Old[i] \in Entries
    BY <1>3, <2>1, ElementOfSeq
  <2> QED BY <2>1 DEF Entries
<1>5. /\ \A v \in Uids : Held(v)' => Held(v)
      /\ \A v \in Uids : req'[v].n = req[v].n /\ req'[v].chunked = req[v].chunked
  BY DEF Held
<1>6. \A v \in Uids \ {u} : Held(v)' = Held(v)
  BY DEF Held
<1>7. \A v \in Uids : (In(v, Old)' <=> In(v, Old)) /\ ~In(v, New) /\ ~In(v, New)'
  BY <1>1, <1>4 DEF In
<1>8. BatchesOK'
  <2>1. Distinct(Old)' /\ Distinct(New)'
    BY <1>1, <1>3 DEF BatchesOK, Distinct
  <2>2. ASSUME NEW i \in 1 .. Len(Old)
        PROVE  EntryOK(Old[i])' /\ Old'[i].n = req'[Old'[i].uid].n
    <3>1. EntryOK(Old[i]) /\ Old[i].n = req[Old[i].uid].n
      BY <1>1, <1>3 DEF BatchesOK
    <3>2. Old'[i] = Old[i]
      BY <1>1
    <3> QED BY <1>4, <1>5, <3>1, <3>2 DEF EntryOK
  <2>3. (~Overlap => last_data = NoBatch)' /\ (new_finished_reqs = {})'
    BY <1>1, <1>3 DEF BatchesOK
  <2>4. New' = <<>> /\ Old' = Old /\ pc' = "recv"
    BY <1>1
  <2> QED BY ONLY <2>1, <2>2, <2>3, <2>4 DEF BatchesOK, Planning
<1>9. QueueOK'
  <2>1. ASSUME NEW p \in PendingReqs, WaitingOK(p), p.uid # u
        PROVE  WaitingOK(p)'
    <3>1. p.uid \in Uids \ {u}
      BY <2>1 DEF PendingReqs
    <3> QED BY <1>1, <1>6, <2>1, <3>1 DEF WaitingOK
  <2>2. ASSUME NEW j \in 1 .. Len(pending_list')
        PROVE  WaitingOK(pending_list[j])'
    <3>1. PICK i \in 1 .. Len(pending_list) :
              pending_list'[j] = pending_list[i] /\ pending_list[i].uid # u
      BY <1>2
    <3>2. PICK p \in PendingReqs : p = pending_list[i]
      BY <1>3, ElementOfSeq
    <3>3. WaitingOK(p)
      BY <1>3, <3>2 DEF QueueOK
    <3>4. WaitingOK(p)'
      BY <2>1, <3>1, <3>2, <3>3
    <3>5. pending_list'[j] = p
      BY <3>1, <3>2
    <3> QED BY ONLY <3>4, <3>5 DEF WaitingOK
  <2>3. Distinct(pending_list)'
    BY <1>1
  <2> QED BY ONLY <2>2, <2>3 DEF QueueOK
<1>10. PlanOK'
  BY <1>1 DEF PlanOK, Planning
<1>11. RunningOK'
  BY <1>1, <1>3, <1>6 DEF RunningOK, max_device_len, ControlTypes
<1>12. UnbornOK'
  BY <1>1, <1>3, <1>5 DEF UnbornOK, ControlTypes
<1>13. \A v \in Uids \ {u} : Known(v)'
  BY <1>1, <1>3, <1>6, <1>7 DEF HeldOK, Known, Lag, max_device_len
<1>14. ASSUME table_free' \in Seq(Tables)
       PROVE  ControlTypes'
  BY <1>1, <1>3, <1>14 DEF ControlTypes, Phases
<1> QED BY <1>6, <1>7, <1>8, <1>9, <1>10, <1>11, <1>12, <1>13, <1>14

\* An abort that finds nothing to free.
LEMMA AbortUnheldInv ==
  ASSUME ControlInv, NEW u \in Uids, AbortUnheld(u)
  PROVE  ControlInv'
<1>1. AbortReceived(u) /\ ~AbortTarget(u) /\ req' = req /\ table_free' = table_free
  BY DEF AbortUnheld, device
<1>2. \A v \in Uids : Held(v)' = Held(v)
  BY <1>1 DEF Held
<1>3. /\ BatchesOK' /\ QueueOK' /\ PlanOK' /\ RunningOK' /\ UnbornOK' /\ ControlTypes'
      /\ \A v \in Uids : (In(v, Old)' <=> In(v, Old)) /\ ~In(v, New)'
      /\ \A v \in Uids \ {u} : Known(v)'
  <2>1. req \in [Uids -> Reqs] /\ table_free \in Seq(Tables)
    BY DEF ControlInv, ControlTypes
  <2> QED BY <1>1, <1>2, <2>1, AbortFrame
<1>4. /\ pc \in {"idle", "recv"} /\ New = <<>> /\ New' = New /\ Old' = Old
      /\ ~Queued(u)' /\ running_reqs' = running_reqs \ {u}
      /\ \A v \in Uids \ {u} : Queued(v)' <=> Queued(v)
      /\ \A v : ~Processed(v) /\ ~Processed(v)'
      /\ inbox'.user = inbox.user
      /\ pending_abort_acks' = pending_abort_acks \cup {u} /\ tombstones' = tombstones \cup {u}
      /\ UNCHANGED <<out, finished_reqs, new_finished_reqs>>
  BY <1>1, AbortReceivedFacts
\* Not a target, so what it holds is in the launched batch.
<1>5. Held(u) => In(u, Old) /\ (req[u].aborted \/ ~req[u].chunked)
  <2>1. SUFFICES ASSUME Held(u)
                 PROVE  In(u, Old) /\ (req[u].aborted \/ ~req[u].chunked)
    OBVIOUS
  <2>2. Known(u) /\ u \notin running_reqs /\ ~Processed(u) /\ ~In(u, New)
    <3>1. Known(u) /\ u \notin running_reqs
      BY <1>1 DEF ControlInv, HeldOK, AbortTarget
    <3> QED BY <1>4, <3>1 DEF In
  <2>3. ~Queued(u)
    <3>1. SUFFICES ASSUME NEW i \in 1 .. Len(pending_list), pending_list[i].uid = u
                   PROVE  FALSE
      BY DEF Queued
    <3>2. ~pending_list[i].chunked /\ WaitingOK(pending_list[i])
      BY <1>1, <3>1 DEF AbortTarget, ControlInv, QueueOK
    <3>3. req[u].n = 0
      BY <1>4, <3>1, <3>2 DEF WaitingOK
    <3> QED BY <2>1, <3>3 DEF ControlInv, UnbornOK
  <2> QED BY <2>1, <2>2, <2>3 DEF Known
<1>6. Known(u)'
  <2>1. Known(u) /\ u \notin running_reqs /\ ~In(u, New)
    BY <1>1, <1>4 DEF ControlInv, HeldOK, AbortTarget, In
  <2> QED BY <1>1, <1>2, <1>3, <1>4, <1>5, <2>1 DEF Known, Lag, max_device_len
<1>7. LaunchedOK'
  BY <1>1, <1>4 DEF ControlInv, LaunchedOK, Held
<1>8. AbortedOK'
  BY <1>2, <1>3, <1>4, <1>5 DEF ControlInv, AbortedOK, ControlTypes
<1>9. TablesOK'
  BY <1>1 DEF ControlInv, TablesOK, Holders, Held
<1> QED BY <1>3, <1>6, <1>7, <1>8, <1>9 DEF ControlInv, HeldOK

\* An abort that finds its request's forward in flight only marks the object; the
\* launched batch is what still knows of it.
LEMMA AbortInFlightInv ==
  ASSUME ControlInv, NEW u \in Uids, AbortInFlight(u)
  PROVE  ControlInv'
<1> DEFINE r == [req[u] EXCEPT !.aborted = TRUE]
<1>1. /\ AbortReceived(u) /\ AbortTarget(u) /\ InBatch(u, last_data)
      /\ req' = [req EXCEPT ![u] = r] /\ table_free' = table_free
  BY DEF AbortInFlight, device
<1>2. req \in [Uids -> Reqs] /\ table_free \in Seq(Tables)
  BY DEF ControlInv, ControlTypes
<1>3. r \in Reqs /\ r.n = req[u].n /\ r.chunked = req[u].chunked /\ r.aborted
         /\ r.table_idx = req[u].table_idx
  BY <1>2 DEF Reqs
<1> HIDE DEF r
<1>4. req' \in [Uids -> Reqs] /\ req'[u] = r /\ \A v \in Uids \ {u} : req'[v] = req[v]
  BY <1>1, <1>2, <1>3, UpdateReq
<1>5. \A v \in Uids : req'[v].table_idx = req[v].table_idx /\ Held(v)' = Held(v)
  BY <1>3, <1>4 DEF Held
<1>6. /\ BatchesOK' /\ QueueOK' /\ PlanOK' /\ RunningOK' /\ UnbornOK' /\ ControlTypes'
      /\ \A v \in Uids : (In(v, Old)' <=> In(v, Old)) /\ ~In(v, New)'
      /\ \A v \in Uids \ {u} : Known(v)'
  BY <1>1, <1>2, <1>3, <1>4, <1>5, AbortFrame
<1>7. /\ Old = last_data.reqs /\ New = <<>> /\ New' = New /\ Old' = Old
      /\ ~Queued(u)' /\ running_reqs' = running_reqs \ {u}
      /\ \A v \in Uids \ {u} : Queued(v)' <=> Queued(v)
      /\ inbox'.user = inbox.user
      /\ pending_abort_acks' = pending_abort_acks \cup {u} /\ tombstones' = tombstones \cup {u}
      /\ UNCHANGED <<out, finished_reqs, new_finished_reqs>>
  BY <1>1, AbortReceivedFacts
<1>8. In(u, Old)
  BY <1>1, <1>7 DEF InBatch, In
<1>9. Known(u)'
  BY <1>3, <1>4, <1>6, <1>8 DEF Known
<1>10. LaunchedOK'
  <2>1. \A i \in 1 .. Len(Old) : Held(Old[i].uid) \/ Old[i].uid \in finished_reqs
    BY DEF ControlInv, LaunchedOK
  <2>2. ASSUME NEW i \in 1 .. Len(Old) PROVE Old[i].uid \in Uids
    <3>1. Old \in Seq(Entries)
      BY <1>7 DEF ControlInv, ControlTypes, Batches
    <3>2. Old[i] \in Entries
      BY <3>1, ElementOfSeq
    <3> QED BY <3>2 DEF Entries
  <2> QED BY <1>5, <1>7, <2>1, <2>2 DEF LaunchedOK
<1>11. AbortedOK'
  BY <1>5, <1>6, <1>7, <1>8 DEF ControlInv, AbortedOK, ControlTypes
<1>12. TablesOK'
  BY <1>1, <1>5 DEF ControlInv, TablesOK, Holders
<1> QED BY <1>6, <1>9, <1>10, <1>11, <1>12 DEF ControlInv, HeldOK

\* An abort that frees its request at once.
LEMMA AbortHeldInv ==
  ASSUME ControlInv, NEW u \in Uids, AbortHeld(u)
  PROVE  ControlInv'
<1> DEFINE r == [req[u] EXCEPT !.table_idx = NoTable]
<1>1. AbortReceived(u) /\ AbortTarget(u) /\ ~InBatch(u, last_data)
  BY DEF AbortHeld
<1>2. req \in [Uids -> Reqs]
  BY DEF ControlInv, ControlTypes
<1>3. /\ TablesOK' /\ table_free' \in Seq(Tables)
      /\ req' \in [Uids -> Reqs]
      /\ \A v \in Uids \ {u} : req'[v] = req[v]
      /\ req'[u] = req[u] \/ req'[u] = r
      /\ ~Held(u)'
  <2>1. CASE ~Held(u)
    <3>1. req' = req /\ table_free' = table_free
      BY <2>1 DEF AbortHeld, device, Held
    <3>2. TablesOK /\ table_free \in Seq(Tables)
      BY DEF ControlInv, ControlTypes
    <3>3. TablesOK'
      BY ONLY <3>1, <3>2 DEF TablesOK, Holders, Held
    <3> QED BY ONLY <1>2, <2>1, <3>1, <3>2, <3>3 DEF Held
  <2>2. CASE Held(u)
    <3>1. FreeRow(u, req[u], cache_req(u, req[u], TRUE))
      BY <2>2 DEF AbortHeld, Held
    <3>2. req[u] \in Reqs
      BY <1>2
    <3>3. /\ TablesOK' /\ table_free' \in Seq(Tables)
          /\ req' \in [Uids -> Reqs] /\ req'[u] = r
          /\ \A v \in Uids \ {u} : req'[v] = req[v]
      BY <2>2, <3>1, <3>2, FreeRowTables DEF ControlInv
    <3>4. ~Held(u)'
      BY <3>2, <3>3 DEF Held, Reqs
    <3> QED BY <3>3, <3>4
  <2> QED BY <2>1, <2>2
<1>4. r.n = req[u].n /\ r.chunked = req[u].chunked
  BY <1>2 DEF Reqs
<1> HIDE DEF r
<1>5. /\ BatchesOK' /\ QueueOK' /\ PlanOK' /\ RunningOK' /\ UnbornOK' /\ ControlTypes'
      /\ \A v \in Uids : (In(v, Old)' <=> In(v, Old)) /\ ~In(v, New)'
      /\ \A v \in Uids \ {u} : Known(v)' /\ Held(v)' = Held(v)
  BY <1>1, <1>3, <1>4, AbortFrame
<1>6. /\ pc \in {"idle", "recv"}
      /\ Old = last_data.reqs /\ New = <<>> /\ New' = New /\ Old' = Old
      /\ ~Queued(u)' /\ running_reqs' = running_reqs \ {u}
      /\ \A v \in Uids \ {u} : Queued(v)' <=> Queued(v)
      /\ inbox'.user = inbox.user
      /\ pending_abort_acks' = pending_abort_acks \cup {u} /\ tombstones' = tombstones \cup {u}
      /\ UNCHANGED <<out, finished_reqs, new_finished_reqs>>
  BY <1>1, AbortReceivedFacts
<1>7. Known(u)'
  BY <1>3 DEF Known
\* No launched entry is of the request that lost its row.
<1>8. LaunchedOK'
  <2>1. SUFFICES ASSUME NEW i \in 1 .. Len(Old)
                 PROVE  Held(Old[i].uid)' \/ Old[i].uid \in finished_reqs
    BY <1>6 DEF LaunchedOK
  <2>2. Old \in Seq(Entries)
    BY <1>6 DEF ControlInv, ControlTypes, Batches
  <2>3. PICK e \in Entries : e = Old[i]
    BY <2>2, ElementOfSeq
  <2>4. e.uid # u /\ e.uid \in Uids
    <3>1. e.n = req[e.uid].n
      BY <1>6, <2>3 DEF ControlInv, BatchesOK
    <3> QED BY <1>1, <1>6, <2>3, <3>1 DEF InBatch, Entries
  <2>5. Held(e.uid) \/ e.uid \in finished_reqs
    BY <2>3 DEF ControlInv, LaunchedOK
  <2>6. Held(e.uid)' = Held(e.uid)
    BY <1>5, <2>4
  <2>7. Old'[i] = e
    BY <1>6, <2>3
  <2> QED BY <2>3, <2>5, <2>6, <2>7 DEF Held
<1>9. AbortedOK'
  BY <1>3, <1>5, <1>6 DEF ControlInv, AbortedOK, ControlTypes
<1> QED BY <1>3, <1>5, <1>7, <1>8, <1>9 DEF ControlInv, HeldOK

-----------------------------------------------------------------------------
(* The end of receive_msg, and the rebuild it may run.                     *)

\* Nobody holds a row when nothing is queued, running or launched.
LEMMA NobodyHolds ==
  ASSUME ControlInv, pc = "recv", RebuildDue
  PROVE  Holders = {} /\ last_data = NoBatch
<1>1. /\ pending_list = <<>> /\ running_reqs = {} /\ last_data = NoBatch
  BY DEF RebuildDue, runnable, prefill_runnable, decode_runnable
<1>2. Old = <<>> /\ New = <<>>
  BY <1>1 DEF Old, New, NoBatch
<1>3. \A u : ~In(u, Old) /\ ~In(u, New) /\ ~Queued(u) /\ ~Processed(u)
  BY <1>1, <1>2 DEF In, Queued, Processed, Planning
<1>4. \A u \in Uids : ~Held(u)
  BY <1>1, <1>3 DEF ControlInv, HeldOK, Known
<1> QED BY <1>1, <1>4 DEF Holders

\* The message loop ends and the prefill pass begins, with or without a rebuild
\* that the engine rejected.
LEMMA EndReceiveInv ==
  ASSUME ControlInv, EndReceive \/ RebuildRejected
  PROVE  ControlInv'
<1>1. /\ pc = "recv" /\ pc' = "plan"
      /\ adder'.reqs = <<>> /\ adder'.chunked_list = <<>>
      /\ adder'.rest = pending_list /\ adder'.token_budget = PrefillBudget
      /\ UNCHANGED <<pending_list, running_reqs, req, last_data, ongoing, drain, reply, finished_reqs,
                     new_finished_reqs, tombstones, pending_abort_acks, num_pages, table_free,
                     inbox>>
      /\ pending_rebuild' \in {pending_rebuild, NoRebuild}
      /\ out' = out \/ out' = [out EXCEPT !.rebuilds = @ + 1]
  BY DEF EndReceive, RebuildRejected, StartPlan, batches, device
<1>2. Quiet /\ PrefillBudget \in Int
  BY <1>1, SchedulerAssumption DEF Quiet
<1>3. /\ out'.acked = out.acked /\ DOMAIN out' = DOMAIN out
      /\ out'.finished = out.finished /\ out'.error = out.error /\ out'.rebuilds \in Nat
  BY <1>1 DEF ControlInv, ControlTypes
<1>4. ControlTypes'
  BY <1>1, <1>3 DEF ControlInv, ControlTypes, Phases
<1>5. UnbornOK'
  BY <1>1, <1>2, QuietStep DEF ControlInv, UnbornOK, Held
<1>6. AbortedOK'
  BY <1>1, <1>2, <1>3, QuietStep DEF ControlInv, AbortedOK, Held, In
<1> QED BY <1>1, <1>2, <1>4, <1>5, <1>6, QuietStep DEF ControlInv

\* A rebuild gives every row back, which is sound because nobody holds one.
LEMMA RebuildDoneInv ==
  ASSUME ControlInv, RebuildDone
  PROVE  ControlInv'
<1>1. /\ pc = "recv" /\ pc' = "plan"
      /\ adder'.reqs = <<>> /\ adder'.chunked_list = <<>>
      /\ adder'.rest = pending_list /\ adder'.token_budget = PrefillBudget
      /\ UNCHANGED <<pending_list, running_reqs, req, last_data, ongoing, drain, reply, finished_reqs,
                     new_finished_reqs, tombstones, pending_abort_acks, inbox>>
      /\ pending_rebuild' = NoRebuild /\ num_pages' = pending_rebuild
      /\ table_free' = AllPages(MaxRunningReqs)
      /\ out' = [out EXCEPT !.rebuilds = @ + 1]
      /\ RebuildDue
  BY DEF RebuildDone, StartPlan, batches
<1>2. Quiet /\ PrefillBudget \in Int
  BY <1>1, SchedulerAssumption DEF Quiet
<1>3. /\ out'.acked = out.acked /\ DOMAIN out' = DOMAIN out
      /\ out'.finished = out.finished /\ out'.error = out.error /\ out'.rebuilds \in Nat
  BY <1>1 DEF ControlInv, ControlTypes
<1>4. num_pages' \in RebuildSizes
  BY <1>1 DEF RebuildDue, ControlInv, ControlTypes
<1>5. /\ table_free' = [i \in 1 .. MaxRunningReqs |-> i - 1]
      /\ table_free' \in Seq(Tables) /\ Len(table_free') = MaxRunningReqs
  <2>1. MaxRunningReqs \in Nat
    BY SchedulerAssumption
  <2>2. table_free' = [i \in 1 .. MaxRunningReqs |-> i - 1]
    BY <1>1 DEF AllPages
  <2>3. \A i \in 1 .. MaxRunningReqs : i - 1 \in Tables
    BY <2>1 DEF Tables
  <2>4. table_free' \in Seq(Tables)
    BY <2>1, <2>2, <2>3, IsASeq
  <2> QED BY <2>1, <2>2, <2>4
<1>6. ControlTypes'
  BY <1>1, <1>3, <1>4, <1>5 DEF ControlInv, ControlTypes, Phases
<1>7. UnbornOK'
  BY <1>1, <1>2, QuietStep DEF ControlInv, UnbornOK, Held
<1>8. AbortedOK'
  BY <1>1, <1>2, <1>3, QuietStep DEF ControlInv, AbortedOK, Held, In
<1>9. TablesOK'
  <2>1. Holders' = {}
    BY <1>1, NobodyHolds DEF Holders, Held
  <2>2. \A t \in Tables : t + 1 \in 1 .. MaxRunningReqs /\ table_free'[t + 1] = t
    BY <1>5, SchedulerAssumption DEF Tables
  <2>3. \A i, j \in 1 .. Len(table_free') : table_free'[i] = table_free'[j] => i = j
    BY ONLY <1>5, SchedulerAssumption
  <2>4. \A t \in Tables : \E i \in 1 .. Len(table_free') : table_free'[i] = t
    BY ONLY <1>5, <2>2
  <2> QED BY ONLY <2>1, <2>3, <2>4 DEF TablesOK, In, Holders
<1> QED BY <1>1, <1>2, <1>6, <1>7, <1>8, <1>9, QuietStep DEF ControlInv

\* A step that leaves the queue, the objects and the plan alone keeps the plan.
LEMMA PlanUnchanged ==
  ASSUME PlanOK, Planning, UNCHANGED <<pending_list, req, adder>>
  PROVE  PlanOK'
<1>1. PlanTypes /\ PlanPrefix /\ PlanChunks /\ \A i \in 1 .. Len(adder.reqs) : TakenOK(adder.reqs[i])
  BY DEF PlanOK
<1>2. PlanTypes'
  BY <1>1 DEF PlanTypes
<1>3. PlanPrefix'
  BY <1>1 DEF PlanPrefix
<1>4. PlanChunks'
  BY <1>1 DEF PlanChunks, Distinct
<1>5. (\A i \in 1 .. Len(adder.reqs) : TakenOK(adder.reqs[i]))'
  <2>1. SUFFICES ASSUME NEW i \in 1 .. Len(adder.reqs)
                 PROVE  TakenOK(adder.reqs[i])'
    OBVIOUS
  <2>2. TakenOK(adder.reqs[i])
    BY <1>1
  <2> QED BY <2>2 DEF TakenOK, Held
<1> QED BY ONLY <1>2, <1>3, <1>4, <1>5 DEF PlanOK

\* The exception of _add_one_req leaves the state where it was.
LEMMA ChunkMultimodalInv ==
  ASSUME ControlInv, ChunkMultimodal
  PROVE  ControlInv'
<1>1. /\ pc = "plan" /\ pc' = "raise_multimodal"
      /\ UNCHANGED <<pending_list, running_reqs, req, adder, last_data, ongoing, drain, reply,
                     finished_reqs, new_finished_reqs, tombstones, pending_abort_acks,
                     pending_rebuild, num_pages, table_free, inbox, out>>
  BY DEF ChunkMultimodal, Fits, CanTry, batches, device
<1>2. Old' = Old /\ New' = New /\ New = <<>>
  BY <1>1 DEF Old, New
<1>3. \A u : /\ Queued(u)' = Queued(u) /\ Processed(u)' = Processed(u) /\ Held(u)' = Held(u)
             /\ (In(u, Old)' <=> In(u, Old)) /\ (In(u, New)' <=> In(u, New))
  BY <1>1, <1>2 DEF Queued, Processed, Planning, Held, In
<1>4. ControlTypes'
  BY <1>1 DEF ControlInv, ControlTypes, Phases
<1>5. BatchesOK'
  BY <1>1, <1>2, <1>3 DEF ControlInv, BatchesOK, EntryOK, Planning, Processed
<1>6. QueueOK' /\ PlanOK'
  <2>1. QueueOK'
    BY <1>1, <1>3 DEF ControlInv, QueueOK, WaitingOK, Distinct, Held, Processed, Planning
  <2>2. PlanOK'
    <3>1. UNCHANGED <<pending_list, req, adder>> /\ PlanOK /\ Planning
      BY <1>1 DEF ControlInv, Planning
    <3> QED BY ONLY <3>1, PlanUnchanged
  <2> QED BY <2>1, <2>2
<1>7. RunningOK' /\ UnbornOK' /\ AbortedOK'
  BY <1>1, <1>3 DEF ControlInv, RunningOK, UnbornOK, AbortedOK, max_device_len
<1>8. HeldOK' /\ LaunchedOK'
  BY <1>1, <1>2, <1>3 DEF ControlInv, HeldOK, Known, Lag, LaunchedOK, max_device_len, Held
<1>9. TablesOK'
  BY <1>1 DEF ControlInv, TablesOK, Holders, Held
<1> QED BY <1>4, <1>5, <1>6, <1>7, <1>8, <1>9 DEF ControlInv

-----------------------------------------------------------------------------
(* Planning.                                                               *)

\* The head of what is left of the queue has not been taken in this pass.
LEMMA Candidate ==
  ASSUME ControlInv, CanTry
  PROVE  /\ candidate \in PendingReqs /\ candidate.uid \in Uids
         /\ Len(adder.reqs) + 1 \in 1 .. Len(pending_list)
         /\ pending_list[Len(adder.reqs) + 1] = candidate
         /\ \A i \in 1 .. Len(adder.reqs) :
              pending_list[i].uid = adder.reqs[i].uid /\ adder.reqs[i].uid # candidate.uid
         /\ Len(adder.rest) \in Nat \ {0} /\ candidate = adder.rest[1]
         /\ ~Processed(candidate.uid)
         /\ Queued(candidate.uid)
         /\ WaitingOK(candidate)
<1> DEFINE k == Len(adder.reqs) + 1
<1>1. /\ pc = "plan" /\ Planning /\ PlanOK /\ adder.rest # <<>>
      /\ Distinct(pending_list)
      /\ pending_list \in Seq(PendingReqs)
      /\ \A i \in 1 .. Len(pending_list) : WaitingOK(pending_list[i])
  BY DEF ControlInv, CanTry, Planning, QueueOK, ControlTypes
<1>2. /\ adder.rest \in Seq(PendingReqs) /\ Len(adder.reqs) \in Nat
      /\ Len(adder.reqs) + Len(adder.rest) = Len(pending_list)
      /\ \A i \in 1 .. Len(adder.rest) : adder.rest[i] = pending_list[Len(adder.reqs) + i]
      /\ \A i \in 1 .. Len(adder.reqs) : adder.reqs[i].uid = pending_list[i].uid
  <2>1. PlanTypes /\ PlanPrefix
    BY <1>1 DEF PlanOK
  <2>2. Len(adder.reqs) \in Nat
    BY <2>1, LenProperties DEF PlanTypes
  <2>3. adder.rest \in Seq(PendingReqs)
    BY ONLY <2>1 DEF PlanTypes
  <2> QED BY ONLY <2>1, <2>2, <2>3 DEF PlanPrefix
<1>3. /\ Len(adder.rest) \in Nat \ {0} /\ candidate = adder.rest[1]
      /\ k \in 1 .. Len(pending_list) /\ pending_list[k] = candidate
  <2>1. Len(adder.rest) \in Nat /\ Len(adder.rest) # 0 /\ Len(pending_list) \in Nat
    BY <1>1, <1>2, EmptySeq
  <2>2. candidate = adder.rest[1]
    BY <1>1, <1>2 DEF candidate
  <2>3. 1 \in 1 .. Len(adder.rest) /\ k \in 1 .. Len(pending_list)
    <3> DEFINE a == Len(adder.reqs)
               b == Len(adder.rest)
               c == Len(pending_list)
    <3>1. a \in Nat /\ b \in Nat /\ b # 0 /\ c \in Nat /\ a + b = c
      BY ONLY <1>2, <2>1
    <3> HIDE DEF a, b, c
    <3>2. 1 \in 1 .. b /\ a + 1 \in 1 .. c
      BY ONLY <3>1
    <3> QED BY ONLY <3>2 DEF a, b, c
  <2>4. adder.rest[1] = pending_list[k]
    BY ONLY <1>2, <2>3
  <2> QED BY <2>1, <2>2, <2>3, <2>4
<1>4. candidate \in PendingReqs /\ candidate.uid \in Uids
  <2>1. candidate \in PendingReqs
    BY <1>1, <1>3, ElementOfSeq
  <2> QED BY <2>1 DEF PendingReqs
<1>5. \A i \in 1 .. Len(adder.reqs) : adder.reqs[i].uid # candidate.uid
  <2>1. SUFFICES ASSUME NEW i \in 1 .. Len(adder.reqs), pending_list[i].uid = pending_list[k].uid
                 PROVE  FALSE
    BY <1>2, <1>3
  <2>2. i \in 1 .. Len(pending_list) /\ i # k
    <3> HIDE DEF k
    <3>1. k = Len(adder.reqs) + 1 /\ k \in 1 .. Len(pending_list) /\ Len(adder.reqs) \in Nat
          /\ Len(pending_list) \in Nat
      BY <1>1, <1>2, <1>3, LenProperties DEF k
    <3> QED BY ONLY <2>1, <3>1
  <2> QED BY <1>1, <1>3, <2>1, <2>2 DEF Distinct
<1>6. ~Processed(candidate.uid) /\ Queued(candidate.uid) /\ WaitingOK(candidate)
  BY <1>1, <1>3, <1>5 DEF Processed, Queued
<1> QED BY <1>2, <1>3, <1>4, <1>5, <1>6

\* What the chunk comes to: it fits the prompt.
LEMMA ChunkSize ==
  ASSUME ControlInv, CanTry, NEW cached \in 0 .. Len(Prompt[candidate.uid])
  PROVE  /\ chunk_size(cached) \in Nat
         /\ cached + chunk_size(cached) \in 0 .. Len(Prompt[candidate.uid])
         /\ chunk_size(cached) <= adder.token_budget /\ adder.token_budget \in Int
<1> DEFINE left == Len(Prompt[candidate.uid]) - cached
           budget == adder.token_budget
<1>1. candidate.uid \in Uids
  BY Candidate
<1>2. Len(Prompt[candidate.uid]) \in Nat
  BY <1>1, SchedulerAssumption
<1>3. budget \in Int /\ budget > 0 /\ left \in Nat /\ left + cached = Len(Prompt[candidate.uid])
  BY <1>2 DEF ControlInv, PlanOK, PlanTypes, Planning, CanTry
<1>4. chunk_size(cached) = Min({budget, left})
  BY DEF chunk_size
<1> HIDE DEF left, budget
<1>5. budget \in Int /\ left \in Int
  BY <1>3
<1>6. Min({budget, left}) = IF budget <= left THEN budget ELSE left
  BY ONLY <1>5, MinOfTwo, Zenon
<1>7. chunk_size(cached) \in Nat /\ chunk_size(cached) <= left /\ chunk_size(cached) <= budget
  BY <1>3, <1>4, <1>6
<1>8. cached \in Nat /\ cached <= Len(Prompt[candidate.uid])
  BY <1>2
<1> QED BY <1>2, <1>3, <1>7, <1>8 DEF budget

\* The object and the entry _add_one_req makes.
AddOneResult(u, cached, t) ==
    /\ req' \in [Uids -> Reqs]
    /\ \A v \in Uids \ {u} : req'[v] = req[v]
    /\ req'[u].n = req[u].n + 1 /\ req'[u].table_idx = t /\ ~req'[u].aborted
    /\ req'[u].chunked = is_chunked(cached)
    /\ req'[u].device_len \in 0 .. Len(Prompt[u])
    /\ Len(req'[u].input_ids) = req'[u].device_len
    /\ adder'.token_budget \in Int
    /\ adder'.reqs = Append(adder.reqs, [uid |-> u, n |-> req[u].n + 1,
                                         chunked |-> is_chunked(cached), token |-> 0,
                                         fresh |-> ~candidate.chunked])
    /\ adder'.chunked_list = IF is_chunked(cached)
                             THEN Append(adder.chunked_list, [candidate EXCEPT !.chunked = TRUE])
                             ELSE adder.chunked_list
    /\ adder'.rest = Tail(adder.rest)

(* Where the cursors of a newly added request stand: inside its prompt, its
   chunk not empty. *)
LEMMA AddOneFacts ==
  ASSUME ControlInv, CanTry, NEW cached \in 0 .. Len(Prompt[candidate.uid]),
         NEW t \in Tables, NEW handle \in Seq(Vocab), NEW reserved, NEW tokens,
         AddOne(cached, t, handle, reserved, tokens),
         NEW u, u = candidate.uid
  PROVE  AddOneResult(u, cached, t)
<1> DEFINE upto == cached + chunk_size(cached)
           r == [n |-> req[u].n + 1, table_idx |-> t, cached_len |-> cached, device_len |-> upto,
                 output_len |-> candidate.output_len, input_ids |-> Prefix(Prompt[u], upto),
                 handle |-> handle, chunked |-> is_chunked(cached), aborted |-> FALSE]
<1>1. u \in Uids /\ req \in [Uids -> Reqs] /\ candidate \in PendingReqs
  BY Candidate DEF ControlInv, ControlTypes
<1>2. Prompt[u] \in Seq(Vocab) /\ Len(Prompt[u]) \in Nat
  BY <1>1, SchedulerAssumption
<1>3. upto \in 0 .. Len(Prompt[u]) /\ chunk_size(cached) \in Nat /\ adder.token_budget \in Int
  BY ChunkSize
<1>4. Prefix(Prompt[u], upto) \in Seq(Vocab) /\ Len(Prefix(Prompt[u], upto)) = upto
  BY <1>2, <1>3, PrefixType
<1>5. /\ candidate.output_len \in 0 .. ConfigMaxSeqLen /\ req[u].n + 1 \in Nat
      /\ is_chunked(cached) \in BOOLEAN /\ cached \in Nat /\ upto \in Nat
  <2>1. candidate.output_len \in 1 .. ConfigMaxSeqLen /\ ConfigMaxSeqLen \in Nat
    BY <1>1, SchedulerAssumption DEF PendingReqs
  <2> HIDE DEF upto, r
  <2>2. candidate.output_len \in 0 .. ConfigMaxSeqLen
    BY ONLY <2>1
  <2>3. req[u] \in Reqs
    BY ONLY <1>1
  <2>4. req[u].n \in Nat
    BY ONLY <2>3 DEF Reqs
  <2>5. is_chunked(cached) \in BOOLEAN
    BY ONLY DEF is_chunked
  <2>6. cached \in 0 .. Len(Prompt[u])
    OBVIOUS
  <2>7. cached \in Nat /\ upto \in Nat
    BY ONLY <1>2, <1>3, <2>6
  <2> QED BY ONLY <2>2, <2>4, <2>5, <2>7
<1>6. r \in Reqs
  <2> HIDE DEF upto
  <2> QED BY <1>4, <1>5 DEF Reqs
<1>7. req' = [req EXCEPT ![u] = r]
  BY DEF AddOne
<1>8. /\ r.n = req[u].n + 1 /\ r.table_idx = t /\ ~r.aborted /\ r.chunked = is_chunked(cached)
      /\ r.device_len = upto /\ r.input_ids = Prefix(Prompt[u], upto)
  OBVIOUS
<1> HIDE DEF r
<1>9. req' \in [Uids -> Reqs] /\ req'[u] = r /\ \A v \in Uids \ {u} : req'[v] = req[v]
  BY <1>1, <1>6, <1>7, UpdateReq
<1>10. /\ adder'.token_budget = adder.token_budget - chunk_size(cached)
       /\ adder'.reqs = Append(adder.reqs, [uid |-> u, n |-> req[u].n + 1,
                                              chunked |-> is_chunked(cached), token |-> 0,
                                              fresh |-> ~candidate.chunked])
       /\ adder'.chunked_list = IF is_chunked(cached)
                                  THEN Append(adder.chunked_list, [candidate EXCEPT !.chunked = TRUE])
                                  ELSE adder.chunked_list
       /\ adder'.rest = Tail(adder.rest)
  BY DEF AddOne, is_continuation
<1> HIDE DEF upto
<1> QED BY <1>3, <1>4, <1>8, <1>9, <1>10 DEF AddOneResult

\* Taking one candidate keeps the control invariant, whatever row it is given,
\* as long as rows keep one owner each.
LEMMA AddOneInv ==
  ASSUME NEW u \in Uids, u = candidate.uid,
         ControlInv, CanTry, NEW cached \in 0 .. Len(Prompt[candidate.uid]),
         NEW t \in Tables, NEW handle \in Seq(Vocab), NEW reserved, NEW tokens,
         AddOne(cached, t, handle, reserved, tokens),
         UNCHANGED <<pc, pending_list, running_reqs, batches, tombstones, pending_abort_acks,
                     pending_rebuild, num_pages, inbox, out>>,
         table_free' \in Seq(Tables), TablesOK'
  PROVE  ControlInv'
<1> DEFINE e == [uid |-> u, n |-> req[u].n + 1, chunked |-> is_chunked(cached), token |-> 0,
                 fresh |-> ~candidate.chunked]
           c == [candidate EXCEPT !.chunked = TRUE]
<1>0. UNCHANGED <<last_data, ongoing, drain, reply, finished_reqs, new_finished_reqs>>
  BY DEF batches
<1>1. /\ pc = "plan" /\ pc' = "plan" /\ Planning /\ Planning'
  BY DEF CanTry, Planning
<1>2. /\ u \in Uids /\ candidate \in PendingReqs
      /\ \A i \in 1 .. Len(adder.reqs) : adder.reqs[i].uid # u /\ pending_list[i].uid = adder.reqs[i].uid
      /\ Len(adder.reqs) + 1 \in 1 .. Len(pending_list)
      /\ pending_list[Len(adder.reqs) + 1] = candidate
      /\ ~Processed(u) /\ Queued(u) /\ WaitingOK(candidate)
      /\ Len(adder.rest) \in Nat \ {0} /\ candidate = adder.rest[1]
  BY Candidate
<1>3. /\ req' \in [Uids -> Reqs]
      /\ \A v \in Uids \ {u} : req'[v] = req[v]
      /\ req'[u].n = req[u].n + 1 /\ req'[u].table_idx = t /\ ~req'[u].aborted
      /\ req'[u].chunked = is_chunked(cached)
      /\ req'[u].device_len \in 0 .. Len(Prompt[u])
      /\ Len(req'[u].input_ids) = req'[u].device_len
      /\ adder'.token_budget \in Int
      /\ adder'.reqs = Append(adder.reqs, e)
      /\ adder'.chunked_list = IF is_chunked(cached) THEN Append(adder.chunked_list, c)
                               ELSE adder.chunked_list
      /\ adder'.rest = Tail(adder.rest)
  <2>1. AddOneResult(u, cached, t)
    BY AddOneFacts
  <2> QED BY ONLY <2>1 DEF AddOneResult
<1>4. /\ PlanTypes /\ PlanPrefix /\ PlanChunks
      /\ \A i \in 1 .. Len(adder.reqs) : TakenOK(adder.reqs[i])
  BY <1>1 DEF ControlInv, PlanOK
<1>5. e \in Taken /\ c \in PendingReqs /\ c.uid = u /\ c.chunked
  <2>1. req[u].n + 1 \in Nat /\ is_chunked(cached) \in BOOLEAN
    <3>1. req'[u] \in Reqs /\ req[u] \in Reqs
      BY <1>2, <1>3 DEF ControlInv, ControlTypes
    <3> QED BY ONLY <1>3, <3>1 DEF Reqs
  <2>2. e \in Taken
    BY <1>2, <2>1 DEF Taken, PendingReqs
  <2>3. c \in PendingReqs /\ c.uid = u /\ c.chunked
    BY <1>2 DEF PendingReqs
  <2> QED BY <2>2, <2>3
<1>6. e.uid = u /\ e.n = req[u].n + 1 /\ e.chunked = is_chunked(cached)
  OBVIOUS
<1> HIDE DEF e, c
<1>7. /\ Len(adder.reqs) \in Nat
      /\ adder'.reqs \in Seq(Taken) /\ Len(adder'.reqs) = Len(adder.reqs) + 1
      /\ \A i \in 1 .. Len(adder.reqs) : adder'.reqs[i] = adder.reqs[i]
      /\ adder'.reqs[Len(adder.reqs) + 1] = e
  <2>1. adder.reqs \in Seq(Taken)
    BY <1>4 DEF PlanTypes
  <2> QED BY ONLY <1>3, <1>5, <2>1, AppendProperties, LenProperties
<1>8. \A v \in Uids \ {u} : /\ Held(v)' = Held(v) /\ (Processed(v)' <=> Processed(v))
                            /\ In(v, Old)' = In(v, Old)
  <2>1. Old' = Old
    BY <1>0, <1>1 DEF Old
  <2>2. ASSUME NEW v \in Uids \ {u} PROVE Processed(v)' <=> Processed(v)
    <3>1. (\E i \in 1 .. Len(adder'.reqs) : adder'.reqs[i].uid = v)
            <=> (\E i \in 1 .. Len(adder.reqs) : adder.reqs[i].uid = v)
      <4>1. ASSUME NEW i \in 1 .. Len(adder'.reqs), adder'.reqs[i].uid = v
            PROVE  i \in 1 .. Len(adder.reqs)
        BY ONLY <1>6, <1>7, <4>1
      <4>2. 1 .. Len(adder.reqs) \subseteq 1 .. Len(adder'.reqs)
        BY ONLY <1>7
      <4> QED BY ONLY <1>7, <4>1, <4>2
    <3> QED BY <1>1, <3>1 DEF Processed
  <2> QED BY <1>3, <2>1, <2>2 DEF Held, In
<1>9. Held(u)' /\ Processed(u)' /\ Queued(u)' /\ \A v : Queued(v)' = Queued(v)
  <2>1. Held(u)'
    <3>1. t # NoTable
      BY SchedulerAssumption DEF Tables, NoTable
    <3> QED BY <1>3, <3>1 DEF Held
  <2>2. Processed(u)'
    <3> DEFINE k == Len(adder.reqs) + 1
    <3>1. k \in 1 .. Len(adder'.reqs) /\ adder'.reqs[k] = e
      BY ONLY <1>7
    <3> HIDE DEF k
    <3>2. \E i \in 1 .. Len(adder'.reqs) : adder'.reqs[i].uid = u
      BY ONLY <1>6, <3>1
    <3> QED BY <1>1, <3>2 DEF Processed
  <2> QED BY <1>2, <2>1, <2>2 DEF Queued
<1>10. /\ Old' = Old /\ New' = New /\ New = <<>> /\ Old = last_data.reqs
       /\ \A v : ~In(v, New) /\ ~In(v, New)'
  BY <1>0, <1>1 DEF Old, New, In
<1>11. Old \in Seq(Entries) /\ \A i \in 1 .. Len(Old) : Old[i].uid \in Uids
  <2>1. Old \in Seq(Entries)
    BY <1>10 DEF ControlInv, ControlTypes, Batches
  <2>2. ASSUME NEW i \in 1 .. Len(Old) PROVE Old[i].uid \in Uids
    <3>1. Old[i] \in Entries
      BY <2>1, ElementOfSeq
    <3> QED BY <3>1 DEF Entries
  <2> QED BY <2>1, <2>2
\* The candidate: new to the pass, a chunk to be continued or a first object.
<1>12. IF candidate.chunked THEN Held(u) /\ req[u].chunked /\ ~req[u].aborted
                            ELSE req[u].n = 0
  BY <1>2 DEF WaitingOK
<1>13. /\ u \notin running_reqs /\ u \notin inbox.user
       /\ u \notin out.acked \cup pending_abort_acks
       /\ u \notin finished_reqs \cup new_finished_reqs
  BY <1>2, <1>12 DEF ControlInv, RunningOK, UnbornOK, AbortedOK
<1>14. ControlTypes'
  BY <1>0, <1>1, <1>3 DEF ControlInv, ControlTypes
<1>15. BatchesOK'
  <2>1. BatchesOK /\ req[u].n \in Nat
    BY DEF ControlInv, ControlTypes, Reqs
  <2>2. ASSUME NEW i \in 1 .. Len(Old)
        PROVE  EntryOK(Old[i])' /\ (Old'[i].n = req'[Old'[i].uid].n \/ Processed(Old[i].uid)')
    <3>1. PICK o \in Entries : o = Old[i]
      BY <1>11, ElementOfSeq
    <3>2. EntryOK(o) /\ (o.n = req[o.uid].n \/ Processed(o.uid)) /\ o.uid \in Uids
      BY <1>1, <1>11, <2>1, <3>1 DEF BatchesOK
    <3>3. Old'[i] = o
      BY <1>10, <3>1
    <3>4. EntryOK(o)' /\ (o.n = req'[o.uid].n \/ Processed(o.uid)')
      <4>1. CASE o.uid = u
        <5>1. o.n = req[u].n /\ req[u].n >= 1 /\ o.chunked
          <6>1. o.n = req[u].n
            BY <1>2, <3>2, <4>1
          <6>2. o.n \in 1 .. req[u].n /\ o.chunked = req[u].chunked
            BY ONLY <3>2, <4>1, <6>1 DEF EntryOK
          <6> QED BY <1>12, <2>1, <6>1, <6>2
        <5>2. Processed(o.uid)' /\ req'[o.uid].n = req[u].n + 1
          BY <1>3, <1>9, <4>1
        <5>3. o.n \in 1 .. req'[o.uid].n /\ o.n # req'[o.uid].n
          BY ONLY <2>1, <5>1, <5>2
        <5> QED BY ONLY <5>1, <5>2, <5>3, Zenon DEF EntryOK
      <4>2. CASE o.uid # u
        BY <1>3, <1>8, <3>2, <4>2 DEF EntryOK
      <4> QED BY <4>1, <4>2
    <3> QED BY <3>3, <3>4 DEF EntryOK, Processed
  <2> QED BY <1>0, <1>1, <1>10, <2>1, <2>2 DEF BatchesOK, Distinct
<1>16. QueueOK'
  <2>1. ASSUME NEW i \in 1 .. Len(pending_list) PROVE WaitingOK(pending_list[i])'
    <3>1. PICK p \in PendingReqs : p = pending_list[i]
      BY ElementOfSeq DEF ControlInv, ControlTypes
    <3>2. WaitingOK(p) /\ p.uid \in Uids
      BY <3>1 DEF ControlInv, QueueOK, PendingReqs
    <3>3. WaitingOK(p)'
      <4>1. CASE p.uid = u
        <5>1. Processed(p.uid)'
          BY <1>9, <4>1
        <5> QED BY ONLY <5>1 DEF WaitingOK
      <4>2. CASE p.uid # u
        <5>1. /\ req'[p.uid] = req[p.uid] /\ Held(p.uid)' = Held(p.uid)
              /\ Processed(p.uid)' <=> Processed(p.uid)
          BY <1>3, <1>8, <3>2, <4>2
        <5> QED BY ONLY <3>2, <5>1 DEF WaitingOK
      <4> QED BY <4>1, <4>2
    <3>5. WaitingOK(p)' /\ pending_list'[i] = p
      BY <3>1, <3>3
    <3> QED BY ONLY <3>5 DEF WaitingOK
  <2> QED BY <2>1 DEF ControlInv, QueueOK, Distinct
<1>17. PlanOK'
  <2> DEFINE more == is_chunked(cached)
  <2>0. more \in BOOLEAN
    <3>1. req'[u] \in Reqs
      BY <1>3
    <3> QED BY ONLY <1>3, <3>1 DEF Reqs
  <2> HIDE DEF more
  <2>1. /\ adder.chunked_list \in Seq(PendingReqs) /\ adder.rest \in Seq(PendingReqs)
        /\ Len(adder.chunked_list) \in Nat
    BY <1>4, LenProperties DEF PlanTypes
  <2>2. /\ adder'.rest \in Seq(PendingReqs) /\ Len(adder'.rest) = Len(adder.rest) - 1
        /\ \A i \in 1 .. Len(adder'.rest) : adder'.rest[i] = adder.rest[i + 1]
    <3>1. adder.rest # <<>>
      BY DEF CanTry
    <3> QED BY ONLY <1>3, <2>1, <3>1, HeadTailProperties
  <2> DEFINE old == adder.chunked_list
             new == adder'.chunked_list
  <2>3. new = IF more THEN Append(old, c) ELSE old
    BY <1>3 DEF more
  <2>4. old \in Seq(PendingReqs) /\ new \in Seq(PendingReqs) /\ Len(old) \in Nat
    BY ONLY <1>5, <2>1, <2>3, AppendProperties
  <2>5. \A k \in 1 .. Len(old) : k \in 1 .. Len(new) /\ new[k] = old[k]
    BY ONLY <1>5, <2>3, <2>4, AppendProperties
  <2>6. \A k \in 1 .. Len(new) : \/ k \in 1 .. Len(old)
                                 \/ more /\ k = Len(old) + 1 /\ new[k] = c
    BY ONLY <1>5, <2>3, <2>4, AppendProperties
  <2>7. more => \E k \in 1 .. Len(new) : new[k] = c
    <3>1. SUFFICES ASSUME more
                   PROVE  Len(old) + 1 \in 1 .. Len(new) /\ new[Len(old) + 1] = c
      OBVIOUS
    <3>2. new = Append(old, c)
      BY <2>3, <3>1
    <3>3. Len(new) = Len(old) + 1 /\ new[Len(old) + 1] = c
      BY ONLY <1>5, <2>4, <3>2, AppendProperties
    <3> QED BY ONLY <2>4, <3>3
  <2>8. \A k \in 1 .. Len(old) :
           /\ old[k].chunked /\ old[k].uid # u
           /\ \E i \in 1 .. Len(adder.reqs) : adder.reqs[i].uid = old[k].uid /\ adder.reqs[i].chunked
    BY <1>2, <1>4 DEF PlanChunks
  <2>9. \A i \in 1 .. Len(adder.reqs) : i \in 1 .. Len(adder'.reqs) /\ adder'.reqs[i] = adder.reqs[i]
    BY ONLY <1>7
  <2>10. \A i \in 1 .. Len(adder'.reqs) : \/ i \in 1 .. Len(adder.reqs)
                                          \/ i = Len(adder.reqs) + 1 /\ adder'.reqs[i] = e
    BY ONLY <1>7
  <2>11. Len(adder.reqs) + 1 \in 1 .. Len(adder'.reqs) /\ adder'.reqs[Len(adder.reqs) + 1] = e
    BY ONLY <1>7
  <2>12. e.uid = u /\ e.n = req'[u].n /\ e.chunked = more
    BY <1>3, <1>6 DEF more
  <2>13. Distinct(old) /\ \A i \in 1 .. Len(adder.reqs) : adder.reqs[i].uid # u /\ TakenOK(adder.reqs[i])
    BY <1>2, <1>4 DEF PlanChunks
  <2>14. Distinct(new)
    <3> HIDE DEF old, new
    <3> QED BY ONLY <1>5, <2>5, <2>6, <2>8, <2>13 DEF Distinct
  <2>15. ASSUME NEW k \in 1 .. Len(new)
         PROVE  /\ new[k].chunked
                /\ \E i \in 1 .. Len(adder'.reqs) : adder'.reqs[i].uid = new[k].uid /\ adder'.reqs[i].chunked
    <3> HIDE DEF old, new
    <3>1. CASE k \in 1 .. Len(old)
      <4>1. PICK i \in 1 .. Len(adder.reqs) : adder.reqs[i].uid = old[k].uid /\ adder.reqs[i].chunked
        BY ONLY <2>8, <3>1
      <4>2. new[k] = old[k] /\ old[k].chunked
        BY ONLY <2>5, <2>8, <3>1
      <4>3. i \in 1 .. Len(adder'.reqs) /\ adder'.reqs[i] = adder.reqs[i]
        BY ONLY <2>9
      <4> QED BY ONLY <4>1, <4>2, <4>3
    <3>2. CASE more /\ new[k] = c
      BY ONLY <1>5, <2>11, <2>12, <3>2
    <3> QED BY <2>6, <3>1, <3>2
  <2>16. ASSUME NEW i \in 1 .. Len(adder'.reqs)
         PROVE  TakenOK(adder.reqs[i])'
    <3>1. PICK x \in Taken : x = adder'.reqs[i]
      BY ONLY <1>7, ElementOfSeq
    <3>2. x.uid \in Uids /\ x.chunked \in BOOLEAN
      BY ONLY <3>1 DEF Taken
    <3>3. TakenOK(x)'
      <4>1. CASE x = e
        <5>1. /\ Held(x.uid)' /\ x.n = req'[x.uid].n /\ x.chunked = req'[x.uid].chunked
              /\ ~req'[x.uid].aborted /\ req'[x.uid].device_len <= Len(Prompt[x.uid])
          BY <1>3, <1>9, <2>12, <4>1, SchedulerAssumption DEF more
        <5>2. x.chunked => \E k \in 1 .. Len(new) : new[k].uid = x.uid
          BY ONLY <1>5, <2>7, <2>12, <4>1
        <5> QED BY ONLY <5>1, <5>2 DEF TakenOK
      <4>2. CASE i \in 1 .. Len(adder.reqs)
        <5>1. x.uid # u /\ TakenOK(x)
          BY <2>9, <2>13, <3>1, <4>2
        <5>2. req'[x.uid] = req[x.uid] /\ Held(x.uid)' = Held(x.uid)
          BY <1>3, <1>8, <3>2, <5>1
        <5>3. x.chunked => \E k \in 1 .. Len(new) : new[k].uid = x.uid
          BY ONLY <2>5, <5>1 DEF TakenOK
        <5> QED BY ONLY <5>1, <5>2, <5>3 DEF TakenOK
      <4> QED BY <2>10, <3>1, <4>1, <4>2
    <3> QED BY ONLY <3>1, <3>3 DEF TakenOK
  <2>17. PlanTypes' /\ PlanPrefix'
    <3>1. PlanTypes'
      BY <1>3, <1>7, <2>2, <2>4 DEF PlanTypes
    <3> DEFINE a == Len(adder.reqs)
               b == Len(adder.rest)
    <3>2. a \in Nat /\ b \in Nat \ {0} /\ a + b = Len(pending_list)
      BY <1>2, <1>4, <1>7 DEF PlanPrefix
    <3>3. Len(adder'.reqs) = a + 1 /\ Len(adder'.rest) = b - 1
      BY <1>7, <2>2
    <3>4. ASSUME NEW i \in 1 .. Len(adder'.rest)
          PROVE  adder'.rest[i] = pending_list[Len(adder'.reqs) + i]
      <4>1. adder'.rest[i] = adder.rest[i + 1]
        BY ONLY <2>2
      <4> HIDE DEF a, b
      <4>2. i + 1 \in 1 .. b /\ a + (i + 1) = (a + 1) + i
        BY ONLY <3>2, <3>3
      <4>3. adder.rest[i + 1] = pending_list[a + (i + 1)]
        BY <1>4, <4>2 DEF PlanPrefix, a, b
      <4> QED BY <3>3, <4>1, <4>2, <4>3
    <3>5. ASSUME NEW i \in 1 .. Len(adder'.reqs)
          PROVE  adder'.reqs[i].uid = pending_list[i].uid
      <4>1. CASE i \in 1 .. Len(adder.reqs)
        BY <1>4, <2>9, <4>1 DEF PlanPrefix
      <4>2. CASE i = Len(adder.reqs) + 1 /\ adder'.reqs[i] = e
        BY <1>2, <1>6, <4>2
      <4> QED BY <2>10, <4>1, <4>2
    <3>6. Len(adder'.reqs) + Len(adder'.rest) = Len(pending_list)
      <4> HIDE DEF a, b
      <4> QED BY ONLY <3>2, <3>3
    <3>7. pending_list' = pending_list
      OBVIOUS
    <3> QED BY ONLY <3>1, <3>4, <3>5, <3>6, <3>7 DEF PlanPrefix
  <2>18. PlanChunks'
    BY ONLY <2>14, <2>15 DEF PlanChunks, Distinct
  <2> QED BY <2>16, <2>17, <2>18 DEF PlanOK
<1>18. RunningOK'
  BY <1>3, <1>8, <1>9, <1>13 DEF ControlInv, RunningOK, max_device_len, ControlTypes
<1>19. UnbornOK'
  <2>1. req[u].n \in Nat
    BY DEF ControlInv, ControlTypes, Reqs
  <2>2. ASSUME NEW v \in Uids
        PROVE  /\ v \in inbox'.user => ~Queued(v)' /\ req'[v].n = 0
               /\ req'[v].n = 0 => ~Held(v)'
               /\ v \in finished_reqs' \cup new_finished_reqs' => req'[v].n > 0 /\ ~Held(v)'
    BY <1>0, <1>3, <1>8, <1>9, <1>13, <2>1 DEF ControlInv, UnbornOK
  <2> QED BY <2>2 DEF UnbornOK
<1>20. HeldOK'
  <2>1. Known(u)'
    <3>1. ~In(u, Old)'
      <4>1. SUFFICES ASSUME NEW i \in 1 .. Len(Old), Old[i].uid = u, Old[i].n = req[u].n + 1
                     PROVE  FALSE
        BY <1>3, <1>10 DEF In
      <4>2. Old[i].n \in 1 .. req[u].n /\ req[u].n \in Nat
        BY <4>1 DEF ControlInv, BatchesOK, EntryOK, ControlTypes, Reqs
      <4> QED BY <4>1, <4>2
    <3>2. /\ req'[u].aborted = FALSE /\ req'[u].device_len \in Nat
          /\ Len(req'[u].input_ids) = req'[u].device_len
      BY <1>3
    <3> QED BY <1>9, <1>10, <3>1, <3>2 DEF Known, Lag
  <2>2. ASSUME NEW v \in Uids \ {u} PROVE Known(v)'
    <3>1. Known(v) /\ req'[v] = req[v] /\ Held(v)' = Held(v) /\ (Processed(v)' <=> Processed(v))
          /\ Queued(v)' = Queued(v) /\ In(v, Old)' = In(v, Old) /\ ~In(v, New) /\ ~In(v, New)'
          /\ running_reqs' = running_reqs
      BY <1>3, <1>8, <1>9, <1>10 DEF ControlInv, HeldOK
    <3> QED BY ONLY <3>1 DEF Known, Lag, max_device_len
  <2> QED BY <2>1, <2>2 DEF HeldOK
<1>21. LaunchedOK'
  <2>1. ASSUME NEW i \in 1 .. Len(Old) PROVE Held(Old[i].uid)' \/ Old[i].uid \in finished_reqs
    <3>1. PICK o \in Entries : o = Old[i]
      BY <1>11, ElementOfSeq
    <3>2. Held(o.uid) \/ o.uid \in finished_reqs
      BY <3>1 DEF ControlInv, LaunchedOK
    <3>3. Held(o.uid)' \/ o.uid \in finished_reqs
      BY <1>8, <1>9, <1>11, <3>1, <3>2
    <3>4. Old'[i] = o
      BY <1>10, <3>1
    <3> QED BY <3>1, <3>3, <3>4 DEF Held
  <2> QED BY <1>0, <1>10, <2>1 DEF LaunchedOK
<1>22. AbortedOK'
  BY <1>1, <1>3, <1>8, <1>9, <1>10, <1>13 DEF ControlInv, AbortedOK, ControlTypes
<1> QED
  BY <1>14, <1>15, <1>16, <1>17, <1>18, <1>19, <1>20, <1>21, <1>22 DEF ControlInv

\* The next chunk of a prompt: the new object takes over the row of the old one.
LEMMA AdmitContinuationInv ==
  ASSUME ControlInv, AdmitContinuation
  PROVE  ControlInv'
<1>1. PICK u \in Uids : u = candidate.uid
  BY Candidate DEF AdmitContinuation
<1> DEFINE r == req[u]
<1>2. /\ CanTry /\ candidate.chunked
      /\ AddOne(r.cached_len, r.table_idx, r.handle,
                estimated_size(r.cached_len), token_pool[r.table_idx])
      /\ UNCHANGED <<pc, pending_list, running_reqs, batches, tombstones, pending_abort_acks,
                     pending_rebuild, num_pages, inbox, out>>
      /\ table_free' = table_free
  BY <1>1 DEF AdmitContinuation
<1>3. Held(u) /\ r.cached_len <= Len(Prompt[u])
  BY <1>1, <1>2, Candidate DEF WaitingOK
<1>4. /\ r.cached_len \in 0 .. Len(Prompt[candidate.uid])
      /\ r.table_idx \in Tables /\ r.handle \in Seq(Vocab)
  <2>1. r \in Reqs
    BY DEF ControlInv, ControlTypes
  <2> QED BY <1>1, <1>3, <2>1 DEF Reqs, Held
<1>5. table_free' \in Seq(Tables)
  BY <1>2 DEF ControlInv, ControlTypes
<1>6. TablesOK'
  <2>1. /\ \A v \in Uids \ {u} : req'[v] = req[v]
        /\ req'[u].table_idx = r.table_idx
    <3> HIDE DEF r
    <3>1. AddOneResult(u, r.cached_len, r.table_idx)
      BY <1>1, <1>2, <1>4, AddOneFacts
    <3> QED BY ONLY <3>1 DEF AddOneResult
  <2>2. \A v \in Uids : req'[v].table_idx = req[v].table_idx
    BY <2>1
  <2>3. Holders' = Holders
    BY <2>2 DEF Holders, Held
  <2> QED BY <1>2, <2>2, <2>3 DEF ControlInv, TablesOK, Holders
<1> HIDE DEF r
<1> QED BY <1>1, <1>2, <1>4, <1>5, <1>6, AddOneInv, ZenonT(60)

\* A request leaves the queue and takes the last free row.
LEMMA AdmitFreshInv ==
  ASSUME ControlInv, AdmitFresh
  PROVE  ControlInv'
<1>1. PICK u \in Uids : u = candidate.uid
  BY Candidate DEF AdmitFresh, Fits
<1> DEFINE mr == match_req(u)
           t  == Last(table_free)
           tokens == [i \in 1 .. ConfigMaxSeqLen |->
                        IF i <= Len(mr.path) THEN Prompt[candidate.uid][i] ELSE token_pool[t][i]]
<1>2. /\ CanTry /\ ~candidate.chunked /\ table_free # <<>>
      /\ AddOne(Len(mr.path), t, mr.path, estimated_size(Len(mr.path)), tokens)
      /\ UNCHANGED <<pc, pending_list, running_reqs, batches, tombstones, pending_abort_acks,
                     pending_rebuild, num_pages, inbox, out>>
      /\ table_free' = Front(table_free)
  BY <1>1 DEF AdmitFresh, Fits
<1>3. Len(mr.path) \in 0 .. Len(Prompt[candidate.uid]) /\ mr.path \in Seq(Vocab)
  BY <1>1, MatchReq
<1> HIDE DEF mr, tokens
<1> DEFINE n == Len(table_free)
<1>4. /\ table_free \in Seq(Tables) /\ n \in Nat \ {0} /\ t = table_free[n] /\ t \in Tables
      /\ table_free' \in Seq(Tables) /\ Len(table_free') = n - 1
      /\ \A i \in 1 .. n - 1 : table_free'[i] = table_free[i]
  <2>1. table_free \in Seq(Tables) /\ table_free # <<>>
    BY <1>2 DEF ControlInv, ControlTypes
  <2>2. n \in Nat \ {0} /\ t = table_free[n] /\ table_free' = SubSeq(table_free, 1, n - 1)
    BY <1>2, <2>1, EmptySeq DEF Last, Front
  <2>3. n \in 1 .. n
    BY ONLY <2>2
  <2>4. table_free[n] \in Tables
    BY ONLY <2>1, <2>3, ElementOfSeq
  <2>5. 1 \in 1 .. n + 1 /\ n - 1 \in 0 .. n
    BY ONLY <2>2
  <2>6. /\ SubSeq(table_free, 1, n - 1) \in Seq(Tables)
        /\ Len(SubSeq(table_free, 1, n - 1)) = IF 1 <= n - 1 THEN (n - 1) - 1 + 1 ELSE 0
        /\ \A i \in 1 .. (n - 1) - 1 + 1 : SubSeq(table_free, 1, n - 1)[i] = table_free[1 + i - 1]
    BY ONLY <2>1, <2>5, SubSeqProperties
  <2> HIDE DEF t, n
  <2>7. (IF 1 <= n - 1 THEN (n - 1) - 1 + 1 ELSE 0) = n - 1 /\ (n - 1) - 1 + 1 = n - 1
    BY ONLY <2>2
  <2>8. \A i \in 1 .. n - 1 : 1 + i - 1 = i
    BY ONLY <2>2
  <2> QED BY ONLY <2>1, <2>2, <2>4, <2>6, <2>7, <2>8
<1>5. /\ \A v \in Uids \ {u} : req'[v] = req[v]
      /\ req'[u].table_idx = t
  <2> HIDE DEF t
  <2>1. AddOneResult(u, Len(mr.path), t)
    BY <1>1, <1>2, <1>3, <1>4, AddOneFacts
  <2> QED BY ONLY <2>1 DEF AddOneResult
<1>6. ~Held(u)
  BY <1>1, <1>2, Candidate DEF WaitingOK, ControlInv, UnbornOK
<1>7. TablesOK'
  <2>1. Holders' = Holders \cup {u} /\ u \notin Holders
    <3>1. t # NoTable
      BY <1>4, SchedulerAssumption DEF Tables, NoTable
    <3> QED BY <1>5, <1>6, <3>1 DEF Holders, Held
  <2>2. /\ \A i, j \in 1 .. n : table_free[i] = table_free[j] => i = j
        /\ \A v, w \in Holders : req[v].table_idx = req[w].table_idx => v = w
        /\ \A v \in Holders : \A i \in 1 .. n : table_free[i] # req[v].table_idx
        /\ \A s \in Tables : \/ \E i \in 1 .. n : table_free[i] = s
                             \/ \E v \in Holders : req[v].table_idx = s
    BY DEF ControlInv, TablesOK
  <2>3. \A v \in Holders : v \in Uids \ {u}
    BY <2>1 DEF Holders
  <2> HIDE DEF t
  <2>4. \A i \in 1 .. Len(table_free') : i \in 1 .. n /\ i # n /\ table_free'[i] = table_free[i]
    <3> HIDE DEF n
    <3> QED BY ONLY <1>4
  <2>5. n \in 1 .. n
    BY ONLY <1>4
  <2>6. \A i, j \in 1 .. Len(table_free') : table_free'[i] = table_free'[j] => i = j
    BY ONLY <2>2, <2>4
  <2>7. ASSUME NEW v \in Holders', NEW w \in Holders', req'[v].table_idx = req'[w].table_idx
        PROVE  v = w
    BY ONLY <1>4, <1>5, <2>1, <2>2, <2>3, <2>5, <2>7
  <2>8. ASSUME NEW v \in Holders', NEW i \in 1 .. Len(table_free')
        PROVE  table_free'[i] # req'[v].table_idx
    <3>1. i \in 1 .. n /\ i # n /\ table_free'[i] = table_free[i]
      BY ONLY <2>4
    <3>2. CASE v = u
      BY ONLY <1>4, <1>5, <2>2, <2>5, <3>1, <3>2
    <3>3. CASE v \in Holders
      BY ONLY <1>5, <2>2, <2>3, <3>1, <3>3
    <3> QED BY <2>1, <3>2, <3>3
  <2>9. ASSUME NEW s \in Tables
        PROVE  \/ \E i \in 1 .. Len(table_free') : table_free'[i] = s
               \/ \E v \in Holders' : req'[v].table_idx = s
    <3>1. CASE \E v \in Holders : req[v].table_idx = s
      BY <1>5, <2>1, <2>3, <3>1
    <3>2. CASE s = t
      BY <1>5, <2>1, <3>2
    <3>3. CASE s # t /\ \E i \in 1 .. n : table_free[i] = s
      <4>1. PICK i \in 1 .. n : table_free[i] = s
        BY <3>3
      <4>2. i \in 1 .. Len(table_free') /\ table_free'[i] = s
        <5> HIDE DEF n
        <5> QED BY ONLY <1>4, <3>3, <4>1
      <4> QED BY <4>2
    <3> QED BY <2>2, <3>1, <3>2, <3>3
  <2> QED BY ONLY <2>6, <2>7, <2>8, <2>9 DEF TablesOK
<1> HIDE DEF t
<1> QED BY <1>1, <1>2, <1>3, <1>4, <1>7, AddOneInv, ZenonT(60)

\* What schedule_next_batch leaves queued: the chunks to continue, then what
\* the pass did not reach.
LEMMA QueueAfterPlan ==
  ASSUME ControlInv, pc = "plan", adder.reqs # <<>>, pending_list' = pending_after_plan,
         NEW Us, Us = {adder.reqs[i].uid : i \in 1 .. Len(adder.reqs)}
  PROVE  /\ pending_list' \in Seq(PendingReqs)
         /\ Distinct(pending_list')
         /\ \A j \in 1 .. Len(pending_list') :
              \/ pending_list'[j].uid \notin Us
                   /\ \E i \in 1 .. Len(pending_list) : pending_list'[j] = pending_list[i]
              \/ pending_list'[j].uid \in Us /\ pending_list'[j].chunked /\ req[pending_list'[j].uid].chunked
         /\ \A v \in Uids : Queued(v)' => Queued(v)
         /\ \A v \in Us : v \in Uids /\ Queued(v) /\ (Queued(v)' <=> req[v].chunked)
         /\ \A v \in Uids \ Us : Queued(v) => Queued(v)'
<1> DEFINE a == Len(adder.reqs)
           n == Len(pending_list)
           cs == adder.chunked_list
           k == Len(cs)
           left == SubSeq(pending_list, a + 1, n)
<1>1. /\ PlanTypes /\ PlanPrefix /\ PlanChunks
      /\ \A i \in 1 .. Len(adder.reqs) : TakenOK(adder.reqs[i])
      /\ Distinct(pending_list) /\ pending_list \in Seq(PendingReqs)
  BY DEF ControlInv, PlanOK, Planning, QueueOK, ControlTypes
<1>2. a \in Nat /\ n \in Nat /\ a <= n /\ k \in Nat
  <2> DEFINE b == Len(adder.rest)
  <2>1. a \in Nat /\ b \in Nat /\ n \in Nat /\ k \in Nat /\ a + b = n
    BY <1>1, LenProperties DEF PlanTypes, PlanPrefix
  <2> HIDE DEF a, b, n, k
  <2> QED BY ONLY <2>1
<1>3. pending_list' = cs \o left /\ cs \in Seq(PendingReqs)
  BY <1>1 DEF pending_after_plan, PlanTypes
<1> HIDE DEF a, n, k
<1>4. /\ left \in Seq(PendingReqs) /\ Len(left) = n - a
      /\ \A i \in 1 .. n - a : left[i] = pending_list[a + i]
  <2>1. a + 1 \in Int /\ n \in Int
    BY ONLY <1>2
  <2>2. \A i \in a + 1 .. n : i \in 1 .. n
    BY ONLY <1>2
  <2>3. \A i \in a + 1 .. n : pending_list[i] \in PendingReqs
    BY <1>1, <2>2, ElementOfSeq DEF n
  <2>4. /\ left \in Seq(PendingReqs)
        /\ Len(left) = IF a + 1 <= n THEN n - (a + 1) + 1 ELSE 0
        /\ \A i \in 1 .. n - (a + 1) + 1 : left[i] = pending_list[(a + 1) + i - 1]
    BY ONLY <2>1, <2>3, SubSeqProperties
  <2>5. (IF a + 1 <= n THEN n - (a + 1) + 1 ELSE 0) = n - a /\ n - (a + 1) + 1 = n - a
    BY ONLY <1>2
  <2> HIDE DEF left
  <2>6. ASSUME NEW i \in 1 .. n - a
        PROVE  left[i] = pending_list[a + i]
    <3>1. (a + 1) + i - 1 = a + i
      BY ONLY <1>2
    <3>2. left[i] = pending_list[(a + 1) + i - 1]
      BY ONLY <2>4, <2>5
    <3> QED BY ONLY <3>1, <3>2
  <2> QED BY ONLY <2>4, <2>5, <2>6
<1> HIDE DEF left, cs
<1>5. /\ pending_list' \in Seq(PendingReqs)
      /\ Len(pending_list') = k + (n - a)
      /\ \A i \in 1 .. Len(pending_list') :
            pending_list'[i] = IF i <= k THEN cs[i] ELSE left[i - k]
  <2>1. /\ cs \o left \in Seq(PendingReqs)
        /\ Len(cs \o left) = Len(cs) + Len(left)
        /\ \A i \in 1 .. Len(cs) + Len(left) :
              (cs \o left)[i] = IF i <= Len(cs) THEN cs[i] ELSE left[i - Len(cs)]
    BY ONLY <1>3, <1>4, ConcatProperties, Zenon
  <2>2. Len(cs) = k
    BY DEF k, cs
  <2> QED BY ONLY <1>3, <1>4, <2>1, <2>2, Zenon
<1>6. \A i \in 1 .. Len(pending_list') :
        \/ i \in 1 .. k /\ pending_list'[i] = cs[i]
        \/ i - k \in 1 .. n - a /\ a + (i - k) \in a + 1 .. n
             /\ pending_list'[i] = pending_list[a + (i - k)]
  <2>1. ASSUME NEW i \in 1 .. Len(pending_list'), i > k
        PROVE  i - k \in 1 .. n - a /\ a + (i - k) \in a + 1 .. n
    BY ONLY <1>2, <1>5, <2>1
  <2>2. ASSUME NEW i \in 1 .. Len(pending_list'), i <= k
        PROVE  i \in 1 .. k
    BY ONLY <1>2, <1>5, <2>2
  <2>3. \A i \in 1 .. Len(pending_list') : i > k \/ i <= k
    BY ONLY <1>2, <1>5
  <2>4. ASSUME NEW i \in 1 .. Len(pending_list')
        PROVE  \/ i \in 1 .. k /\ pending_list'[i] = cs[i]
               \/ i - k \in 1 .. n - a /\ a + (i - k) \in a + 1 .. n
                     /\ pending_list'[i] = pending_list[a + (i - k)]
    <3>1. CASE i <= k
      BY ONLY <1>5, <2>2, <3>1
    <3>2. CASE i > k
      <4>1. pending_list'[i] = left[i - k]
        BY ONLY <1>2, <1>5, <3>2
      <4>2. left[i - k] = pending_list[a + (i - k)]
        BY ONLY <1>4, <2>1, <3>2
      <4> QED BY ONLY <2>1, <3>2, <4>1, <4>2
    <3> QED BY <2>3, <3>1, <3>2
  <2> QED BY <2>4
\* The taken part of the queue and the rest share no request.
<1>7. /\ \A i \in 1 .. a : pending_list[i].uid \in Us /\ i \in 1 .. n
      /\ \A i \in a + 1 .. n : pending_list[i].uid \notin Us /\ i \in 1 .. n
  <2>1. /\ \A i \in 1 .. a : adder.reqs[i].uid = pending_list[i].uid
        /\ \A i, j \in 1 .. n : pending_list[i].uid = pending_list[j].uid => i = j
    BY ONLY <1>1 DEF PlanPrefix, Distinct, a, n
  <2>2. /\ \A i \in 1 .. a : i \in 1 .. n
        /\ \A i \in a + 1 .. n : i \in 1 .. n
        /\ \A i \in 1 .. a : \A j \in a + 1 .. n : i # j
    BY ONLY <1>2
  <2>3. Us = {adder.reqs[i].uid : i \in 1 .. a}
    BY DEF a
  <2> QED BY ONLY <2>1, <2>2, <2>3, Zenon
<1>8. /\ \A i \in 1 .. k : cs[i].uid \in Us /\ cs[i].chunked /\ req[cs[i].uid].chunked
      /\ \A i, j \in 1 .. k : cs[i].uid = cs[j].uid => i = j
      /\ \A v \in Us : req[v].chunked => \E i \in 1 .. k : cs[i].uid = v
  <2>1. /\ \A i \in 1 .. k : /\ cs[i].chunked
                             /\ \E j \in 1 .. a : adder.reqs[j].uid = cs[i].uid /\ adder.reqs[j].chunked
        /\ \A i, j \in 1 .. k : cs[i].uid = cs[j].uid => i = j
    BY ONLY <1>1 DEF PlanChunks, Distinct, a, k, cs
  <2>2. \A j \in 1 .. a : /\ adder.reqs[j].chunked = req[adder.reqs[j].uid].chunked
                          /\ adder.reqs[j].chunked => \E i \in 1 .. k : cs[i].uid = adder.reqs[j].uid
    BY ONLY <1>1 DEF TakenOK, a, k, cs
  <2>3. Us = {adder.reqs[i].uid : i \in 1 .. a}
    BY DEF a
  <2> QED BY ONLY <2>1, <2>2, <2>3
<1>9. Distinct(pending_list')
  <2>1. SUFFICES ASSUME NEW i \in 1 .. Len(pending_list'), NEW j \in 1 .. Len(pending_list'),
                        pending_list'[i].uid = pending_list'[j].uid
                 PROVE  i = j
    BY DEF Distinct
  <2>2. CASE i \in 1 .. k /\ pending_list'[i] = cs[i] /\ j \in 1 .. k /\ pending_list'[j] = cs[j]
    BY ONLY <1>8, <2>1, <2>2
  <2>3. CASE /\ i \in 1 .. k /\ pending_list'[i] = cs[i]
             /\ a + (j - k) \in a + 1 .. n /\ pending_list'[j] = pending_list[a + (j - k)]
    BY ONLY <1>7, <1>8, <2>1, <2>3
  <2>4. CASE /\ j \in 1 .. k /\ pending_list'[j] = cs[j]
             /\ a + (i - k) \in a + 1 .. n /\ pending_list'[i] = pending_list[a + (i - k)]
    BY ONLY <1>7, <1>8, <2>1, <2>4
  <2>5. CASE /\ a + (i - k) \in a + 1 .. n /\ pending_list'[i] = pending_list[a + (i - k)]
             /\ a + (j - k) \in a + 1 .. n /\ pending_list'[j] = pending_list[a + (j - k)]
    <3>1. a + (i - k) = a + (j - k)
      BY ONLY <1>1, <1>7, <2>1, <2>5 DEF Distinct, n
    <3>2. i \in Nat /\ j \in Nat
      BY ONLY <2>1
    <3> QED BY ONLY <1>2, <3>1, <3>2
  <2> QED BY <1>6, <2>2, <2>3, <2>4, <2>5
\* Every element of the old queue past the taken ones is still there.
<1>10. \A i \in a + 1 .. n : k + (i - a) \in 1 .. Len(pending_list')
                              /\ pending_list'[k + (i - a)] = pending_list[i]
  <2>1. SUFFICES ASSUME NEW i \in a + 1 .. n
                 PROVE  k + (i - a) \in 1 .. Len(pending_list')
                           /\ pending_list'[k + (i - a)] = pending_list[i]
    OBVIOUS
  <2>2. /\ k + (i - a) \in 1 .. Len(pending_list') /\ ~(k + (i - a) <= k)
        /\ (k + (i - a)) - k = i - a /\ i - a \in 1 .. n - a /\ a + (i - a) = i
    BY ONLY <1>2, <1>5, <2>1
  <2>3. pending_list'[k + (i - a)] = left[i - a]
    BY ONLY <1>5, <2>2
  <2>4. left[i - a] = pending_list[a + (i - a)]
    BY ONLY <1>4, <2>2
  <2> QED BY ONLY <2>2, <2>3, <2>4
<1>11. \A i \in 1 .. k : i \in 1 .. Len(pending_list') /\ pending_list'[i] = cs[i]
  <2>1. SUFFICES ASSUME NEW i \in 1 .. k
                 PROVE  i \in 1 .. Len(pending_list') /\ pending_list'[i] = cs[i]
    OBVIOUS
  <2>2. i \in 1 .. Len(pending_list') /\ i <= k
    BY ONLY <1>2, <1>5, <2>1
  <2> QED BY ONLY <1>5, <2>2
<1>12. \A v \in Us : v \in Uids /\ Queued(v)
  <2>1. SUFFICES ASSUME NEW v \in Us PROVE v \in Uids /\ Queued(v)
    OBVIOUS
  <2>2. PICK i \in 1 .. a : adder.reqs[i].uid = v
    BY DEF a
  <2>3. v = pending_list[i].uid /\ i \in 1 .. n
    BY <1>1, <1>7, <2>2 DEF PlanPrefix, a
  <2>4. pending_list[i] \in PendingReqs
    BY <1>1, <2>3, ElementOfSeq DEF n
  <2> QED BY <2>3, <2>4 DEF PendingReqs, Queued, n
<1>13. \A v \in Uids : Queued(v)' => Queued(v)
  <2>1. SUFFICES ASSUME NEW v \in Uids, NEW j \in 1 .. Len(pending_list'), pending_list'[j].uid = v
                 PROVE  Queued(v)
    BY DEF Queued
  <2>2. CASE j \in 1 .. k /\ pending_list'[j] = cs[j]
    BY <1>8, <1>12, <2>1, <2>2
  <2>3. CASE a + (j - k) \in a + 1 .. n /\ pending_list'[j] = pending_list[a + (j - k)]
    BY <1>7, <2>1, <2>3 DEF Queued, n
  <2> QED BY <1>6, <2>2, <2>3
<1>14. \A v \in Us : Queued(v)' <=> req[v].chunked
  <2>1. ASSUME NEW v \in Us, req[v].chunked PROVE Queued(v)'
    BY <1>8, <1>11, <2>1 DEF Queued
  <2>2. ASSUME NEW v \in Us, NEW j \in 1 .. Len(pending_list'), pending_list'[j].uid = v
        PROVE  req[v].chunked
    <3>1. CASE j \in 1 .. k /\ pending_list'[j] = cs[j]
      BY <1>8, <2>2, <3>1
    <3>2. CASE a + (j - k) \in a + 1 .. n /\ pending_list'[j] = pending_list[a + (j - k)]
      BY <1>7, <2>2, <3>2
    <3> QED BY <1>6, <3>1, <3>2
  <2> QED BY <2>1, <2>2 DEF Queued
<1>15. \A v \in Uids \ Us : Queued(v) => Queued(v)'
  <2>1. SUFFICES ASSUME NEW v \in Uids \ Us, NEW i \in 1 .. n, pending_list[i].uid = v
                 PROVE  Queued(v)'
    BY DEF Queued, n
  <2>2. i \in a + 1 .. n
    <3>1. i \notin 1 .. a
      BY <1>7, <2>1
    <3> QED BY ONLY <1>2, <2>1, <3>1
  <2> QED BY <1>10, <2>1, <2>2 DEF Queued
<1>16. ASSUME NEW j \in 1 .. Len(pending_list')
       PROVE  \/ pending_list'[j].uid \notin Us
                   /\ \E i \in 1 .. Len(pending_list) : pending_list'[j] = pending_list[i]
              \/ pending_list'[j].uid \in Us /\ pending_list'[j].chunked /\ req[pending_list'[j].uid].chunked
  <2>1. CASE j \in 1 .. k /\ pending_list'[j] = cs[j]
    BY <1>8, <2>1
  <2>2. CASE a + (j - k) \in a + 1 .. n /\ pending_list'[j] = pending_list[a + (j - k)]
    BY <1>7, <2>2 DEF n
  <2> QED BY <1>6, <2>1, <2>2
<1> QED BY <1>5, <1>9, <1>12, <1>13, <1>14, <1>15, <1>16

\* The decode set is finite: each of its requests has a row of its own.
LEMMA RunningFinite ==
  ASSUME ControlInv
  PROVE  IsFiniteSet(running_reqs) /\ Cardinality(running_reqs) \in Nat
<1> DEFINE f == [u \in running_reqs |-> req[u].table_idx]
<1>1. \A u \in running_reqs : u \in Holders /\ req[u].table_idx \in Tables
  BY DEF ControlInv, RunningOK, ControlTypes, Reqs, Holders, Held
<1>2. f \in Injection(running_reqs, Tables)
  <2>1. f \in [running_reqs -> Tables]
    BY <1>1
  <2>2. ASSUME NEW u \in running_reqs, NEW v \in running_reqs, f[u] = f[v]
        PROVE  u = v
    BY <1>1, <2>2 DEF ControlInv, TablesOK
  <2> HIDE DEF f
  <2> QED BY <2>1, <2>2, Fun_IsInj
<1>3. IsFiniteSet(Tables)
  <2>1. 0 \in Int /\ MaxRunningReqs - 1 \in Int
    BY SchedulerAssumption
  <2> QED BY <2>1, FS_Interval DEF Tables
<1> HIDE DEF f
<1>4. IsFiniteSet(running_reqs)
  BY <1>2, <1>3, FS_Injection, Zenon
<1> QED BY <1>4, FS_CardinalityType

\* The batch about to be launched holds the newest objects of its requests.
LEMMA PlannedFacts ==
  ASSUME ControlInv, pc = "plan", NEW rs \in Planned
  PROVE  /\ Len(rs) \in Nat
         /\ \A i \in 1 .. Len(rs) :
              /\ rs[i].uid \in Uids /\ rs[i].n = req[rs[i].uid].n
              /\ rs[i].chunked = req[rs[i].uid].chunked
              /\ Held(rs[i].uid) /\ ~req[rs[i].uid].aborted
         /\ Distinct(rs)
         /\ IF adder.reqs # <<>> THEN rs = adder.reqs
                                 ELSE \A i \in 1 .. Len(rs) : rs[i].uid \in running_reqs
<1>1. CASE adder.reqs # <<>>
  <2>1. rs = adder.reqs
    BY <1>1 DEF Planned
  <2>2. /\ PlanTypes /\ PlanPrefix
        /\ \A i \in 1 .. Len(adder.reqs) : TakenOK(adder.reqs[i])
        /\ Distinct(pending_list) /\ pending_list \in Seq(PendingReqs)
    BY DEF ControlInv, PlanOK, Planning, QueueOK, ControlTypes
  <2>3. Len(rs) \in Nat /\ rs \in Seq(Taken)
    BY <2>1, <2>2, LenProperties DEF PlanTypes
  <2>4. ASSUME NEW i \in 1 .. Len(rs)
        PROVE  /\ rs[i].uid \in Uids /\ rs[i].n = req[rs[i].uid].n
               /\ rs[i].chunked = req[rs[i].uid].chunked
               /\ Held(rs[i].uid) /\ ~req[rs[i].uid].aborted
    <3>1. rs[i] \in Taken
      BY <2>3, ElementOfSeq
    <3> QED BY <2>1, <2>2, <3>1 DEF Taken, TakenOK
  <2>5. Distinct(rs)
    <3>1. \A i \in 1 .. Len(rs) : rs[i].uid = pending_list[i].uid /\ i \in 1 .. Len(pending_list)
      <4> DEFINE a == Len(rs)
                 b == Len(adder.rest)
                 n == Len(pending_list)
      <4>1. a \in Nat /\ b \in Nat /\ n \in Nat /\ a + b = n
        BY <2>1, <2>2, <2>3, LenProperties DEF PlanTypes, PlanPrefix
      <4> HIDE DEF a, b, n
      <4>2. \A i \in 1 .. a : i \in 1 .. n
        BY ONLY <4>1
      <4>3. \A i \in 1 .. Len(rs) : rs[i].uid = pending_list[i].uid
        BY <2>1, <2>2 DEF PlanPrefix
      <4> QED BY <4>2, <4>3 DEF a, n
    <3> QED BY <2>2, <3>1 DEF Distinct
  <2> QED BY <1>1, <2>1, <2>3, <2>4, <2>5
<1>2. CASE adder.reqs = <<>>
  <2> DEFINE c == Cardinality(running_reqs)
  <2>1. c \in Nat
    BY RunningFinite
  <2>2. PICK s \in DecodeOrders :
           rs = [i \in DOMAIN s |-> [uid |-> s[i], n |-> req[s[i]].n, chunked |-> FALSE,
                                     token |-> 0, fresh |-> FALSE]]
    BY <1>2 DEF Planned
  <2>3. /\ s \in [1 .. c -> running_reqs] /\ DOMAIN s = 1 .. c
        /\ \A i, j \in 1 .. c : i < j => s[i] < s[j]
    BY DEF DecodeOrders
  <2> HIDE DEF c
  <2>4. /\ Len(rs) = c
        /\ \A i \in 1 .. c : /\ rs[i].uid = s[i] /\ rs[i].n = req[s[i]].n /\ rs[i].chunked = FALSE
    BY ONLY <2>1, <2>2, <2>3
  <2>5. ASSUME NEW i \in 1 .. Len(rs)
        PROVE  /\ rs[i].uid \in running_reqs
               /\ rs[i].uid \in Uids /\ rs[i].n = req[rs[i].uid].n
               /\ rs[i].chunked = req[rs[i].uid].chunked
               /\ Held(rs[i].uid) /\ ~req[rs[i].uid].aborted
    <3>1. PICK u \in Uids : u = rs[i].uid /\ u \in running_reqs
      BY <2>3, <2>4 DEF ControlInv, ControlTypes
    <3>2. Held(u) /\ ~req[u].chunked /\ ~req[u].aborted /\ req[u] \in Reqs
      BY <3>1 DEF ControlInv, ControlTypes, RunningOK
    <3>3. req[u].chunked = FALSE
      BY <3>2 DEF Reqs
    <3> QED BY <2>4, <3>1, <3>2, <3>3
  <2>6. Distinct(rs)
    <3>1. SUFFICES ASSUME NEW i \in 1 .. c, NEW j \in 1 .. c, s[i] = s[j]
                   PROVE  i = j
      BY <2>4 DEF Distinct
    <3>2. s[i] \in Nat
      BY <2>3, SchedulerAssumption DEF ControlInv, ControlTypes
    <3>3. i \in Int /\ j \in Int /\ ~(i < j) /\ ~(j < i)
      BY ONLY <2>1, <2>3, <3>1, <3>2
    <3> QED BY ONLY <3>3
  <2> QED BY <1>2, <2>1, <2>4, <2>5, <2>6
<1> QED BY <1>1, <1>2

\* What a launch does to the objects, the decode set and the batches.
LEMMA LaunchFacts ==
  ASSUME ControlInv, Launch
  PROVE  \E Us \in SUBSET Uids :
           /\ pc = "plan" /\ pc' = "drain"
           /\ drain' = IF Overlap THEN last_data.reqs ELSE ongoing'.reqs
           /\ UNCHANGED <<last_data, reply, finished_reqs, new_finished_reqs, tombstones,
                          pending_abort_acks, pending_rebuild, num_pages, table_free, inbox>>
           /\ out' = [out EXCEPT !.admitted = out'.admitted]
           /\ req' \in [Uids -> Reqs]
           /\ \A v \in Uids \ Us : req'[v] = req[v]
           /\ \A v \in Us : req'[v] = [req[v] EXCEPT !.cached_len = req[v].device_len,
                                                     !.device_len = req[v].device_len + 1]
           /\ running_reqs' = {v \in running_reqs \cup Us : can_decode(req'[v], v)}
           /\ ongoing' \in Batches /\ Distinct(ongoing'.reqs)
           /\ \A i \in 1 .. Len(ongoing'.reqs) :
                /\ ongoing'.reqs[i].uid \in Us
                /\ ongoing'.reqs[i].n = req[ongoing'.reqs[i].uid].n
                /\ ongoing'.reqs[i].chunked = req[ongoing'.reqs[i].uid].chunked
           /\ \A v \in Us : \E i \in 1 .. Len(ongoing'.reqs) : ongoing'.reqs[i].uid = v
           /\ \A v \in Us : Held(v) /\ ~req[v].aborted
           /\ IF adder.reqs # <<>>
              THEN /\ Us = {adder.reqs[i].uid : i \in 1 .. Len(adder.reqs)}
                   /\ pending_list' = pending_after_plan
              ELSE Us \subseteq running_reqs /\ pending_list' = pending_list
<1>1. /\ pc = "plan" /\ pc' = "drain"
      /\ drain' = IF Overlap THEN last_data.reqs ELSE ongoing'.reqs
      /\ UNCHANGED <<last_data, reply, finished_reqs, new_finished_reqs, tombstones,
                     pending_abort_acks, pending_rebuild, num_pages, table_free, inbox>>
      /\ pending_list' = pending_after_plan
  BY DEF Launch, Refused, StartDrain
<1>2. out' = [out EXCEPT !.admitted = out'.admitted]
  <2>1. DOMAIN out = {"tokens", "admitted", "finished", "error", "acked", "rebuilds"}
    BY DEF ControlInv, ControlTypes
  <2>2. PICK x : out' = [out EXCEPT !.admitted = x]
    BY DEF Launch
  <2> QED BY ONLY <2>1, <2>2
<1>3. PICK rs \in Planned : \E evicted, sampled : sampled \in Samples(rs) /\ Forward(rs, evicted, sampled)
  BY DEF Launch
<1>4. PICK evicted, sampled : sampled \in Samples(rs) /\ Forward(rs, evicted, sampled)
  BY <1>3
<1>5. /\ Len(rs) \in Nat
      /\ \A i \in 1 .. Len(rs) :
           /\ rs[i].uid \in Uids /\ rs[i].n = req[rs[i].uid].n
           /\ rs[i].chunked = req[rs[i].uid].chunked
           /\ Held(rs[i].uid) /\ ~req[rs[i].uid].aborted
      /\ Distinct(rs)
      /\ IF adder.reqs # <<>> THEN rs = adder.reqs
                              ELSE \A i \in 1 .. Len(rs) : rs[i].uid \in running_reqs
  BY <1>1, PlannedFacts
<1> DEFINE Us == {rs[i].uid : i \in 1 .. Len(rs)}
           after == [u \in Uids |->
                        IF u \in Us THEN [req[u] EXCEPT !.cached_len = req[u].device_len,
                                                        !.device_len = @ + 1]
                        ELSE req[u]]
           reqs == [i \in 1 .. Len(rs) |->
                      [uid |-> rs[i].uid, n |-> rs[i].n, chunked |-> rs[i].chunked,
                       token |-> sampled[rs[i].uid]]]
<1>6. /\ req' = after
      /\ running_reqs' = {u \in running_reqs \cup Us : can_decode(after[u], u)}
      /\ ongoing' = [phase |-> phase, reqs |-> reqs]
  BY <1>4, Zenon DEF Forward
<1>7. sampled \in [Us -> Vocab]
  BY <1>4 DEF Samples
<1>8. Us \subseteq Uids /\ \A v \in Us : Held(v) /\ ~req[v].aborted
  BY <1>5
<1>9. req \in [Uids -> Reqs]
  BY DEF ControlInv, ControlTypes
<1>10. /\ req' \in [Uids -> Reqs]
       /\ \A v \in Uids \ Us : req'[v] = req[v]
       /\ \A v \in Us : req'[v] = [req[v] EXCEPT !.cached_len = req[v].device_len,
                                                 !.device_len = req[v].device_len + 1]
  <2>1. ASSUME NEW v \in Us
        PROVE  [req[v] EXCEPT !.cached_len = req[v].device_len,
                              !.device_len = req[v].device_len + 1] \in Reqs
    <3>1. PICK r \in Reqs : r = req[v]
      BY <1>8, <1>9
    <3>2. r.device_len + 1 \in Nat /\ r.device_len \in Nat
      BY DEF Reqs
    <3>3. [r EXCEPT !.cached_len = r.device_len, !.device_len = r.device_len + 1] \in Reqs
      BY ONLY <3>2, r \in Reqs DEF Reqs
    <3> QED BY <3>1, <3>3
  <2> HIDE DEF Us
  <2> QED BY <1>6, <1>8, <1>9, <2>1
<1>11. running_reqs' = {v \in running_reqs \cup Us : can_decode(req'[v], v)}
  BY <1>6
<1>12. /\ ongoing'.reqs = reqs /\ ongoing'.phase \in {"prefill", "decode"}
  BY <1>6 DEF phase
<1>13. /\ reqs \in Seq(Entries) /\ Len(reqs) = Len(rs)
       /\ \A i \in 1 .. Len(rs) : /\ reqs[i].uid = rs[i].uid /\ reqs[i].n = rs[i].n
                                  /\ reqs[i].chunked = rs[i].chunked
  <2>1. ASSUME NEW i \in 1 .. Len(rs)
        PROVE  reqs[i] \in Entries
    <3>1. rs[i].uid \in Us /\ rs[i].uid \in Uids /\ req[rs[i].uid] \in Reqs
      BY <1>5, <1>9
    <3>2. rs[i].n \in Nat /\ rs[i].chunked \in BOOLEAN /\ sampled[rs[i].uid] \in Vocab
      BY <1>5, <1>7, <3>1 DEF Reqs
    <3> QED BY <3>1, <3>2 DEF Entries
  <2>2. Len(reqs) = Len(rs) /\ DOMAIN reqs = 1 .. Len(rs)
    BY <1>5
  <2>3. reqs \in Seq(Entries)
    <3>1. reqs = [i \in 1 .. Len(rs) |-> reqs[i]]
      OBVIOUS
    <3> HIDE DEF reqs
    <3> QED BY <1>5, <2>1, <3>1, IsASeq
  <2> QED BY <2>2, <2>3
<1>14. ongoing' \in Batches
  <2> HIDE DEF reqs
  <2> QED BY <1>6, <1>12, <1>13 DEF Batches
<1> HIDE DEF reqs
<1>15. Distinct(ongoing'.reqs)
  BY <1>5, <1>12, <1>13 DEF Distinct
<1>16. \A i \in 1 .. Len(ongoing'.reqs) :
                /\ ongoing'.reqs[i].uid \in Us
                /\ ongoing'.reqs[i].n = req[ongoing'.reqs[i].uid].n
                /\ ongoing'.reqs[i].chunked = req[ongoing'.reqs[i].uid].chunked
  BY <1>5, <1>12, <1>13
<1>17. \A v \in Us : \E i \in 1 .. Len(ongoing'.reqs) : ongoing'.reqs[i].uid = v
  BY <1>5, <1>12, <1>13
<1>18. IF adder.reqs # <<>>
              THEN /\ Us = {adder.reqs[i].uid : i \in 1 .. Len(adder.reqs)}
                   /\ pending_list' = pending_after_plan
              ELSE Us \subseteq running_reqs /\ pending_list' = pending_list
  BY <1>1, <1>5 DEF pending_after_plan
<1> HIDE DEF Us
<1>19. Us \in SUBSET Uids
  BY <1>8
<1> HIDE DEF after
<1> QED
  BY <1>1, <1>2, <1>8, <1>10, <1>11, <1>14, <1>15, <1>16, <1>17, <1>18, <1>19

\* A launch: the device runs ahead of the host by one more token per entry, the
\* chunked requests go back to the queue and the finished prompts to the decode set.
LEMMA LaunchInv ==
  ASSUME ControlInv, Launch
  PROVE  ControlInv'
<1> DEFINE reqs == ongoing'.reqs
<1>1. PICK Us \in SUBSET Uids :
           /\ pc = "plan" /\ pc' = "drain"
           /\ drain' = IF Overlap THEN last_data.reqs ELSE reqs
           /\ UNCHANGED <<last_data, reply, finished_reqs, new_finished_reqs, tombstones,
                          pending_abort_acks, pending_rebuild, num_pages, table_free, inbox>>
           /\ out' = [out EXCEPT !.admitted = out'.admitted]
           /\ req' \in [Uids -> Reqs]
           /\ \A v \in Uids \ Us : req'[v] = req[v]
           /\ \A v \in Us : req'[v] = [req[v] EXCEPT !.cached_len = req[v].device_len,
                                                     !.device_len = req[v].device_len + 1]
           /\ running_reqs' = {v \in running_reqs \cup Us : can_decode(req'[v], v)}
           /\ ongoing' \in Batches /\ Distinct(reqs)
           /\ \A i \in 1 .. Len(reqs) :
                /\ reqs[i].uid \in Us
                /\ reqs[i].n = req[reqs[i].uid].n
                /\ reqs[i].chunked = req[reqs[i].uid].chunked
           /\ \A v \in Us : \E i \in 1 .. Len(reqs) : reqs[i].uid = v
           /\ \A v \in Us : Held(v) /\ ~req[v].aborted
           /\ IF adder.reqs # <<>>
              THEN /\ Us = {adder.reqs[i].uid : i \in 1 .. Len(adder.reqs)}
                   /\ pending_list' = pending_after_plan
              ELSE Us \subseteq running_reqs /\ pending_list' = pending_list
  BY LaunchFacts, Zenon
<1>2. /\ ControlTypes /\ req \in [Uids -> Reqs] /\ reqs \in Seq(Entries)
      /\ BatchesOK /\ QueueOK /\ RunningOK /\ UnbornOK /\ HeldOK /\ LaunchedOK /\ AbortedOK /\ TablesOK
      /\ Planning /\ ~Planning' /\ new_finished_reqs = {}
  BY <1>1 DEF ControlInv, ControlTypes, Planning, Batches, BatchesOK
<1> HIDE DEF reqs
<1>3. \A v \in Uids : /\ req'[v].n = req[v].n /\ req'[v].table_idx = req[v].table_idx
                      /\ req'[v].chunked = req[v].chunked /\ req'[v].aborted = req[v].aborted
                      /\ req'[v].output_len = req[v].output_len
                      /\ req'[v].input_ids = req[v].input_ids
                      /\ Held(v)' = Held(v) /\ max_device_len(v)' = max_device_len(v)
                      /\ ~Processed(v)'
  <2>1. ASSUME NEW v \in Uids
        PROVE  /\ req'[v].n = req[v].n /\ req'[v].table_idx = req[v].table_idx
               /\ req'[v].chunked = req[v].chunked /\ req'[v].aborted = req[v].aborted
               /\ req'[v].output_len = req[v].output_len
               /\ req'[v].input_ids = req[v].input_ids
    <3>1. PICK r \in Reqs : r = req[v]
      BY <1>2
    <3>2. CASE v \in Us
      <4>1. req'[v] = [r EXCEPT !.cached_len = r.device_len, !.device_len = r.device_len + 1]
        BY <1>1, <3>1, <3>2
      <4> QED BY ONLY <3>1, <4>1, r \in Reqs DEF Reqs
    <3>3. CASE v \notin Us
      BY <1>1, <3>3
    <3> QED BY <3>2, <3>3
  <2> QED BY <1>2, <2>1 DEF Held, max_device_len, Processed
<1>4. \A v \in Us : /\ req'[v].device_len = req[v].device_len + 1
                    /\ req'[v].cached_len = req[v].device_len
  <2>1. SUFFICES ASSUME NEW v \in Us
                 PROVE  /\ req'[v].device_len = req[v].device_len + 1
                        /\ req'[v].cached_len = req[v].device_len
    OBVIOUS
  <2>2. PICK r \in Reqs : r = req[v]
    BY <1>2
  <2>3. req'[v] = [r EXCEPT !.cached_len = r.device_len, !.device_len = r.device_len + 1]
    BY <1>1, <2>2
  <2> QED BY ONLY <2>2, <2>3, r \in Reqs DEF Reqs
\* The queue, in the two kinds of batch.
<1>5. /\ pending_list' \in Seq(PendingReqs)
      /\ Distinct(pending_list')
      /\ \A j \in 1 .. Len(pending_list') :
           \/ pending_list'[j].uid \notin Us
                /\ \E i \in 1 .. Len(pending_list) : pending_list'[j] = pending_list[i]
           \/ pending_list'[j].uid \in Us /\ pending_list'[j].chunked /\ req[pending_list'[j].uid].chunked
      /\ \A v \in Uids : Queued(v)' => Queued(v)
      /\ \A v \in Us : ~req[v].chunked => ~Queued(v)'
      /\ \A v \in Us : req[v].chunked => Queued(v)'
      /\ \A v \in Uids \ Us : Queued(v) => Queued(v)'
      /\ \A v \in Us : Queued(v) \/ v \in running_reqs
  <2>1. CASE adder.reqs # <<>>
    BY <1>1, <2>1, QueueAfterPlan
  <2>2. CASE adder.reqs = <<>>
    <3>1. Us \subseteq running_reqs /\ pending_list' = pending_list
      BY <1>1, <2>2
    <3>2. \A v \in Us : ~req[v].chunked /\ ~Queued(v)
      BY <1>2, <3>1 DEF RunningOK
    <3>3. \A v : Queued(v)' = Queued(v)
      BY <3>1 DEF Queued
    <3>4. \A j \in 1 .. Len(pending_list) : pending_list[j].uid \notin Us
      BY <3>2 DEF Queued
    <3>5. pending_list \in Seq(PendingReqs) /\ Distinct(pending_list)
      BY <1>2 DEF ControlTypes, QueueOK
    <3> QED BY <3>1, <3>2, <3>3, <3>4, <3>5
  <2> QED BY <2>1, <2>2
<1>6. \A v \in Uids : Processed(v) <=> v \in Us /\ adder.reqs # <<>>
  <2>1. CASE adder.reqs # <<>>
    <3>1. Us = {adder.reqs[i].uid : i \in 1 .. Len(adder.reqs)}
      BY <1>1, <2>1
    <3> QED BY <1>2, <2>1, <3>1 DEF Processed
  <2>2. CASE adder.reqs = <<>>
    BY <2>2 DEF Processed
  <2> QED BY <2>1, <2>2
\* The batches.
<1>7. /\ Overlap => Old' = Old /\ New' = reqs
      /\ ~Overlap => Old' = reqs /\ New' = <<>> /\ Old = <<>>
      /\ New = <<>> /\ Old = last_data.reqs
  <2>1. ~Overlap => last_data = NoBatch
    BY <1>2 DEF BatchesOK
  <2>2. pc = "plan" /\ pc' = "drain" /\ drain' = IF Overlap THEN last_data.reqs ELSE reqs
    BY <1>1
  <2>3. Overlap \in BOOLEAN
    BY SchedulerAssumption
  <2> QED BY ONLY <2>1, <2>2, <2>3 DEF Old, New, NoBatch, reqs
<1>8. \A v \in Uids : v \in Us <=> \E i \in 1 .. Len(reqs) : reqs[i].uid = v /\ reqs[i].n = req'[v].n
  <2>1. /\ \A i \in 1 .. Len(reqs) : reqs[i].uid \in Us /\ reqs[i].n = req[reqs[i].uid].n
        /\ \A v \in Us : \E i \in 1 .. Len(reqs) : reqs[i].uid = v
        /\ \A v \in Us : req'[v].n = req[v].n
    BY <1>1, <1>3
  <2> QED BY ONLY <2>1
<1>9. \A v \in Uids :
        /\ Overlap => (In(v, Old)' <=> In(v, Old)) /\ (In(v, New)' <=> v \in Us)
        /\ ~Overlap => (In(v, Old)' <=> v \in Us) /\ ~In(v, New)' /\ ~In(v, Old)
        /\ ~In(v, New)
  <2>1. SUFFICES ASSUME NEW v \in Uids
                 PROVE  /\ Overlap => (In(v, Old)' <=> In(v, Old)) /\ (In(v, New)' <=> v \in Us)
                        /\ ~Overlap => (In(v, Old)' <=> v \in Us) /\ ~In(v, New)' /\ ~In(v, Old)
                        /\ ~In(v, New)
    OBVIOUS
  <2>2. req'[v].n = req[v].n /\ (v \in Us <=> \E i \in 1 .. Len(reqs) : reqs[i].uid = v /\ reqs[i].n = req'[v].n)
    BY <1>3, <1>8
  <2> QED BY ONLY <1>7, <2>2 DEF In
<1>10. \A i \in 1 .. Len(reqs) : /\ reqs[i].uid \in Uids /\ reqs[i].n = req'[reqs[i].uid].n
                                 /\ reqs[i].n \in 1 .. req'[reqs[i].uid].n
                                 /\ reqs[i].chunked = req'[reqs[i].uid].chunked
  <2>1. SUFFICES ASSUME NEW i \in 1 .. Len(reqs)
                 PROVE  /\ reqs[i].uid \in Uids /\ reqs[i].n = req'[reqs[i].uid].n
                        /\ reqs[i].n \in 1 .. req'[reqs[i].uid].n
                        /\ reqs[i].chunked = req'[reqs[i].uid].chunked
    OBVIOUS
  <2>2. PICK u \in Us : u = reqs[i].uid /\ reqs[i].n = req[u].n /\ reqs[i].chunked = req[u].chunked
    BY <1>1
  <2>3. req[u].n \in Nat /\ req[u].n # 0
    BY <1>1, <1>2 DEF UnbornOK, Reqs
  <2>4. req'[u].n = req[u].n /\ req'[u].chunked = req[u].chunked
    BY <1>3
  <2> QED BY ONLY <2>2, <2>3, <2>4, Us \in SUBSET Uids
<1>11. Old \in Seq(Entries) /\ \A i \in 1 .. Len(Old) : Old[i].uid \in Uids
  <2>1. Old \in Seq(Entries)
    BY <1>2, <1>7 DEF ControlTypes, Batches
  <2>2. ASSUME NEW i \in 1 .. Len(Old) PROVE Old[i].uid \in Uids
    <3>1. Old[i] \in Entries
      BY <2>1, ElementOfSeq
    <3> QED BY <3>1 DEF Entries
  <2> QED BY <2>1, <2>2
<1>12. ControlTypes'
  <2>1. /\ DOMAIN out' = {"tokens", "admitted", "finished", "error", "acked", "rebuilds"}
        /\ out'.finished \cup out'.error \cup out'.acked \subseteq Uids /\ out'.rebuilds \in Nat
    <3>1. /\ DOMAIN out = {"tokens", "admitted", "finished", "error", "acked", "rebuilds"}
          /\ out.finished \cup out.error \cup out.acked \subseteq Uids /\ out.rebuilds \in Nat
      BY <1>2 DEF ControlTypes
    <3>2. PICK x : out' = [out EXCEPT !.admitted = x]
      BY <1>1
    <3> QED BY ONLY <3>1, <3>2
  <2>2. /\ req' \in [Uids -> Reqs] /\ pending_list' \in Seq(PendingReqs)
        /\ ongoing' \in Batches /\ last_data' \in Batches /\ drain' \in Seq(Entries)
    BY <1>1, <1>2, <1>5 DEF ControlTypes, Batches
  <2>3. running_reqs' \subseteq Uids
    BY <1>1, <1>2 DEF ControlTypes
  <2>4. pc' \in Phases
    BY <1>1 DEF Phases
  <2> QED BY <1>1, <1>2, <2>1, <2>2, <2>3, <2>4 DEF ControlTypes
<1>13. BatchesOK'
  <2>1. \A i \in 1 .. Len(reqs) :
           /\ reqs[i].n \in 1 .. req'[reqs[i].uid].n
           /\ IF reqs[i].n = req'[reqs[i].uid].n
              THEN reqs[i].chunked = req'[reqs[i].uid].chunked ELSE reqs[i].chunked
    BY <1>10
  <2>2. ASSUME NEW i \in 1 .. Len(Old)
        PROVE  /\ Old[i].n \in 1 .. req'[Old[i].uid].n
               /\ IF Old[i].n = req'[Old[i].uid].n
                  THEN Old[i].chunked = req'[Old[i].uid].chunked ELSE Old[i].chunked
    <3>1. EntryOK(Old[i]) /\ Old[i].uid \in Uids
      BY <1>2, <1>11 DEF BatchesOK
    <3>2. req'[Old[i].uid].n = req[Old[i].uid].n /\ req'[Old[i].uid].chunked = req[Old[i].uid].chunked
      BY <1>3, <3>1
    <3> QED BY ONLY <3>1, <3>2 DEF EntryOK
  <2>3. Distinct(Old) /\ Distinct(reqs)
    BY <1>1, <1>2 DEF BatchesOK
  <2>4. CASE Overlap
    <3>1. Old' = Old /\ New' = reqs
      BY <1>7, <2>4
    <3>2. last_data' = NoBatch => drain' = <<>>
      <4>1. drain' = last_data.reqs /\ last_data' = last_data
        BY <1>1, <2>4
      <4>2. NoBatch.reqs = <<>>
        BY DEF NoBatch
      <4> QED BY ONLY <4>1, <4>2
    <3>3. pc' = "drain" /\ new_finished_reqs' = {}
      BY <1>1, <1>2
    <3>4. \A i \in 1 .. Len(reqs) : reqs[i].n = req'[reqs[i].uid].n
      BY <1>10
    <3> QED BY ONLY <2>1, <2>2, <2>3, <2>4, <3>1, <3>2, <3>3, <3>4 DEF BatchesOK, EntryOK, Distinct, Planning
  <2>5. CASE ~Overlap
    <3>1. Old' = reqs /\ New' = <<>>
      BY <1>7, <2>5
    <3>2. last_data' = NoBatch
      BY <1>1, <1>2, <2>5 DEF BatchesOK
    <3>3. pc' = "drain"
      BY <1>1
    <3> QED BY ONLY <2>1, <2>3, <2>5, <3>1, <3>2, <3>3 DEF BatchesOK, EntryOK, Distinct, Planning
  <2> QED BY <2>4, <2>5
<1>14. QueueOK'
  <2>1. ASSUME NEW v \in Us, req[v].chunked
        PROVE  req[v].device_len <= Len(Prompt[v])
    <3>1. v \notin running_reqs
      BY <1>2, <2>1 DEF RunningOK
    <3>2. adder.reqs # <<>> /\ Processed(v)
      BY <1>1, <1>6, <3>1
    <3>3. PICK i \in 1 .. Len(adder.reqs) : adder.reqs[i].uid = v
      BY <3>2 DEF Processed
    <3>4. TakenOK(adder.reqs[i])
      BY <1>2 DEF ControlInv, PlanOK
    <3> QED BY <3>3, <3>4 DEF TakenOK
  <2>2. ASSUME NEW j \in 1 .. Len(pending_list')
        PROVE  WaitingOK(pending_list[j])'
    <3>1. PICK p \in PendingReqs : p = pending_list'[j]
      BY <1>5, ElementOfSeq
    <3>2. p.uid \in Uids
      BY DEF PendingReqs
    <3>3. CASE p.uid \in Us /\ p.chunked /\ req[p.uid].chunked
      <4>1. PICK v \in Us : v = p.uid
        BY <3>3
      <4>2. /\ Held(v)' /\ req'[v].chunked /\ ~req'[v].aborted
            /\ req'[v].cached_len <= Len(Prompt[v])
        BY <1>1, <1>3, <1>4, <2>1, <3>3, <4>1
      <4>3. WaitingOK(p)'
        BY ONLY <3>3, <4>1, <4>2 DEF WaitingOK, Held
      <4> QED BY ONLY <3>1, <4>3 DEF WaitingOK
    <3>4. CASE p.uid \notin Us /\ \E i \in 1 .. Len(pending_list) : p = pending_list[i]
      <4>1. WaitingOK(p)
        BY <1>2, <3>4 DEF QueueOK
      <4>2. PICK v \in Uids : v = p.uid
        BY <3>2
      <4>3. ~Processed(v) /\ req'[v] = req[v] /\ Held(v)' = Held(v)
        BY <1>1, <1>3, <1>6, <3>4, <4>2
      <4>4. WaitingOK(p)'
        BY ONLY <4>1, <4>2, <4>3 DEF WaitingOK, Held, Processed
      <4> QED BY ONLY <3>1, <4>4 DEF WaitingOK
    <3> QED BY <1>5, <3>1, <3>3, <3>4
  <2> QED BY ONLY <1>5, <2>2 DEF QueueOK, Distinct
<1>15. PlanOK'
  BY <1>2 DEF PlanOK
<1>16. RunningOK'
  <2>1. SUFFICES ASSUME NEW v \in running_reqs'
                 PROVE  /\ Held(v)' /\ ~req'[v].chunked /\ ~req'[v].aborted
                        /\ req'[v].device_len < max_device_len(v)'
                        /\ ~Queued(v)'
    BY DEF RunningOK
  <2>2. v \in running_reqs \cup Us /\ can_decode(req'[v], v) /\ v \in Uids
    BY <1>1, <1>2 DEF ControlTypes
  <2>3. ~req'[v].chunked /\ req'[v].device_len < max_device_len(v)'
    BY <2>2 DEF can_decode, max_device_len
  <2>4. Held(v)' /\ ~req'[v].aborted
    BY <1>1, <1>2, <1>3, <2>2 DEF RunningOK
  <2>5. ~Queued(v)'
    BY <1>2, <1>3, <1>5, <2>2, <2>3 DEF RunningOK
  <2> QED BY <2>3, <2>4, <2>5
<1>17. UnbornOK'
  <2>1. SUFFICES ASSUME NEW v \in Uids
                 PROVE  /\ v \in inbox.user => ~Queued(v)' /\ req'[v].n = 0
                        /\ req'[v].n = 0 => ~Held(v)'
                        /\ v \in finished_reqs \cup new_finished_reqs => req'[v].n > 0 /\ ~Held(v)'
    BY <1>1 DEF UnbornOK
  <2>2. /\ v \in inbox.user => ~Queued(v) /\ req[v].n = 0
        /\ req[v].n = 0 => ~Held(v)
        /\ v \in finished_reqs \cup new_finished_reqs => req[v].n > 0 /\ ~Held(v)
    BY <1>2 DEF UnbornOK
  <2>3. req'[v].n = req[v].n /\ Held(v)' = Held(v) /\ (Queued(v)' => Queued(v))
    BY <1>3, <1>5
  <2> QED BY ONLY <2>2, <2>3
<1>18. HeldOK'
  <2>1. SUFFICES ASSUME NEW v \in Uids, Held(v)
                 PROVE  Known(v)'
    BY <1>3 DEF HeldOK, Known
  <2>2. /\ Known(v)
        /\ req'[v].aborted = req[v].aborted /\ req'[v].chunked = req[v].chunked
        /\ req'[v].input_ids = req[v].input_ids /\ max_device_len(v)' = max_device_len(v)
        /\ Held(v)' /\ ~Processed(v)'
    BY <1>2, <1>3, <2>1 DEF HeldOK
  <2>3. Overlap \in BOOLEAN
    BY SchedulerAssumption
  <2>4. CASE req[v].aborted
    <3>1. In(v, Old) /\ v \notin Us
      BY <1>1, <2>1, <2>2, <2>4 DEF Known
    <3>2. In(v, Old)' /\ ~In(v, New)'
      BY <1>9, <2>3, <3>1
    <3> QED BY ONLY <2>2, <2>4, <3>2 DEF Known
  <2>5. CASE ~req[v].aborted /\ req[v].chunked
    <3>1. Queued(v)
      BY <2>1, <2>2, <2>5 DEF Known
    <3>2. Queued(v)'
      BY <1>5, <2>5, <3>1
    <3> QED BY ONLY <2>2, <2>5, <3>2 DEF Known
  <2>6. CASE ~req[v].aborted /\ ~req[v].chunked
    <3>1. /\ v \in running_reqs \/ Processed(v) \/ In(v, Old) \/ In(v, New)
          /\ req[v].device_len = Len(req[v].input_ids) + Lag(v)
          /\ v \in running_reqs \/ Processed(v) \/ req[v].device_len >= max_device_len(v)
      BY ONLY <2>1, <2>2, <2>6 DEF Known
    <3>2. /\ req[v].device_len \in Nat /\ Len(req[v].input_ids) \in Nat /\ max_device_len(v) \in Nat
      <4>1. PICK r \in Reqs : r = req[v]
        BY <1>2
      <4>2. r.device_len \in Nat /\ r.input_ids \in Seq(Vocab) /\ r.output_len \in Nat
        BY SchedulerAssumption DEF Reqs
      <4>3. Len(Prompt[v]) \in Nat
        BY SchedulerAssumption
      <4> QED BY <4>1, <4>2, <4>3, LenProperties DEF max_device_len
    <3>3. ~In(v, New) /\ Lag(v) = IF In(v, Old) THEN 1 ELSE 0
      BY <1>9 DEF Lag
    <3>4. CASE v \in Us
      <4>1. Lag(v)' = Lag(v) + 1 /\ (In(v, Old)' \/ In(v, New)')
        <5>1. CASE Overlap
          BY <1>9, <3>3, <3>4, <5>1 DEF Lag
        <5>2. CASE ~Overlap
          BY <1>9, <3>3, <3>4, <5>2 DEF Lag
        <5> QED BY <5>1, <5>2
      <4>2. req'[v].device_len = req[v].device_len + 1
        BY <1>4, <3>4
      <4>3. req'[v].device_len = Len(req'[v].input_ids) + Lag(v)'
        <5>1. Lag(v) \in Nat
          BY <3>3
        <5> QED BY ONLY <2>2, <3>1, <3>2, <4>1, <4>2, <5>1
      <4>4. v \in running_reqs' \/ req'[v].device_len >= max_device_len(v)'
        <5>1. ~req'[v].chunked /\ ~can_decode(req'[v], v) => req'[v].device_len >= max_device_len(v)'
          BY <2>2, <3>2, <4>2 DEF can_decode, max_device_len
        <5> QED BY <1>1, <2>2, <2>6, <3>4, <5>1
      <4> QED BY ONLY <2>2, <2>6, <4>1, <4>3, <4>4 DEF Known
    <3>5. CASE v \notin Us
      <4>1. req'[v] = req[v] /\ ~Processed(v)
        BY <1>1, <1>6, <3>5
      <4>2. Lag(v)' = Lag(v) /\ (In(v, Old)' <=> In(v, Old)) /\ ~In(v, New)'
        <5>1. (In(v, Old)' <=> In(v, Old)) /\ ~In(v, New)'
          BY <1>9, <2>3, <3>5
        <5> QED BY <3>3, <5>1 DEF Lag
      <4>3. v \in running_reqs => v \in running_reqs'
        <5>1. SUFFICES ASSUME v \in running_reqs PROVE can_decode(req'[v], v)
          BY <1>1
        <5>2. ~req[v].chunked /\ req[v].device_len < max_device_len(v)
          BY <1>2, <5>1 DEF RunningOK
        <5> QED BY <4>1, <5>2 DEF can_decode, max_device_len
      <4> QED BY ONLY <2>2, <2>6, <3>1, <3>3, <4>1, <4>2, <4>3 DEF Known
    <3> QED BY <3>4, <3>5
  <2> QED BY <2>4, <2>5, <2>6
<1>19. LaunchedOK'
  <2>1. ASSUME NEW i \in 1 .. Len(Old)
        PROVE  req'[Old[i].uid].table_idx # NoTable \/ Old[i].uid \in finished_reqs
    <3>1. Held(Old[i].uid) \/ Old[i].uid \in finished_reqs
      BY <1>2 DEF LaunchedOK
    <3>2. req'[Old[i].uid].table_idx = req[Old[i].uid].table_idx
      BY <1>3, <1>11
    <3> QED BY ONLY <3>1, <3>2 DEF Held
  <2>2. ASSUME NEW i \in 1 .. Len(reqs)
        PROVE  req'[reqs[i].uid].table_idx # NoTable
    <3>1. PICK u \in Us : u = reqs[i].uid
      BY <1>1
    <3>2. Held(u) /\ req'[u].table_idx = req[u].table_idx
      BY <1>1, <1>3
    <3> QED BY ONLY <3>1, <3>2 DEF Held
  <2>3. finished_reqs' = finished_reqs /\ Overlap \in BOOLEAN
    BY <1>1, SchedulerAssumption
  <2> QED BY ONLY <1>7, <2>1, <2>2, <2>3 DEF LaunchedOK, Held
<1>20. AbortedOK'
  <2>1. out'.acked = out.acked /\ pending_abort_acks' = pending_abort_acks
        /\ inbox' = inbox /\ tombstones' = tombstones
    <3>1. DOMAIN out = {"tokens", "admitted", "finished", "error", "acked", "rebuilds"}
      BY <1>2 DEF ControlTypes
    <3>2. PICK x : out' = [out EXCEPT !.admitted = x]
      BY <1>1
    <3>3. out'.acked = out.acked
      BY ONLY <3>1, <3>2
    <3> QED BY <1>1, <3>3
  <2>2. \A v \in out.acked \cup pending_abort_acks : v \in Uids
    BY <1>2 DEF ControlTypes
  <2>3. \A v \in out.acked \cup pending_abort_acks : v \notin Us /\ v \notin running_reqs /\ ~Queued(v)
    BY <1>2, <1>5 DEF AbortedOK
  <2>4. \A v \in out.acked \cup pending_abort_acks : v \notin running_reqs' /\ ~Queued(v)'
    BY <1>1, <1>5, <2>2, <2>3
  <2>5. \A v \in out.acked \cup pending_abort_acks :
           Held(v) => v \notin out.acked /\ In(v, Old)
    BY <1>2 DEF AbortedOK
  <2>6. \A v \in out.acked \cup pending_abort_acks :
           Held(v)' => v \notin out.acked /\ In(v, Old)' /\ ~In(v, New)'
    BY <1>3, <1>9, <2>2, <2>3, <2>5
  <2>7. \A v \in out.acked \cup pending_abort_acks : v \in inbox.user => v \in tombstones
    BY <1>2 DEF AbortedOK
  <2> QED BY ONLY <2>1, <2>4, <2>6, <2>7 DEF AbortedOK
<1>21. TablesOK'
  <2>1. Holders' = Holders
    BY <1>3 DEF Holders
  <2>2. \A v \in Holders : v \in Uids /\ req'[v].table_idx = req[v].table_idx
    BY <1>3 DEF Holders
  <2>3. TablesOK /\ table_free' = table_free
    BY <1>1, <1>2
  <2> QED BY ONLY <2>1, <2>2, <2>3 DEF TablesOK
<1> QED
  BY <1>12, <1>13, <1>14, <1>15, <1>16, <1>17, <1>18, <1>19, <1>20, <1>21 DEF ControlInv

\* A pass with nothing to launch.
LEMMA NoLaunchInv ==
  ASSUME ControlInv, NoLaunch
  PROVE  ControlInv'
<1>1. /\ pc = "plan" /\ pc' = "drain" /\ adder.reqs = <<>>
      /\ drain' = IF Overlap THEN last_data.reqs ELSE <<>>
      /\ ongoing' = NoBatch
      /\ UNCHANGED <<pending_list, running_reqs, req, last_data, reply, finished_reqs,
                     new_finished_reqs, tombstones, pending_abort_acks, pending_rebuild, num_pages, table_free,
                     inbox, out>>
  BY DEF NoLaunch, Refused, StartDrain, NoBatch
<1>2. /\ ControlTypes /\ BatchesOK /\ QueueOK /\ RunningOK /\ UnbornOK /\ HeldOK /\ LaunchedOK
      /\ AbortedOK /\ TablesOK /\ new_finished_reqs = {} /\ Overlap \in BOOLEAN
      /\ ~Overlap => last_data = NoBatch
  BY <1>1, SchedulerAssumption DEF ControlInv, BatchesOK
<1>3. /\ Old' = Old /\ New' = New /\ Old = last_data.reqs /\ New = <<>>
  <2>1. NoBatch.reqs = <<>>
    BY DEF NoBatch
  <2> QED BY ONLY <1>1, <1>2, <2>1 DEF Old, New
<1>4. \A v : /\ ~Processed(v) /\ ~Processed(v)' /\ Queued(v)' = Queued(v) /\ Held(v)' = Held(v)
             /\ (In(v, Old)' <=> In(v, Old)) /\ (In(v, New)' <=> In(v, New))
  <2>1. \A v : ~Processed(v) /\ ~Processed(v)'
    BY <1>1 DEF Processed, Planning
  <2> QED BY <1>1, <1>3, <2>1 DEF Queued, Held, In
<1>5. ControlTypes'
  <2>1. ongoing' \in Batches /\ drain' \in Seq(Entries)
    BY <1>1, <1>2, <1>3 DEF ControlTypes, Batches, NoBatch
  <2> QED BY <1>1, <1>2, <2>1 DEF ControlTypes, Phases
<1>6. BatchesOK'
  <2>1. last_data' = NoBatch => drain' = <<>>
    BY <1>1, <1>2 DEF NoBatch
  <2> QED BY ONLY <1>1, <1>2, <1>3, <2>1 DEF BatchesOK, Distinct, EntryOK, Planning
<1>7. QueueOK' /\ PlanOK'
  <2>1. QueueOK'
    BY <1>1, <1>2, <1>4 DEF QueueOK, WaitingOK, Distinct, Held, Processed
  <2> QED BY <1>1, <2>1 DEF PlanOK, Planning
<1>8. RunningOK' /\ UnbornOK' /\ AbortedOK'
  BY <1>1, <1>2, <1>4 DEF RunningOK, UnbornOK, AbortedOK, max_device_len
<1>9. HeldOK' /\ LaunchedOK'
  BY <1>1, <1>2, <1>3, <1>4 DEF HeldOK, Known, Lag, LaunchedOK, max_device_len, Held
<1>10. TablesOK'
  BY <1>1, <1>2 DEF TablesOK, Holders, Held
<1> QED BY <1>5, <1>6, <1>7, <1>8, <1>9, <1>10 DEF ControlInv

-----------------------------------------------------------------------------
(* Draining.                                                               *)

\* The entry a visit takes off the batch, and what is left of it.
LEMMA VisitFacts ==
  ASSUME ControlInv, Visit
  PROVE  /\ pc = "drain" /\ pc' = "drain" /\ Old = drain /\ Old' = Tail(drain) /\ New' = New
         /\ Old \in Seq(Entries) /\ Old' \in Seq(Entries) /\ New \in Seq(Entries)
         /\ entry \in Entries /\ entry.uid \in Uids
         /\ EntryOK(entry) /\ req[entry.uid].n >= 1 /\ req[entry.uid].n \in Nat
         /\ Held(entry.uid) \/ entry.uid \in finished_reqs
         /\ Len(Old') = Len(Old) - 1 /\ Len(Old) \in Nat \ {0}
         /\ \A i \in 1 .. Len(Old') : i + 1 \in 1 .. Len(Old) /\ Old'[i] = Old[i + 1]
         /\ Old[1] = entry
         /\ \A i \in 1 .. Len(Old') : Old'[i].uid # entry.uid
         /\ \A v : ~Processed(v) /\ ~Processed(v)' /\ Queued(v)' = Queued(v)
<1>1. /\ pc = "drain" /\ pc' = "drain" /\ drain # <<>> /\ drain' = Tail(drain)
      /\ UNCHANGED <<pending_list, ongoing>>
      /\ drain \in Seq(Entries) /\ ongoing \in Batches
  BY DEF Visit, ControlInv, ControlTypes
<1>2. Old = drain /\ Old' = Tail(drain) /\ New' = New
  BY <1>1 DEF Old, New
<1>3. /\ entry \in Entries /\ Tail(drain) \in Seq(Entries) /\ Len(Tail(drain)) = Len(drain) - 1
      /\ \A i \in 1 .. Len(Tail(drain)) : Tail(drain)[i] = drain[i + 1]
      /\ Len(drain) \in Nat \ {0}
  BY <1>1, HeadTailProperties, EmptySeq DEF entry
<1>4. entry = drain[1] /\ entry.uid \in Uids
  BY <1>1, <1>3 DEF entry, Entries
<1>5. /\ 1 \in 1 .. Len(Old) /\ \A i \in 1 .. Len(Old') : i + 1 \in 1 .. Len(Old) /\ i + 1 # 1
  <2> DEFINE n == Len(drain)
  <2>1. Len(Old') = n - 1 /\ Len(Old) = n /\ n \in Nat \ {0}
    BY <1>2, <1>3
  <2> HIDE DEF n
  <2>2. /\ 1 \in 1 .. n /\ \A i \in 1 .. n - 1 : i + 1 \in 1 .. n /\ i + 1 # 1
    BY ONLY <2>1
  <2> QED BY ONLY <2>1, <2>2
<1>6. EntryOK(entry) /\ (Held(entry.uid) \/ entry.uid \in finished_reqs)
  BY <1>2, <1>4, <1>5 DEF ControlInv, BatchesOK, LaunchedOK
<1>7. req[entry.uid].n >= 1 /\ req[entry.uid].n \in Nat
  <2>1. req[entry.uid].n \in Nat
    BY <1>4 DEF ControlInv, ControlTypes, Reqs
  <2> QED BY <1>6, <2>1 DEF EntryOK
<1>8. \A i \in 1 .. Len(Old') : Old'[i] = Old[i + 1]
  BY <1>2, <1>3
<1>9. \A i \in 1 .. Len(Old') : Old'[i].uid # entry.uid
  <2>1. Distinct(Old) /\ Old[1] = entry
    BY <1>2, <1>4 DEF ControlInv, BatchesOK
  <2> QED BY ONLY <1>5, <1>8, <2>1 DEF Distinct
<1>10. \A v : ~Processed(v) /\ ~Processed(v)' /\ Queued(v)' = Queued(v)
  BY <1>1 DEF Processed, Planning, Queued
<1>11. New \in Seq(Entries)
  BY <1>1, EmptySeq DEF New, Batches
<1> QED BY <1>1, <1>2, <1>3, <1>4, <1>5, <1>6, <1>7, <1>8, <1>9, <1>10, <1>11

\* One visit, described by what it does to the entry's request u.
LEMMA DrainInv ==
  ASSUME NEW u \in Uids, u = entry.uid, ControlInv, Visit,
         req' \in [Uids -> Reqs], \A v \in Uids \ {u} : req'[v] = req[v],
         req'[u].n = req[u].n, req'[u].chunked = req[u].chunked,
         req'[u].aborted = req[u].aborted, req'[u].device_len = req[u].device_len,
         req'[u].output_len = req[u].output_len,
         running_reqs' \subseteq running_reqs, running_reqs \ {u} \subseteq running_reqs',
         new_finished_reqs' \in {new_finished_reqs, new_finished_reqs \cup {u}},
         table_free' \in Seq(Tables), TablesOK',
         Known(u)', reply' \in Seq(Replies),
         Queued(u) => req'[u] = req[u],
         u \in running_reqs' => Held(u)',
         u \in new_finished_reqs' => ~Held(u)',
         u \in out.acked \cup pending_abort_acks => ~Held(u)',
         In(u, New) => Held(u)' \/ u \in new_finished_reqs',
         Held(u)' => Held(u)
  PROVE  ControlInv'
<1>1. /\ pc = "drain" /\ pc' = "drain" /\ Old = drain /\ Old' = Tail(drain) /\ New' = New
      /\ Old \in Seq(Entries) /\ Old' \in Seq(Entries) /\ New \in Seq(Entries)
      /\ entry \in Entries
      /\ EntryOK(entry) /\ req[u].n >= 1 /\ req[u].n \in Nat
      /\ Len(Old') = Len(Old) - 1 /\ Len(Old) \in Nat \ {0}
      /\ \A i \in 1 .. Len(Old') : i + 1 \in 1 .. Len(Old) /\ Old'[i] = Old[i + 1]
      /\ Old[1] = entry
      /\ \A i \in 1 .. Len(Old') : Old'[i].uid # u
      /\ \A v : ~Processed(v) /\ ~Processed(v)' /\ Queued(v)' = Queued(v)
  BY VisitFacts, Zenon
<1>2. /\ ControlTypes /\ BatchesOK /\ QueueOK /\ RunningOK /\ UnbornOK /\ HeldOK /\ LaunchedOK
      /\ AbortedOK /\ TablesOK
      /\ UNCHANGED <<pending_list, last_data, ongoing, finished_reqs, tombstones,
                     pending_abort_acks, pending_rebuild, num_pages, inbox, out>>
      /\ drain # <<>>
  BY DEF ControlInv, Visit
<1>3. \A v \in Uids : req'[v].n = req[v].n /\ req'[v].chunked = req[v].chunked
  OBVIOUS
<1>4. \A v \in Uids \ {u} : Held(v)' = Held(v)
  BY DEF Held
<1>5. \A v \in Uids \ {u} : (In(v, Old)' <=> In(v, Old)) /\ (In(v, New)' <=> In(v, New))
  <2>1. SUFFICES ASSUME NEW v \in Uids \ {u}
                 PROVE  (In(v, Old)' <=> In(v, Old)) /\ (In(v, New)' <=> In(v, New))
    OBVIOUS
  <2>2. req'[v] = req[v]
    OBVIOUS
  <2>3. In(v, New)' <=> In(v, New)
    BY <1>1, <2>2 DEF In
  <2>4. In(v, Old)' => In(v, Old)
    <3>1. SUFFICES ASSUME NEW i \in 1 .. Len(Old'), Old'[i].uid = v, Old'[i].n = req[v].n
                   PROVE  In(v, Old)
      BY <2>2 DEF In
    <3> QED BY <1>1, <3>1 DEF In
  <2>5. In(v, Old) => In(v, Old)'
    <3>1. SUFFICES ASSUME NEW i \in 1 .. Len(Old), Old[i].uid = v, Old[i].n = req[v].n
                   PROVE  In(v, Old)'
      BY DEF In
    <3>2. i # 1
      BY <1>1, <3>1
    <3>3. i - 1 \in 1 .. Len(Old') /\ (i - 1) + 1 = i
      <4> DEFINE n == Len(Old)
      <4>1. n \in Nat \ {0} /\ i \in 1 .. n /\ Len(Old') = n - 1
        BY <1>1
      <4> HIDE DEF n
      <4> QED BY ONLY <3>2, <4>1
    <3>4. Old'[i - 1] = Old[i]
      BY <1>1, <3>3
    <3> QED BY <2>2, <3>1, <3>3, <3>4 DEF In
  <2> QED BY <2>3, <2>4, <2>5
<1>6. ~In(u, Old)'
  BY <1>1 DEF In
<1>7. ControlTypes'
  <2>1. running_reqs' \subseteq Uids /\ new_finished_reqs' \subseteq Uids /\ drain' \in Seq(Entries)
    BY <1>1, <1>2 DEF ControlTypes, Visit
  <2> QED BY <1>1, <1>2, <2>1 DEF ControlTypes, Phases
<1>8. BatchesOK'
  <2>1. Distinct(Old')
    <3>1. SUFFICES ASSUME NEW i \in 1 .. Len(Old'), NEW j \in 1 .. Len(Old'), Old'[i].uid = Old'[j].uid
                   PROVE  i = j
      BY DEF Distinct
    <3>2. i + 1 = j + 1
      BY <1>1, <1>2, <3>1 DEF BatchesOK, Distinct
    <3>3. i \in Int /\ j \in Int
      OBVIOUS
    <3> QED BY ONLY <3>2, <3>3
  <2>2. ASSUME NEW i \in 1 .. Len(Old')
        PROVE  EntryOK(Old[i])'
    <3>1. PICK o \in Entries : o = Old'[i]
      BY <1>1, ElementOfSeq
    <3>2. EntryOK(o) /\ o.uid \in Uids
      <4>1. i + 1 \in 1 .. Len(Old) /\ Old[i + 1] = o
        BY <1>1, <3>1
      <4>2. \A j \in 1 .. Len(Old) : EntryOK(Old[j])
        BY <1>2 DEF BatchesOK
      <4> QED BY ONLY <3>1, <4>1, <4>2 DEF Entries
    <3>3. EntryOK(o)'
      BY <1>3, <3>2 DEF EntryOK
    <3> QED BY <3>1, <3>3 DEF EntryOK
  <2>3. ASSUME NEW i \in 1 .. Len(New)
        PROVE  EntryOK(New[i])' /\ New'[i].n = req'[New'[i].uid].n
    <3>1. PICK o \in Entries : o = New[i]
      BY <1>1, ElementOfSeq
    <3>2. EntryOK(o) /\ o.n = req[o.uid].n /\ o.uid \in Uids
      BY <1>2, <3>1 DEF BatchesOK, Entries
    <3>3. EntryOK(o)' /\ o.n = req'[o.uid].n
      BY <1>3, <3>2 DEF EntryOK
    <3>4. New'[i] = o
      BY <1>1, <3>1
    <3> QED BY <3>3, <3>4 DEF EntryOK
  <2>4. Distinct(New)' /\ (~Overlap => last_data' = NoBatch)
    BY <1>1, <1>2 DEF BatchesOK, Distinct
  <2>5. ~(Overlap /\ last_data' = NoBatch)
    BY <1>1, <1>2 DEF BatchesOK
  <2>6. New' = New /\ pc' = "drain"
    BY <1>1
  <2> QED BY ONLY <2>1, <2>2, <2>3, <2>4, <2>5, <2>6 DEF BatchesOK, Distinct, Planning
<1>9. QueueOK'
  <2>1. ASSUME NEW j \in 1 .. Len(pending_list)
        PROVE  WaitingOK(pending_list[j])'
    <3>1. PICK p \in PendingReqs : p = pending_list[j]
      BY <1>2, ElementOfSeq DEF ControlTypes
    <3>2. WaitingOK(p) /\ p.uid \in Uids
      BY <1>2, <3>1 DEF QueueOK, PendingReqs
    <3>3. req'[p.uid] = req[p.uid]
      BY <3>1, <3>2 DEF Queued
    <3>4. ~Processed(p.uid)
      BY <1>1
    <3>5. WaitingOK(p)'
      BY ONLY <3>2, <3>3, <3>4 DEF WaitingOK, Held
    <3>6. pending_list'[j] = p
      BY <1>2, <3>1
    <3> QED BY ONLY <3>5, <3>6 DEF WaitingOK
  <2> QED BY ONLY <1>2, <2>1 DEF QueueOK, Distinct
<1>10. PlanOK'
  BY <1>1 DEF PlanOK, Planning
<1>11. RunningOK'
  <2>1. ASSUME NEW v \in running_reqs'
        PROVE  /\ Held(v)' /\ ~req'[v].chunked /\ ~req'[v].aborted
               /\ req'[v].device_len < max_device_len(v)' /\ ~Queued(v)'
    <3>1. v \in running_reqs /\ v \in Uids /\ Queued(v)' = Queued(v)
      BY <1>1, <1>2 DEF ControlTypes
    <3>2. /\ req'[v].chunked = req[v].chunked /\ req'[v].aborted = req[v].aborted
          /\ req'[v].device_len = req[v].device_len /\ req'[v].output_len = req[v].output_len
      BY <3>1
    <3>3. Held(v) /\ Held(v)'
      BY <1>2, <1>4, <3>1 DEF RunningOK
    <3> QED BY <1>2, <3>1, <3>2, <3>3 DEF RunningOK, max_device_len
  <2> QED BY <2>1 DEF RunningOK
<1>12. UnbornOK'
  <2>1. SUFFICES ASSUME NEW v \in Uids
                 PROVE  /\ v \in inbox.user => ~Queued(v)' /\ req'[v].n = 0
                        /\ req'[v].n = 0 => ~Held(v)'
                        /\ v \in finished_reqs \cup new_finished_reqs' => req'[v].n > 0 /\ ~Held(v)'
    BY <1>2 DEF UnbornOK
  <2>2. /\ v \in inbox.user => ~Queued(v) /\ req[v].n = 0
        /\ req[v].n = 0 => ~Held(v)
        /\ v \in finished_reqs \cup new_finished_reqs => req[v].n > 0 /\ ~Held(v)
    BY <1>2 DEF UnbornOK
  <2>3. req'[v].n = req[v].n /\ (Held(v)' => Held(v)) /\ Queued(v)' = Queued(v)
    BY <1>1, <1>3, <1>4
  <2>4. v = u => req[v].n > 0 /\ (v \in new_finished_reqs' => ~Held(v)')
    BY <1>1
  <2>5. v # u => (v \in new_finished_reqs' <=> v \in new_finished_reqs)
    OBVIOUS
  <2> QED BY ONLY <2>2, <2>3, <2>4, <2>5
<1>13. HeldOK'
  <2>1. ASSUME NEW v \in Uids \ {u} PROVE Known(v)'
    <3>1. Known(v) /\ req'[v] = req[v] /\ Held(v)' = Held(v) /\ ~Processed(v) /\ ~Processed(v)'
          /\ Queued(v)' = Queued(v) /\ (In(v, Old)' <=> In(v, Old)) /\ (In(v, New)' <=> In(v, New))
          /\ (v \in running_reqs' <=> v \in running_reqs)
      BY <1>1, <1>2, <1>4, <1>5 DEF HeldOK
    <3> QED BY ONLY <3>1 DEF Known, Lag, max_device_len
  <2> QED BY <2>1 DEF HeldOK
<1>14. LaunchedOK'
  <2>1. ASSUME NEW i \in 1 .. Len(Old')
        PROVE  Held(Old[i].uid)' \/ Old'[i].uid \in finished_reqs
    <3>1. PICK o \in Entries : o = Old'[i]
      BY <1>1, ElementOfSeq
    <3>2. (Held(o.uid) \/ o.uid \in finished_reqs) /\ o.uid \in Uids \ {u}
      <4>1. i + 1 \in 1 .. Len(Old) /\ Old[i + 1] = o /\ o.uid # u
        BY <1>1, <3>1
      <4>2. \A j \in 1 .. Len(Old) : Held(Old[j].uid) \/ Old[j].uid \in finished_reqs
        BY <1>2 DEF LaunchedOK
      <4> QED BY ONLY <3>1, <4>1, <4>2 DEF Entries
    <3>3. Held(o.uid)' \/ o.uid \in finished_reqs
      BY <1>4, <3>2
    <3> QED BY <3>1, <3>3 DEF Held
  <2>2. ASSUME NEW i \in 1 .. Len(New)
        PROVE  Held(New[i].uid)' \/ New[i].uid \in new_finished_reqs'
    <3>1. PICK o \in Entries : o = New[i]
      BY <1>1, ElementOfSeq
    <3>2. (Held(o.uid) \/ o.uid \in new_finished_reqs) /\ o.n = req[o.uid].n /\ o.uid \in Uids
      BY <1>2, <3>1 DEF LaunchedOK, BatchesOK, Entries
    <3>3. CASE o.uid # u
      <4>1. Held(o.uid)' \/ o.uid \in new_finished_reqs'
        BY <1>4, <3>2, <3>3
      <4>2. New'[i] = o
        BY <1>1, <3>1
      <4> QED BY <3>1, <4>1, <4>2 DEF Held
    <3>4. CASE o.uid = u
      <4>1. In(u, New)
        BY <3>1, <3>2, <3>4 DEF In
      <4>2. Held(o.uid)' \/ o.uid \in new_finished_reqs'
        BY <3>4, <4>1
      <4>3. New'[i] = o
        BY <1>1, <3>1
      <4> QED BY <3>1, <4>2, <4>3 DEF Held
    <3> QED BY <3>3, <3>4
  <2>3. finished_reqs' = finished_reqs /\ New' = New
    BY <1>1, <1>2
  <2> QED BY ONLY <2>1, <2>2, <2>3 DEF LaunchedOK
<1>15. AbortedOK'
  <2>1. SUFFICES ASSUME NEW v \in out.acked \cup pending_abort_acks
                 PROVE  /\ ~Queued(v)' /\ v \notin running_reqs'
                        /\ v \in inbox.user => v \in tombstones
                        /\ Held(v)' => v \notin out.acked /\ In(v, Old)' /\ ~In(v, New)'
    BY <1>2 DEF AbortedOK
  <2>2. /\ ~Queued(v) /\ v \notin running_reqs /\ v \in Uids
        /\ v \in inbox.user => v \in tombstones
        /\ Held(v) => v \notin out.acked /\ In(v, Old) /\ ~In(v, New)
    BY <1>2 DEF AbortedOK, ControlTypes
  <2> QED BY <1>1, <1>4, <1>5, <2>2
<1> QED
  BY <1>7, <1>8, <1>9, <1>10, <1>11, <1>12, <1>13, <1>14, <1>15 DEF ControlInv

\* _free_req_resources leaves the object without a row, whether it had one or not.
LEMMA FreeLazilyFacts ==
  ASSUME NEW u \in Uids, NEW r \in Reqs, ControlInv, r.table_idx = req[u].table_idx,
         FreeLazily(u, r)
  PROVE  /\ req' \in [Uids -> Reqs] /\ \A v \in Uids \ {u} : req'[v] = req[v]
         /\ req'[u].n = r.n /\ req'[u].chunked = r.chunked /\ req'[u].aborted = r.aborted
         /\ req'[u].device_len = r.device_len /\ req'[u].output_len = r.output_len
         /\ ~Held(u)' /\ Known(u)'
         /\ table_free' \in Seq(Tables) /\ TablesOK'
<1>1. ControlTypes /\ TablesOK /\ req \in [Uids -> Reqs]
  BY DEF ControlInv, ControlTypes
<1>2. CASE r.table_idx = NoTable
  <2>1. req' = [req EXCEPT ![u] = r] /\ table_free' = table_free
    BY <1>2 DEF FreeLazily
  <2>2. req' \in [Uids -> Reqs] /\ req'[u] = r /\ \A v \in Uids \ {u} : req'[v] = req[v]
    BY <1>1, <2>1, UpdateReq
  <2>3. \A v \in Uids : req'[v].table_idx = req[v].table_idx
    BY <2>2
  <2>4. Holders' = Holders
    BY <2>3 DEF Holders, Held
  <2>5. TablesOK'
    BY <1>1, <2>1, <2>3, <2>4 DEF TablesOK, Holders
  <2>6. ~Held(u)'
    BY <1>2, <2>2 DEF Held
  <2> QED BY <1>1, <2>1, <2>2, <2>5, <2>6 DEF ControlTypes, Known
<1>3. CASE r.table_idx # NoTable
  <2>1. FreeRow(u, r, cache_req(u, r, TRUE)) /\ Held(u)
    BY <1>3 DEF FreeLazily, Held
  <2>2. /\ TablesOK' /\ table_free' \in Seq(Tables)
        /\ req' \in [Uids -> Reqs]
        /\ req'[u] = [r EXCEPT !.table_idx = NoTable]
        /\ \A v \in Uids \ {u} : req'[v] = req[v]
    BY <1>1, <2>1, FreeRowTables, Zenon
  <2>3. /\ req'[u].n = r.n /\ req'[u].chunked = r.chunked /\ req'[u].aborted = r.aborted
        /\ req'[u].device_len = r.device_len /\ req'[u].output_len = r.output_len
        /\ req'[u].table_idx = NoTable
    BY ONLY <2>2, r \in Reqs DEF Reqs
  <2> QED BY <2>2, <2>3 DEF Held, Known
<1> QED BY <1>2, <1>3

\* The only entry of u in the batch is the one visited.
LEMMA InOld ==
  ASSUME NEW u \in Uids, u = entry.uid, ControlInv, Visit
  PROVE  /\ In(u, Old) <=> entry.n = req[u].n
         /\ In(u, New) => Held(u) \/ u \in new_finished_reqs
         /\ entry.n # req[u].n => entry.chunked
         /\ entry.n = req[u].n => entry.chunked = req[u].chunked
         /\ Queued(u) => Held(u) /\ req[u].chunked /\ ~req[u].aborted
         /\ EntryAborted <=> entry.n = req[u].n /\ req[u].aborted
         /\ Known(u)
<1>1. /\ Old[1] = entry /\ Len(Old) \in Nat \ {0} /\ req[u].n >= 1
      /\ EntryOK(entry) /\ ~Processed(u)
  BY VisitFacts
<1>2. Distinct(Old) /\ LaunchedOK /\ BatchesOK /\ QueueOK /\ HeldOK
  BY DEF ControlInv, BatchesOK
<1>3. In(u, Old) <=> entry.n = req[u].n
  <2>1. 1 \in 1 .. Len(Old)
    BY ONLY <1>1
  <2> QED BY <1>1, <1>2, <2>1 DEF In, Distinct
<1>4. In(u, New) => Held(u) \/ u \in new_finished_reqs
  BY <1>2 DEF In, LaunchedOK
<1>5. Queued(u) => Held(u) /\ req[u].chunked /\ ~req[u].aborted
  <2>1. SUFFICES ASSUME NEW i \in 1 .. Len(pending_list), pending_list[i].uid = u
                 PROVE  Held(u) /\ req[u].chunked /\ ~req[u].aborted
    BY DEF Queued
  <2>2. WaitingOK(pending_list[i]) /\ req[u].n # 0
    <3>1. req[u].n \in Nat
      BY VisitFacts
    <3> QED BY <1>1, <1>2, <3>1 DEF QueueOK
  <2> QED BY <1>1, <2>1, <2>2 DEF WaitingOK
<1>6. EntryAborted <=> entry.n = req[u].n /\ req[u].aborted
  BY DEF EntryAborted, object
<1> QED BY <1>1, <1>2, <1>3, <1>4, <1>5, <1>6 DEF EntryOK, HeldOK

\* A chunk's results: nothing, unless the request was aborted in flight.
LEMMA DrainChunkInv ==
  ASSUME ControlInv, DrainChunk
  PROVE  ControlInv'
<1>1. Visit /\ entry.chunked /\ UNCHANGED <<running_reqs, new_finished_reqs>>
      /\ reply' \in Seq(Replies)
  BY DEF DrainChunk, ControlInv, ControlTypes
<1>2. PICK u \in Uids : u = entry.uid
  BY <1>1, VisitFacts
<1>3. /\ In(u, Old) <=> entry.n = req[u].n
      /\ In(u, New) => Held(u) \/ u \in new_finished_reqs
      /\ entry.n = req[u].n => entry.chunked = req[u].chunked
      /\ Queued(u) => Held(u) /\ req[u].chunked /\ ~req[u].aborted
      /\ EntryAborted <=> entry.n = req[u].n /\ req[u].aborted
      /\ Known(u)
  BY <1>1, <1>2, InOld
<1>4. /\ ControlTypes /\ req \in [Uids -> Reqs] /\ TablesOK /\ table_free \in Seq(Tables)
      /\ u \in running_reqs => Held(u) /\ ~req[u].aborted /\ ~req[u].chunked
      /\ u \in new_finished_reqs => ~Held(u)
      /\ u \in out.acked \cup pending_abort_acks => ~Queued(u) /\ (Held(u) => In(u, Old) /\ ~In(u, New))
  BY DEF ControlInv, ControlTypes, RunningOK, UnbornOK, AbortedOK
<1>5. CASE EntryAborted
  <2>1. FreeLazily(u, req[u]) /\ req[u] \in Reqs
    BY <1>2, <1>4, <1>5 DEF DrainChunk, object
  <2>2. /\ req' \in [Uids -> Reqs] /\ \A v \in Uids \ {u} : req'[v] = req[v]
        /\ req'[u].n = req[u].n /\ req'[u].chunked = req[u].chunked
        /\ req'[u].aborted = req[u].aborted
        /\ req'[u].device_len = req[u].device_len /\ req'[u].output_len = req[u].output_len
        /\ ~Held(u)' /\ Known(u)'
        /\ table_free' \in Seq(Tables) /\ TablesOK'
    BY <2>1, FreeLazilyFacts, Zenon
  <2>3. In(u, New) => u \in new_finished_reqs
    BY <1>3, <1>5 DEF Known
  <2>4. ~Queued(u) /\ u \notin running_reqs
    BY <1>3, <1>4, <1>5
  <2> QED BY <1>1, <1>2, <2>2, <2>3, <2>4, DrainInv
<1>6. CASE ~EntryAborted
  <2>1. req' = req /\ table_free' = table_free
    BY <1>6 DEF DrainChunk
  <2>2. Held(u)' = Held(u)
    BY <2>1 DEF Held
  <2>3. TablesOK'
    BY <1>4, <2>1 DEF TablesOK, Holders, Held
  <2>4. Known(u)'
    <3>1. /\ ~In(u, Old)' /\ In(u, New)' = In(u, New)
          /\ ~Processed(u) /\ ~Processed(u)' /\ Queued(u)' = Queued(u) /\ running_reqs' = running_reqs
      BY <1>1, <1>2, <2>1, VisitFacts DEF In
    <3>2. Held(u) => ~req[u].aborted
      BY <1>3, <1>6 DEF Known
    <3>3. Held(u) /\ ~req[u].chunked => ~In(u, Old)
      BY <1>1, <1>2, <1>3
    <3> QED BY ONLY <1>3, <2>1, <2>2, <3>1, <3>2, <3>3 DEF Known, Lag, max_device_len
  <2>5. u \in out.acked \cup pending_abort_acks => ~Held(u)
    BY <1>1, <1>3, <1>4, <1>6 DEF Known
  <2> QED BY <1>1, <1>2, <1>3, <1>4, <2>1, <2>2, <2>3, <2>4, <2>5, DrainInv
<1> QED BY <1>5, <1>6

\* An aborted request's last results free it.
LEMMA DrainAbortedInv ==
  ASSUME ControlInv, DrainAborted
  PROVE  ControlInv'
<1>1. /\ Visit /\ EntryAborted
      /\ running_reqs' = running_reqs \ {entry.uid}
      /\ new_finished_reqs' = new_finished_reqs \cup {entry.uid}
      /\ FreeLazily(entry.uid, object)
      /\ reply' \in Seq(Replies)
  BY DEF DrainAborted, ControlInv, ControlTypes
<1>2. PICK u \in Uids : u = entry.uid
  BY <1>1, VisitFacts
<1>3. req[u] \in Reqs /\ FreeLazily(u, req[u])
  BY <1>1, <1>2 DEF ControlInv, ControlTypes, object
<1>4. /\ req' \in [Uids -> Reqs] /\ \A v \in Uids \ {u} : req'[v] = req[v]
      /\ req'[u].n = req[u].n /\ req'[u].chunked = req[u].chunked
      /\ req'[u].aborted = req[u].aborted
      /\ req'[u].device_len = req[u].device_len /\ req'[u].output_len = req[u].output_len
      /\ ~Held(u)' /\ Known(u)'
      /\ table_free' \in Seq(Tables) /\ TablesOK'
  BY <1>3, FreeLazilyFacts, Zenon
<1>5. ~Queued(u)
  BY <1>1, <1>2, InOld
<1> QED BY <1>1, <1>2, <1>4, <1>5, DrainInv

\* The extra step of a request already seen to end is passed over.
LEMMA DrainStaleInv ==
  ASSUME ControlInv, DrainStale
  PROVE  ControlInv'
<1>1. /\ Visit /\ entry.uid \in finished_reqs
      /\ UNCHANGED <<running_reqs, req, new_finished_reqs, table_free>>
      /\ reply' \in Seq(Replies)
  BY DEF DrainStale, SeenFinished, ControlInv, ControlTypes
<1>2. PICK u \in Uids : u = entry.uid
  BY <1>1, VisitFacts
<1>3. /\ ControlTypes /\ req \in [Uids -> Reqs] /\ TablesOK /\ table_free \in Seq(Tables)
      /\ ~Held(u) /\ u \notin running_reqs
  BY <1>1, <1>2 DEF ControlInv, ControlTypes, UnbornOK, RunningOK
<1>4. ~Held(u)' /\ Known(u)' /\ TablesOK'
  BY <1>1, <1>3 DEF Held, Known, TablesOK, Holders
<1>5. In(u, New) => u \in new_finished_reqs
  BY <1>1, <1>2, <1>3, InOld
<1> QED BY <1>1, <1>2, <1>3, <1>4, <1>5, DrainInv

\* A token taken into account: the request was alive, and the host catches up.
LEMMA SampledFacts ==
  ASSUME NEW u \in Uids, u = entry.uid, ControlInv, Sampled
  PROVE  /\ Visit /\ Held(u) /\ ~Queued(u) /\ ~req[u].chunked /\ ~req[u].aborted
         /\ appended \in Reqs
         /\ appended.n = req[u].n /\ appended.table_idx = req[u].table_idx
         /\ appended.chunked = req[u].chunked /\ appended.aborted = req[u].aborted
         /\ appended.device_len = req[u].device_len /\ appended.output_len = req[u].output_len
         /\ Len(appended.input_ids) = Len(req[u].input_ids) + 1
         /\ Len(req[u].input_ids) \in Nat /\ req[u].device_len \in Nat
         /\ req[u].device_len = Len(appended.input_ids) + (IF In(u, New) THEN 1 ELSE 0)
         /\ u \in running_reqs \/ req[u].device_len >= max_device_len(u)
         /\ reply' \in Seq(Replies)
<1>1. Visit /\ ~entry.chunked /\ ~EntryAborted /\ u \notin finished_reqs
  BY DEF Sampled, SeenFinished
<1>2. Held(u) /\ entry \in Entries /\ ~Processed(u)
  BY <1>1, VisitFacts
<1>3. entry.n = req[u].n /\ In(u, Old) /\ ~req[u].chunked /\ ~req[u].aborted /\ ~Queued(u) /\ Known(u)
  BY <1>1, InOld
<1>4. req[u] \in Reqs /\ entry.token \in Vocab
  BY <1>2 DEF ControlInv, ControlTypes, Entries
<1>5. appended = [req[u] EXCEPT !.input_ids = Append(req[u].input_ids, entry.token)]
  BY DEF appended, object
<1>6. req[u].input_ids \in Seq(Vocab) /\ req[u].device_len \in Nat
  BY <1>4 DEF Reqs
<1>7. /\ Append(req[u].input_ids, entry.token) \in Seq(Vocab)
      /\ Len(Append(req[u].input_ids, entry.token)) = Len(req[u].input_ids) + 1
      /\ Len(req[u].input_ids) \in Nat
  BY <1>4, <1>6, AppendProperties, LenProperties
<1>8. /\ appended \in Reqs
      /\ appended.n = req[u].n /\ appended.table_idx = req[u].table_idx
      /\ appended.chunked = req[u].chunked /\ appended.aborted = req[u].aborted
      /\ appended.device_len = req[u].device_len /\ appended.output_len = req[u].output_len
      /\ appended.input_ids = Append(req[u].input_ids, entry.token)
  BY ONLY <1>4, <1>5, <1>7 DEF Reqs
<1>9. /\ req[u].device_len = Len(req[u].input_ids) + Lag(u)
      /\ u \in running_reqs \/ req[u].device_len >= max_device_len(u)
  BY <1>2, <1>3 DEF Known
<1>10. Lag(u) = 1 + (IF In(u, New) THEN 1 ELSE 0)
  BY <1>3 DEF Lag
<1>11. /\ Len(appended.input_ids) = Len(req[u].input_ids) + 1
       /\ req[u].device_len = Len(appended.input_ids) + (IF In(u, New) THEN 1 ELSE 0)
  <2>1. PICK k \in Nat : k = Len(req[u].input_ids)
    BY <1>7
  <2>2. PICK d \in Nat : d = req[u].device_len
    BY <1>6
  <2>3. PICK ids : ids = appended.input_ids /\ Len(ids) = k + 1
    BY <1>7, <1>8, <2>1
  <2>4. CASE In(u, New)
    <3>1. Lag(u) = 2
      BY <1>10, <2>4
    <3>2. d = k + 2
      BY ONLY <1>9, <2>1, <2>2, <3>1
    <3>3. d = Len(ids) + 1
      BY ONLY <2>1, <2>2, <2>3, <3>2
    <3> QED BY <2>1, <2>2, <2>3, <2>4, <3>3
  <2>5. CASE ~In(u, New)
    <3>1. Lag(u) = 1
      BY <1>10, <2>5
    <3>2. d = k + 1
      BY ONLY <1>9, <2>1, <2>2, <3>1
    <3>3. d = Len(ids) + 0
      BY ONLY <2>1, <2>2, <2>3, <3>2
    <3> QED BY <2>1, <2>2, <2>3, <2>5, <3>3
  <2> QED BY <2>4, <2>5
<1>12. reply' \in Seq(Replies)
  <2>1. reply \in Seq(Replies)
    BY DEF ControlInv, ControlTypes
  <2>2. ends \in BOOLEAN
    BY DEF ends
  <2>3. PICK b \in BOOLEAN : b = ends
    BY <2>2
  <2>4. reply' = Append(reply, [uid |-> u, token |-> entry.token, finished |-> b])
    BY <2>3 DEF Sampled
  <2>5. [uid |-> u, token |-> entry.token, finished |-> b] \in Replies
    BY <1>4 DEF Replies
  <2> QED BY <2>1, <2>4, <2>5, AppendProperties
<1> QED BY <1>1, <1>2, <1>3, <1>6, <1>7, <1>8, <1>9, <1>11, <1>12

\* A request is seen to end; its extra step, if launched, will find it finished.
LEMMA DrainFinishedInv ==
  ASSUME ControlInv, DrainFinished
  PROVE  ControlInv'
<1>1. /\ Sampled
      /\ running_reqs' = running_reqs \ {entry.uid}
      /\ new_finished_reqs' = new_finished_reqs \cup {entry.uid}
      /\ FreeLazily(entry.uid, appended)
  BY DEF DrainFinished
<1>2. PICK u \in Uids : u = entry.uid
  BY <1>1, VisitFacts DEF Sampled
<1>3. /\ Visit /\ ~Queued(u) /\ appended \in Reqs /\ reply' \in Seq(Replies)
      /\ appended.n = req[u].n /\ appended.table_idx = req[u].table_idx
      /\ appended.chunked = req[u].chunked /\ appended.aborted = req[u].aborted
      /\ appended.device_len = req[u].device_len /\ appended.output_len = req[u].output_len
  BY <1>1, <1>2, SampledFacts
<1>4. PICK r \in Reqs : r = appended
  BY <1>3
<1>5. /\ req' \in [Uids -> Reqs] /\ \A v \in Uids \ {u} : req'[v] = req[v]
      /\ req'[u].n = r.n /\ req'[u].chunked = r.chunked
      /\ req'[u].aborted = r.aborted
      /\ req'[u].device_len = r.device_len /\ req'[u].output_len = r.output_len
      /\ ~Held(u)' /\ Known(u)'
      /\ table_free' \in Seq(Tables) /\ TablesOK'
  BY <1>1, <1>2, <1>3, <1>4, FreeLazilyFacts, Zenon
<1>6. /\ req'[u].n = req[u].n /\ req'[u].chunked = req[u].chunked
      /\ req'[u].aborted = req[u].aborted
      /\ req'[u].device_len = req[u].device_len /\ req'[u].output_len = req[u].output_len
  BY ONLY <1>3, <1>4, <1>5
<1> QED BY <1>1, <1>2, <1>3, <1>5, <1>6, DrainInv

\* The request goes on: the object keeps its row.
LEMMA DrainGoesOnInv ==
  ASSUME ControlInv, DrainPrefilled \/ DrainDecoded
  PROVE  ControlInv'
<1>1. Sampled /\ ~ends /\ UNCHANGED <<running_reqs, new_finished_reqs, table_free>>
  BY DEF DrainPrefilled, DrainDecoded
<1>2. PICK u \in Uids : u = entry.uid
  BY <1>1, VisitFacts DEF Sampled
<1>3. /\ Visit /\ Held(u) /\ ~Queued(u) /\ ~req[u].chunked /\ ~req[u].aborted
      /\ appended \in Reqs /\ reply' \in Seq(Replies)
      /\ appended.n = req[u].n /\ appended.table_idx = req[u].table_idx
      /\ appended.chunked = req[u].chunked /\ appended.aborted = req[u].aborted
      /\ appended.device_len = req[u].device_len /\ appended.output_len = req[u].output_len
      /\ Len(appended.input_ids) = Len(req[u].input_ids) + 1
      /\ Len(req[u].input_ids) \in Nat /\ req[u].device_len \in Nat
      /\ req[u].device_len = Len(appended.input_ids) + (IF In(u, New) THEN 1 ELSE 0)
      /\ u \in running_reqs \/ req[u].device_len >= max_device_len(u)
  BY <1>1, <1>2, SampledFacts
<1>4. /\ ControlTypes /\ req \in [Uids -> Reqs] /\ TablesOK /\ table_free \in Seq(Tables)
      /\ u \in new_finished_reqs => ~Held(u)
      /\ u \in out.acked \cup pending_abort_acks =>
            u \notin running_reqs /\ (Held(u) => ~In(u, New))
  BY DEF ControlInv, ControlTypes, UnbornOK, AbortedOK
<1>5. PICK r \in Reqs : /\ req' = [req EXCEPT ![u] = r]
                        /\ r.n = req[u].n /\ r.table_idx = req[u].table_idx
                        /\ r.chunked = req[u].chunked /\ r.aborted = req[u].aborted
                        /\ r.device_len = req[u].device_len /\ r.output_len = req[u].output_len
                        /\ r.input_ids = appended.input_ids
  <2>1. CASE DrainPrefilled
    <3> DEFINE h == cache_req(entry.uid, appended, FALSE).handle
    <3>1. h \in Seq(Vocab)
      BY <1>3, CommitHandle
    <3>2. req' = [req EXCEPT ![u] = [appended EXCEPT !.handle = h]]
      BY <1>2, <2>1 DEF DrainPrefilled
    <3> HIDE DEF h
    <3>3. PICK a \in Reqs : a = appended
      BY <1>3
    <3>4. /\ [a EXCEPT !.handle = h] \in Reqs
          /\ [a EXCEPT !.handle = h].n = a.n /\ [a EXCEPT !.handle = h].table_idx = a.table_idx
          /\ [a EXCEPT !.handle = h].chunked = a.chunked /\ [a EXCEPT !.handle = h].aborted = a.aborted
          /\ [a EXCEPT !.handle = h].device_len = a.device_len
          /\ [a EXCEPT !.handle = h].output_len = a.output_len
          /\ [a EXCEPT !.handle = h].input_ids = a.input_ids
      BY ONLY <3>1, a \in Reqs DEF Reqs
    <3> QED BY <1>3, <3>2, <3>3, <3>4
  <2>2. CASE DrainDecoded
    BY <1>2, <1>3, <2>2 DEF DrainDecoded
  <2> QED BY <2>1, <2>2
<1>6. req' \in [Uids -> Reqs] /\ req'[u] = r /\ \A v \in Uids \ {u} : req'[v] = req[v]
  BY <1>4, <1>5, UpdateReq
<1>7. Held(u)' /\ max_device_len(u)' = max_device_len(u)
  BY <1>3, <1>5, <1>6 DEF Held, max_device_len
<1>8. TablesOK'
  <2>1. \A v \in Uids : req'[v].table_idx = req[v].table_idx
    BY <1>5, <1>6
  <2>2. Holders' = Holders
    BY <2>1 DEF Holders, Held
  <2> QED BY <1>1, <1>4, <2>1, <2>2 DEF TablesOK, Holders
\* A request that does not end here and is not in the decode set is in the
\* batch launched after this one.
<1>9. u \in running_reqs \/ In(u, New)
  <2>1. Len(appended.input_ids) < max_device_len(u)
    <3>1. max_device_len(u) \in Nat
      <4>1. Len(Prompt[u]) \in Nat
        BY SchedulerAssumption
      <4>2. req[u].output_len \in Nat
        <5>1. req[u].output_len \in 0 .. ConfigMaxSeqLen
          BY <1>4 DEF Reqs
        <5> QED BY <5>1, SchedulerAssumption
      <4> QED BY <4>1, <4>2 DEF max_device_len
    <3>2. Len(appended.input_ids) \in Nat
      BY <1>3
    <3>3. ~(Len(appended.input_ids) >= max_device_len(u))
      BY <1>1, <1>2 DEF ends
    <3> QED BY ONLY <3>1, <3>2, <3>3
  <2>2. Len(appended.input_ids) \in Nat /\ max_device_len(u) \in Nat
    <3>1. PICK k \in Nat : k = Len(req[u].input_ids)
      BY <1>3
    <3>2. Len(appended.input_ids) = k + 1
      BY <1>3, <3>1
    <3>3. req[u].output_len \in 0 .. ConfigMaxSeqLen
      BY <1>4 DEF Reqs
    <3>4. Len(Prompt[u]) \in Nat /\ req[u].output_len \in Nat
      BY <3>3, SchedulerAssumption
    <3> QED BY <3>2, <3>4 DEF max_device_len
  <2>3. ASSUME ~In(u, New), u \notin running_reqs
        PROVE  FALSE
    <3>1. PICK m \in Nat, k \in Nat :
             /\ m = max_device_len(u) /\ k = Len(appended.input_ids)
             /\ k < m
      BY <2>1, <2>2
    <3>2. req[u].device_len = k
      BY <1>3, <2>3, <3>1
    <3>3. req[u].device_len >= m
      BY <1>3, <2>3, <3>1
    <3> QED BY ONLY <3>1, <3>2, <3>3
  <2> QED BY <2>3
<1>10. Known(u)'
  <2>1. ~In(u, Old)' /\ In(u, New)' = In(u, New)
    <3>1. New' = New /\ \A i \in 1 .. Len(Old') : Old'[i].uid # u
      BY <1>2, <1>3, VisitFacts
    <3> QED BY <1>5, <1>6, <3>1 DEF In
  <2>2. Lag(u)' = IF In(u, New) THEN 1 ELSE 0
    BY <2>1 DEF Lag
  <2> QED BY <1>1, <1>3, <1>5, <1>6, <1>7, <1>9, <2>1, <2>2 DEF Known
<1>11. u \in out.acked \cup pending_abort_acks => FALSE
  BY <1>3, <1>4, <1>9
<1>12. /\ req'[u].n = req[u].n /\ req'[u].chunked = req[u].chunked
       /\ req'[u].aborted = req[u].aborted
       /\ req'[u].device_len = req[u].device_len /\ req'[u].output_len = req[u].output_len
  BY <1>5, <1>6
<1> QED BY <1>1, <1>2, <1>3, <1>4, <1>6, <1>7, <1>8, <1>10, <1>11, <1>12, DrainInv

\* The iteration ends: the launched batch becomes the one to be drained next,
\* the ends seen by this drain are what the next one consults, and every
\* pending acknowledgement goes out for a request that holds nothing.
LEMMA EndIterationInv ==
  ASSUME ControlInv, EndIteration
  PROVE  ControlInv'
<1>1. /\ pc = "drain" /\ drain = <<>> /\ pc' \in {"recv", "idle"}
      /\ reply' = <<>> /\ new_finished_reqs' = {} /\ pending_abort_acks' = {}
      /\ last_data' = IF Overlap THEN ongoing ELSE NoBatch
      /\ ongoing' = NoBatch
      /\ finished_reqs' = IF drained_batch = NoBatch THEN finished_reqs ELSE new_finished_reqs
      /\ UNCHANGED <<pending_list, running_reqs, req, drain, tombstones, pending_rebuild,
                     num_pages, table_free, inbox>>
  BY Zenon DEF EndIteration
<1>2. /\ ControlTypes /\ BatchesOK /\ QueueOK /\ RunningOK /\ UnbornOK /\ HeldOK /\ LaunchedOK
      /\ AbortedOK /\ TablesOK /\ Overlap \in BOOLEAN
  BY SchedulerAssumption DEF ControlInv
<1>3. Old = <<>> /\ Old' = New /\ New' = <<>>
  <2>1. NoBatch.reqs = <<>>
    BY DEF NoBatch
  <2> QED BY ONLY <1>1, <1>2, <2>1 DEF Old, New
<1>4. \A v : /\ ~Processed(v) /\ ~Processed(v)' /\ Queued(v)' = Queued(v) /\ Held(v)' = Held(v)
             /\ ~In(v, Old) /\ ~In(v, New)' /\ (In(v, Old)' <=> In(v, New))
  <2>1. \A v : ~Processed(v) /\ ~Processed(v)'
    BY <1>1 DEF Processed, Planning
  <2>2. \A v : ~In(v, Old) /\ ~In(v, New)'
    BY <1>3 DEF In
  <2> QED BY <1>1, <1>3, <2>1, <2>2 DEF Queued, Held, In
<1>5. /\ \A v \in Uids : Held(v) => ~req[v].aborted /\ v \notin pending_abort_acks
      /\ finished_reqs' \subseteq finished_reqs \cup new_finished_reqs
  <2>1. ASSUME NEW v \in Uids, Held(v)
        PROVE  ~req[v].aborted /\ v \notin pending_abort_acks
    BY <1>2, <1>4, <2>1 DEF HeldOK, Known, AbortedOK
  <2> QED BY <1>1, <2>1
<1>6. /\ DOMAIN out' = DOMAIN out /\ out'.error = out.error /\ out'.rebuilds = out.rebuilds
      /\ out'.acked = out.acked \cup pending_abort_acks /\ out'.finished \subseteq Uids
  <2>1. DOMAIN out = {"tokens", "admitted", "finished", "error", "acked", "rebuilds"}
    BY <1>2 DEF ControlTypes
  <2> DEFINE F == {reply[i].uid : i \in {j \in DOMAIN reply : reply[j].finished}}
  <2>2. PICK x : out' = [out EXCEPT !.tokens = x, !.finished = @ \cup F,
                                    !.acked = @ \cup pending_abort_acks]
    BY DEF EndIteration
  <2>3. F \subseteq Uids
    <3>1. reply \in Seq(Replies)
      BY <1>2 DEF ControlTypes
    <3>2. ASSUME NEW i \in DOMAIN reply
          PROVE  reply[i].uid \in Uids
      <4>1. reply[i] \in Replies
        BY <3>1, LenProperties, ElementOfSeq
      <4> QED BY <4>1 DEF Replies
    <3> QED BY <3>2
  <2> HIDE DEF F
  <2>4. out.finished \subseteq Uids
    BY <1>2 DEF ControlTypes
  <2> QED BY ONLY <2>1, <2>2, <2>3, <2>4
<1>7. ControlTypes'
  <2>1. NoBatch \in Batches /\ <<>> \in Seq(Replies)
    BY DEF NoBatch, Batches
  <2>2. finished_reqs' \subseteq Uids
    BY <1>2, <1>5 DEF ControlTypes
  <2>3. pc' \in Phases
    BY <1>1 DEF Phases
  <2>4. last_data' \in Batches /\ ongoing' \in Batches
    BY <1>1, <1>2, <2>1 DEF ControlTypes
  <2>5. out'.acked \subseteq Uids /\ out'.error \subseteq Uids /\ out'.rebuilds \in Nat
    BY <1>2, <1>6 DEF ControlTypes
  <2> QED BY <1>1, <1>2, <1>6, <2>1, <2>2, <2>3, <2>4, <2>5 DEF ControlTypes
<1>8. BatchesOK'
  <2>1. Distinct(Old)' /\ Distinct(New)'
    BY <1>2, <1>3 DEF BatchesOK, Distinct
  <2>2. ASSUME NEW i \in 1 .. Len(Old')
        PROVE  EntryOK(Old[i])' /\ Old'[i].n = req'[Old'[i].uid].n
    <3>1. PICK e : e = New[i]
      OBVIOUS
    <3>2. EntryOK(e) /\ e.n = req[e.uid].n
      BY <1>2, <1>3, <3>1 DEF BatchesOK
    <3>3. EntryOK(e)' /\ Old'[i] = e
      BY <1>1, <1>3, <3>1, <3>2 DEF EntryOK
    <3> QED BY <1>1, <3>2, <3>3 DEF EntryOK
  <2>3. New' = <<>> /\ pc' \in {"recv", "idle"} /\ new_finished_reqs' = {}
    BY <1>1, <1>3
  <2>4. ~Overlap => last_data' = NoBatch
    BY <1>1
  <2> QED BY ONLY <2>1, <2>2, <2>3, <2>4 DEF BatchesOK, Planning
<1>9. QueueOK' /\ PlanOK'
  <2>1. QueueOK'
    BY <1>1, <1>2, <1>4 DEF QueueOK, WaitingOK, Distinct, Held
  <2> QED BY <1>1, <2>1 DEF PlanOK, Planning
<1>10. RunningOK' /\ UnbornOK'
  BY <1>1, <1>2, <1>4, <1>5 DEF RunningOK, UnbornOK, max_device_len
<1>11. HeldOK'
  <2>1. ASSUME NEW v \in Uids, Held(v)
        PROVE  Known(v)'
    <3>1. Lag(v)' = Lag(v)
      BY <1>4 DEF Lag
    <3>2. Known(v) /\ ~req[v].aborted
      BY <1>2, <1>5, <2>1 DEF HeldOK
    <3> QED BY <1>1, <1>4, <2>1, <3>1, <3>2 DEF Known, max_device_len
  <2>2. ASSUME NEW v \in Uids, ~Held(v)
        PROVE  Known(v)'
    BY <1>4, <2>2 DEF Known
  <2> QED BY <2>1, <2>2 DEF HeldOK
<1>12. LaunchedOK'
  <2>1. ASSUME NEW i \in 1 .. Len(New)
        PROVE  Held(New[i].uid) \/ New[i].uid \in finished_reqs'
    <3>1. Held(New[i].uid) \/ New[i].uid \in new_finished_reqs
      BY <1>2 DEF LaunchedOK
    <3>2. Overlap
      BY <1>1 DEF New
    <3>3. new_finished_reqs \subseteq finished_reqs'
      BY <1>1, <1>2, <3>2 DEF BatchesOK, drained_batch
    <3> QED BY <3>1, <3>3
  <2> QED BY <1>1, <1>3, <1>4, <2>1 DEF LaunchedOK, Held
<1>13. AbortedOK'
  <2>1. out'.acked \cup pending_abort_acks' = out.acked \cup pending_abort_acks
    BY <1>1, <1>6
  <2>2. ASSUME NEW v \in out.acked \cup pending_abort_acks
        PROVE  ~Held(v)
    BY <1>2, <1>4 DEF AbortedOK
  <2> QED BY <1>1, <1>2, <1>4, <2>1, <2>2 DEF AbortedOK
<1>14. TablesOK'
  BY <1>1, <1>2, <1>4 DEF TablesOK, Holders, Held
<1> QED
  BY <1>7, <1>8, <1>9, <1>10, <1>11, <1>12, <1>13, <1>14 DEF ControlInv

\* A scheduler that has just started: every row of the page table is free and
\* nobody has been heard of.
LEMMA InitInv ==
  ASSUME Init
  PROVE  ControlInv
<1>1. /\ pc = "idle" /\ pending_list = <<>> /\ running_reqs = {}
      /\ req = [u \in Uids |-> NoReq]
      /\ last_data = NoBatch /\ ongoing = NoBatch /\ drain = <<>> /\ reply = <<>>
      /\ finished_reqs = {} /\ new_finished_reqs = {} /\ tombstones = {}
      /\ pending_abort_acks = {} /\ pending_rebuild = NoRebuild /\ num_pages = NumPages
      /\ table_free = AllPages(MaxRunningReqs)
      /\ inbox = [user |-> Uids, abort |-> Uids, rebuilds |-> 0]
  BY DEF Init
<1>2. /\ DOMAIN out = {"tokens", "admitted", "finished", "error", "acked", "rebuilds"}
      /\ out.finished = {} /\ out.error = {} /\ out.acked = {} /\ out.rebuilds = 0
  BY DEF Init
<1>3. NoReq \in Reqs /\ NoReq.n = 0 /\ NoReq.table_idx = NoTable
  <2>1. 0 \in 0 .. ConfigMaxSeqLen
    BY SchedulerAssumption
  <2> QED BY <2>1 DEF NoReq, Reqs
<1>4. \A u \in Uids : req[u].n = 0 /\ ~Held(u) /\ req[u] \in Reqs
  BY <1>1, <1>3 DEF Held
<1>5. NoBatch \in Batches /\ NoBatch.reqs = <<>>
  BY DEF NoBatch, Batches
<1>6. Old = <<>> /\ New = <<>>
  BY <1>1, <1>5 DEF Old, New
<1>7. MaxRunningReqs \in Nat
  BY SchedulerAssumption
<1>8. /\ table_free = [i \in 1 .. MaxRunningReqs |-> i - 1]
      /\ table_free \in Seq(Tables) /\ Len(table_free) = MaxRunningReqs
  <2>1. table_free = [i \in 1 .. MaxRunningReqs |-> i - 1]
    BY <1>1 DEF AllPages
  <2>2. \A i \in 1 .. MaxRunningReqs : i - 1 \in Tables
    BY <1>7 DEF Tables
  <2>3. table_free \in Seq(Tables)
    BY <1>7, <2>1, <2>2, IsASeq
  <2> QED BY <1>7, <2>1, <2>3
<1>9. ControlTypes
  <2>1. req \in [Uids -> Reqs]
    BY <1>1, <1>3
  <2>2. inbox \in [user : SUBSET Uids, abort : SUBSET Uids, rebuilds : Nat]
    BY <1>1
  <2> QED BY <1>1, <1>2, <1>5, <1>8, <2>1, <2>2 DEF ControlTypes, Phases
<1>10. BatchesOK /\ QueueOK /\ PlanOK
  BY <1>1, <1>6 DEF BatchesOK, QueueOK, PlanOK, Planning, Distinct
<1>11. RunningOK /\ UnbornOK /\ HeldOK /\ LaunchedOK /\ AbortedOK
  BY <1>1, <1>2, <1>4, <1>6 DEF RunningOK, UnbornOK, HeldOK, Known, LaunchedOK, AbortedOK, Queued
<1>12. TablesOK
  <2>1. Holders = {}
    BY <1>4 DEF Holders
  <2>2. \A t \in Tables : t + 1 \in 1 .. MaxRunningReqs /\ table_free[t + 1] = t
    BY <1>7, <1>8 DEF Tables
  <2> QED BY <1>7, <1>8, <2>1, <2>2 DEF TablesOK
<1> QED BY <1>9, <1>10, <1>11, <1>12 DEF ControlInv

\* A step that changes nothing, or a scheduler blocked for good.
LEMMA StutterInv ==
  ASSUME ControlInv, UNCHANGED vars
  PROVE  ControlInv'
<1> USE DEF vars, batches, device
<1>1. Old' = Old /\ New' = New
  BY DEF Old, New
<1>2. \A u : /\ Held(u)' = Held(u) /\ Queued(u)' = Queued(u) /\ Processed(u)' = Processed(u)
             /\ (In(u, Old)' <=> In(u, Old)) /\ (In(u, New)' <=> In(u, New))
  BY <1>1 DEF Held, Queued, Processed, Planning, In
<1>3. ControlTypes' /\ RunningOK' /\ UnbornOK' /\ AbortedOK' /\ TablesOK'
  BY <1>2 DEF ControlInv, ControlTypes, RunningOK, UnbornOK, AbortedOK, TablesOK, Holders,
              Held, max_device_len
<1>4. BatchesOK' /\ LaunchedOK'
  BY <1>1, <1>2 DEF ControlInv, BatchesOK, LaunchedOK, Distinct, EntryOK, Planning, Held
<1>5. QueueOK'
  BY <1>2 DEF ControlInv, QueueOK, WaitingOK, Distinct, Held
<1>6. PlanOK'
  <2>1. CASE Planning
    BY ONLY <2>1, PlanUnchanged, ControlInv, UNCHANGED vars DEF ControlInv, vars
  <2>2. CASE ~Planning
    BY <2>2 DEF PlanOK, Planning
  <2> QED BY ONLY <2>1, <2>2
<1>7. HeldOK'
  BY <1>2 DEF ControlInv, HeldOK, Known, Lag, max_device_len
<1> QED BY <1>3, <1>4, <1>5, <1>6, <1>7 DEF ControlInv

\* Every action keeps the invariant.
LEMMA NextInv ==
  ASSUME ControlInv, [Next]_vars
  PROVE  ControlInv'
<1>1. CASE Receive
  <2>1. ASSUME NEW u \in Uids, UserAborted(u) PROVE ControlInv'
    BY <2>1, UserAbortedInv
  <2>2. ASSUME NEW u \in Uids, UserTooLong(u) PROVE ControlInv'
    BY <2>2, UserTooLongInv
  <2>3. ASSUME NEW u \in Uids, UserQueued(u) PROVE ControlInv'
    BY <2>3, UserQueuedInv
  <2>4. ASSUME NEW u \in Uids, AbortUnheld(u) PROVE ControlInv'
    BY <2>4, AbortUnheldInv
  <2>5. ASSUME NEW u \in Uids, AbortInFlight(u) PROVE ControlInv'
    BY <2>5, AbortInFlightInv
  <2>6. ASSUME NEW u \in Uids, AbortHeld(u) PROVE ControlInv'
    BY <2>6, AbortHeldInv
  <2>7. ASSUME NEW n \in RebuildSizes, RebuildReceived(n) PROVE ControlInv'
    BY <2>7, RebuildReceivedInv
  <2> QED BY <1>1, <2>1, <2>2, <2>3, <2>4, <2>5, <2>6, <2>7 DEF Receive
<1>2. CASE Loop
  <2>1. CASE EndReceive \/ RebuildRejected
    BY <2>1, EndReceiveInv
  <2>2. CASE RebuildDone
    BY <2>2, RebuildDoneInv
  <2>3. CASE AdmitContinuation
    BY <2>3, AdmitContinuationInv
  <2>4. CASE AdmitFresh
    BY <2>4, AdmitFreshInv
  <2>5. CASE ChunkMultimodal
    BY <2>5, ChunkMultimodalInv
  <2>6. CASE Launch
    BY <2>6, LaunchInv
  <2>7. CASE NoLaunch
    BY <2>7, NoLaunchInv
  <2>8. CASE DrainChunk
    BY <2>8, DrainChunkInv
  <2>9. CASE DrainAborted
    BY <2>9, DrainAbortedInv
  <2>10. CASE DrainStale
    BY <2>10, DrainStaleInv
  <2>11. CASE DrainFinished
    BY <2>11, DrainFinishedInv
  <2>12. CASE DrainPrefilled \/ DrainDecoded
    BY <2>12, DrainGoesOnInv
  <2>13. CASE EndIteration
    BY <2>13, EndIterationInv
  <2> QED BY <1>2, <2>1, <2>2, <2>3, <2>4, <2>5, <2>6, <2>7, <2>8, <2>9, <2>10, <2>11, <2>12,
             <2>13 DEF Loop
<1>3. CASE Quiescent \/ UNCHANGED vars
  BY <1>3, StutterInv DEF Quiescent
<1> QED BY <1>1, <1>2, <1>3 DEF Next

\* The control invariant holds in every reachable state: scheduler.py's loops
\* never lose track of a request that holds a row of the page table.
THEOREM ControlInvariant == Spec => []ControlInv
<1>1. Init => ControlInv
  BY InitInv
<1>2. ControlInv /\ [Next]_vars => ControlInv'
  BY NextInv
<1> QED BY <1>1, <1>2, PTL DEF Spec

\* What scheduler.py, prefill.py, decode.py and table.py decide with keeps its
\* type: the request's fields, the queues, the batches and the free rows.
THEOREM ControlTypesHold == Spec => []ControlTypes
<1>1. ControlInv => ControlTypes
  BY DEF ControlInv
<1> QED BY <1>1, ControlInvariant, PTL

\* TableManager's rows: no row is given out twice, returned twice or lost, by
\* whichever of the finish, abort and rebuild paths frees it.
THEOREM TablesNeverShared == Spec => []TablesOwnedOnce
<1>1. ControlInv => TablesOwnedOnce
  <2>1. SUFFICES ASSUME ControlInv
                 PROVE  TablesOwnedOnce
    OBVIOUS
  <2>2. TablesOK /\ DOMAIN table_free = 1 .. Len(table_free)
    <3>1. TablesOK /\ table_free \in Seq(Tables)
      BY <2>1 DEF ControlInv, ControlTypes
    <3> QED BY <3>1, LenProperties
  <2>3. \A t : t \in ToSet(table_free) <=> \E i \in 1 .. Len(table_free) : table_free[i] = t
    BY <2>2 DEF ToSet
  <2> QED BY <2>2, <2>3 DEF TablesOwnedOnce, TablesOK
<1> QED BY <1>1, ControlInvariant, PTL

\* The overlap loop never frees a request whose forward is still in flight,
\* whatever aborts and finishes arrive while it runs.
THEOREM InFlightKeepsItsRow == Spec => []InFlightHolds
<1>1. ControlInv => InFlightHolds
  BY DEF ControlInv, LaunchedOK, InFlightHolds, Old, New
<1> QED BY <1>1, ControlInvariant, PTL

\* _flush_abort_acks acknowledges an abort only when the request holds nothing
\* and is in no queue, and its late UserMsg is still to be dropped.
THEOREM AckedRequestsAreGone == Spec => []AckedIsGone
<1>1. ControlInv => AckedIsGone
  <2>1. SUFFICES ASSUME ControlInv, NEW u \in out.acked
                 PROVE  /\ ~Held(u) /\ u \notin running_reqs
                        /\ \A i \in 1 .. Len(pending_list) : pending_list[i].uid # u
                        /\ u \in inbox.user => u \in tombstones
    BY DEF AckedIsGone
  <2> QED BY <2>1 DEF ControlInv, AbortedOK, Queued
<1> QED BY <1>1, ControlInvariant, PTL

\* _execute_pending_rebuild tears the pools down only when no request holds a
\* row and no forward is in flight.
THEOREM RebuildsAreIdle == Spec => RebuildOnlyIdle
<1>1. ControlInv => ((RebuildDone \/ RebuildRejected) => Holders = {} /\ last_data = NoBatch)
  BY NobodyHolds DEF RebuildDone, RebuildRejected
<1> QED BY <1>1, ControlInvariant, PTL DEF RebuildOnlyIdle
================================================================================
