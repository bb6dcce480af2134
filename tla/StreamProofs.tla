---------------------------- MODULE StreamProofs -----------------------------
(***************************************************************************)
(* Proofs about what Scheduler shows the rest of the serve.  First, it     *)
(* implements Engine: for every number of requests, rows, pages and tokens,*)
(* what leaves scheduler.py is a behaviour of the contract.  ContractInv is*)
(* inductive together with ControlInv, and under both every step of the    *)
(* loop is a step of the contract or none of it.  Then the token streams:  *)
(* the host's copy of a request is a prefix of the device's row, the client*)
(* is sent exactly its tail, and a stream ends where its first EOS or its  *)
(* budget ends it.                                                         *)
(***************************************************************************)
EXTENDS SchedulerStreams, SchedulerContract, SchedulerProofs

(***************************************************************************)
(* The contract.                                                           *)
(***************************************************************************)

\* What every part of the proof needs of the types.
LEMMA ContractTypes ==
  ASSUME ControlInv, ContractInv
  PROVE  /\ inbox \in [user : SUBSET Uids, abort : SUBSET Uids, rebuilds : Nat]
         /\ DOMAIN out = {"tokens", "admitted", "finished", "error", "acked", "rebuilds"}
         /\ out.finished \cup out.error \cup out.acked \subseteq Uids /\ out.rebuilds \in Nat
         /\ out.tokens \in [Uids -> Seq(Vocab)] /\ out.admitted \in [Uids -> Nat]
         /\ req \in [Uids -> Reqs] /\ reply \in Seq(Replies)
         /\ pc # "drain" => reply = <<>>
         /\ NoRebuild \notin RebuildSizes
BY SchedulerAssumption DEF ControlInv, ControlTypes, ContractInv, OutTypes, RepliesOK, NoRebuild

\* A reply is to a request.
LEMMA ReplyUids ==
  ASSUME ControlInv, NEW i \in 1 .. Len(reply)
  PROVE  reply[i].uid \in Uids /\ reply[i].token \in Vocab /\ reply[i].finished \in BOOLEAN
<1>1. reply \in Seq(Replies)
  BY DEF ControlInv, ControlTypes
<1>2. reply[i] \in Replies
  BY <1>1, ElementOfSeq
<1> QED BY <1>2 DEF Replies

\* A request that has not arrived was given nothing and asked for nothing.
LEMMA UnbornFacts ==
  ASSUME ControlInv, ContractInv, NEW u \in inbox.user
  PROVE  /\ u \in Uids /\ req[u].n = 0 /\ ~Held(u) /\ ~Queued(u)
         /\ u \notin out.finished \cup out.error
         /\ out.admitted[u] = 0
         /\ u \in tombstones <=> u \notin inbox.abort
<1>1. u \in Uids
  BY DEF ControlInv, ControlTypes
<1>2. req[u].n = 0 /\ ~Held(u) /\ ~Queued(u)
  BY <1>1 DEF ControlInv, UnbornOK
<1>3. u \notin out.finished \cup out.error
  BY <1>2 DEF ContractInv, EndedOK
<1>4. out.admitted[u] = 0
  BY <1>1, <1>2 DEF ContractInv, AdmittedOK
<1>5. u \in tombstones <=> u \notin inbox.abort
  BY <1>1 DEF ControlInv, AbortedOK, ContractInv, AbortsOK
<1> QED BY <1>1, <1>2, <1>3, <1>4, <1>5

\* A step that leaves the objects, the replies and what was sent for them.
LEMMA RebuildStep ==
  ASSUME ControlInv, ContractInv, pc # "drain", pc' # "drain", ~Planning,
         \A v \in Uids : ~Fresh(v)',
         UNCHANGED <<pending_list, req, drain, reply, tombstones, pending_abort_acks>>,
         inbox' \in {inbox, [inbox EXCEPT !.rebuilds = @ + 1]},
         out' \in {out, [out EXCEPT !.rebuilds = @ + 1]},
         RebuildsOK'
  PROVE  ContractInv'
<1>1. /\ inbox'.user = inbox.user /\ inbox'.abort = inbox.abort
      /\ out'.tokens = out.tokens /\ out'.admitted = out.admitted
      /\ out'.finished = out.finished /\ out'.error = out.error /\ out'.acked = out.acked
  BY ContractTypes
<1>2. \A v : Held(v)' = Held(v) /\ Queued(v)' = Queued(v)
  BY DEF Held, Queued
<1>3. OutTypes'
  BY <1>1 DEF ContractInv, OutTypes
<1>4. RepliesOK'
  BY <1>1, <1>2, ContractTypes DEF RepliesOK, Distinct
<1>5. AdmittedOK'
  BY <1>1 DEF ContractInv, AdmittedOK, Fresh
<1>6. EndedOK'
  BY <1>1, <1>2 DEF ContractInv, EndedOK
<1>7. AbortsOK'
  BY <1>1 DEF ContractInv, AbortsOK
<1>8. ServedOK'
  BY <1>1, <1>2 DEF ContractInv, ServedOK
<1> QED BY <1>3, <1>4, <1>5, <1>6, <1>7, <1>8 DEF ContractInv

\* Dropping, refusing and queueing a UserMsg.
LEMMA UserContract ==
  ASSUME ControlInv, ContractInv, NEW u \in Uids,
         UserAborted(u) \/ UserTooLong(u) \/ UserQueued(u)
  PROVE  ContractInv'
<1>1. /\ pc # "drain" /\ pc' = "recv" /\ ~Planning /\ ~Planning' /\ u \in inbox.user
      /\ UNCHANGED <<req, drain, reply, pending_abort_acks, pending_rebuild>>
      /\ inbox' = [inbox EXCEPT !.user = @ \ {u}]
      /\ tombstones' \subseteq tombstones
  BY DEF UserAborted, UserTooLong, UserQueued, Receiving, batches, Planning
<1>2. /\ inbox'.user = inbox.user \ {u} /\ inbox'.abort = inbox.abort
      /\ inbox'.rebuilds = inbox.rebuilds
  BY <1>1, ContractTypes
<1>3. /\ out'.tokens = out.tokens /\ out'.admitted = out.admitted
      /\ out'.finished = out.finished /\ out'.acked = out.acked /\ out'.rebuilds = out.rebuilds
  BY ContractTypes DEF UserAborted, UserTooLong, UserQueued
<1>4. \A v : Held(v)' = Held(v)
  BY <1>1 DEF Held
<1>12. /\ \A v \in Uids \ {u} : Queued(v)' <=> Queued(v)
       /\ \/ u \notin inbox.abort /\ out'.error = out.error /\ ~Queued(u)'
          \/ out'.error = out.error \cup {u} /\ ~Queued(u)'
          \/ out'.error = out.error /\ Queued(u)'
  <2>1. CASE UserAborted(u)
    BY <1>1, <2>1, UnbornFacts DEF UserAborted, Queued
  <2>2. CASE UserTooLong(u)
    BY <1>1, <2>2, ContractTypes, UnbornFacts DEF UserTooLong, Queued
  <2>3. CASE UserQueued(u)
    <3> DEFINE l == Min({MaxTokens[u], max_seq_len - Len(Prompt[u])})
               p == [uid |-> u, chunked |-> FALSE, output_len |-> l]
    <3>1. pending_list' = Append(pending_list, p) /\ max_seq_len - Len(Prompt[u]) > 0
      BY <2>3 DEF UserQueued
    <3>2. p \in PendingReqs /\ p.uid = u /\ pending_list \in Seq(PendingReqs)
      BY <3>1, NewEntry DEF ControlInv, ControlTypes
    <3> HIDE DEF p
    <3>3. /\ Len(pending_list') = Len(pending_list) + 1 /\ Len(pending_list) \in Nat
          /\ \A i \in 1 .. Len(pending_list) : pending_list'[i] = pending_list[i]
          /\ pending_list'[Len(pending_list) + 1] = p
      BY <3>1, <3>2 DEF p
    <3>4. \A v \in Uids : Queued(v)' <=> Queued(v) \/ v = u
      BY <3>2, <3>3 DEF Queued
    <3> QED BY <2>3, <3>4 DEF UserQueued
  <2> QED BY <2>1, <2>2, <2>3
<1>5. OutTypes'
  BY <1>3 DEF ContractInv, OutTypes
<1>6. RepliesOK'
  BY <1>1, ContractTypes DEF RepliesOK, Distinct
<1>7. AdmittedOK'
  BY <1>1, <1>3 DEF ContractInv, AdmittedOK, Fresh
<1>8. EndedOK'
  <2>1. req[u].n = 0 /\ ~Queued(u) /\ u \notin out.finished \cup out.error
    BY <1>1, UnbornFacts
  <2>2. out.error \subseteq Uids
    BY ContractTypes
  <2> QED BY <1>1, <1>2, <1>3, <1>4, <1>12, <2>1, <2>2 DEF ContractInv, EndedOK
<1>9. AbortsOK'
  BY <1>1, <1>2, <1>3 DEF ContractInv, AbortsOK
<1>10. ServedOK'
  BY <1>1, <1>2, <1>3, <1>4, <1>12, ContractTypes DEF ContractInv, ServedOK
<1>11. RebuildsOK'
  BY <1>1, <1>2, <1>3 DEF ContractInv, RebuildsOK
<1> QED BY <1>5, <1>6, <1>7, <1>8, <1>9, <1>10, <1>11 DEF ContractInv

\* An abort, whatever it finds of the request.
LEMMA AbortContract ==
  ASSUME ControlInv, ContractInv, NEW u \in Uids,
         AbortUnheld(u) \/ AbortInFlight(u) \/ AbortHeld(u)
  PROVE  ContractInv'
<1>1. AbortReceived(u)
  BY DEF AbortUnheld, AbortInFlight, AbortHeld
<1>2. /\ pc # "drain" /\ pc' = "recv" /\ ~Planning /\ ~Planning'
      /\ ~Queued(u)' /\ \A v \in Uids \ {u} : Queued(v)' <=> Queued(v)
      /\ pending_abort_acks' = pending_abort_acks \cup {u} /\ tombstones' = tombstones \cup {u}
      /\ UNCHANGED <<out, drain, reply, pending_rebuild>>
  BY <1>1, AbortReceivedFacts DEF Planning
<1>3. /\ inbox'.user = inbox.user /\ inbox'.abort = inbox.abort \ {u}
      /\ inbox'.rebuilds = inbox.rebuilds /\ u \in inbox.abort
  BY <1>1, ContractTypes DEF AbortReceived
<1>4. /\ \A v \in Uids \ {u} : req'[v] = req[v]
      /\ req'[u].n = req[u].n
      /\ Held(u)' => Held(u)
  <2>1. CASE AbortUnheld(u)
    BY <2>1 DEF AbortUnheld, Held
  <2>2. CASE AbortInFlight(u)
    BY <2>2, ContractTypes DEF AbortInFlight, Held, Reqs
  <2>3. CASE AbortHeld(u) /\ req' = req
    BY <2>3 DEF Held
  <2>4. CASE AbortHeld(u) /\ req' # req
    <3>1. Held(u) /\ FreeRow(u, req[u], cache_req(u, req[u], TRUE))
      BY <2>4 DEF AbortHeld, Held
    <3>2. PICK r \in Reqs : r = req[u]
      BY ContractTypes
    <3>3. [r EXCEPT !.table_idx = NoTable] \in Reqs /\ [r EXCEPT !.table_idx = NoTable].n = r.n
      BY DEF Reqs
    <3>4. req' = [req EXCEPT ![u] = [r EXCEPT !.table_idx = NoTable]]
      BY <3>1, <3>2 DEF FreeRow
    <3> QED BY <3>1, <3>2, <3>3, <3>4, ContractTypes
  <2> QED BY <2>1, <2>2, <2>3, <2>4
<1>5. \A v \in Uids \ {u} : Held(v)' = Held(v)
  BY <1>4 DEF Held
<1>6. OutTypes'
  BY <1>2 DEF ContractInv, OutTypes
<1>7. RepliesOK'
  BY <1>2, ContractTypes DEF RepliesOK, Distinct
<1>8. AdmittedOK'
  BY <1>2, <1>4 DEF ContractInv, AdmittedOK, Fresh
<1>9. EndedOK'
  BY <1>2, <1>3, <1>4, <1>5, ContractTypes DEF ContractInv, EndedOK
<1>10. AbortsOK'
  BY <1>2, <1>3, <1>4 DEF ContractInv, AbortsOK
<1>11. ServedOK'
  BY <1>2, <1>3, <1>5, ContractTypes DEF ContractInv, ServedOK
<1>12. RebuildsOK'
  BY <1>2, <1>3 DEF ContractInv, RebuildsOK
<1> QED BY <1>6, <1>7, <1>8, <1>9, <1>10, <1>11, <1>12 DEF ContractInv

\* A rebuild received, executed or rejected, and the start of a pass.
LEMMA RebuildContract ==
  ASSUME ControlInv, ContractInv,
         \/ \E n \in RebuildSizes : RebuildReceived(n)
         \/ EndReceive \/ RebuildDone \/ RebuildRejected
  PROVE  ContractInv'
<1>1. /\ pc # "drain" /\ pc' # "drain" /\ ~Planning /\ \A v \in Uids : ~Fresh(v)'
      /\ UNCHANGED <<pending_list, req, drain, reply, tombstones, pending_abort_acks>>
      /\ inbox' \in {inbox, [inbox EXCEPT !.rebuilds = @ + 1]}
      /\ out' \in {out, [out EXCEPT !.rebuilds = @ + 1]}
  <2>1. CASE \E n \in RebuildSizes : RebuildReceived(n)
    BY <2>1 DEF RebuildReceived, Receiving, batches, Planning, Fresh
  <2>2. CASE EndReceive \/ RebuildDone \/ RebuildRejected
    BY <2>2 DEF EndReceive, RebuildDone, RebuildRejected, StartPlan, batches, Planning, Fresh
  <2> QED BY <2>1, <2>2
<1>2. RebuildsOK'
  <2>1. CASE \E n \in RebuildSizes : RebuildReceived(n)
    BY <2>1, ContractTypes DEF RebuildReceived, ContractInv, RebuildsOK
  <2>2. CASE EndReceive
    BY <2>2 DEF EndReceive, ContractInv, RebuildsOK
  <2>3. CASE RebuildDone \/ RebuildRejected
    BY <2>3, ContractTypes DEF RebuildDone, RebuildRejected, RebuildDue, ContractInv, RebuildsOK
  <2> QED BY <2>1, <2>2, <2>3
<1> QED BY <1>1, <1>2, RebuildStep

-----------------------------------------------------------------------------
(* The pass and the launch.                                                *)

\* The head of the queue, when it is tried: nothing was sent for it, or it is a
\* continuation whose admission was reported with its first chunk.
LEMMA CandidateFacts ==
  ASSUME ControlInv, ContractInv, CanTry, NEW u, u = candidate.uid
  PROVE  /\ u \in Uids /\ Queued(u) /\ ~Fresh(u)
         /\ u \notin out.finished \cup out.error
         /\ candidate.chunked <=> req[u].n > 0
         /\ out.admitted[u] = IF candidate.chunked THEN 1 ELSE 0
<1>1. u \in Uids /\ Queued(u) /\ ~Processed(u) /\ WaitingOK(candidate)
  BY Candidate
<1>2. ~Fresh(u)
  BY <1>1 DEF Fresh, Processed
<1>3. req[u].n \in Nat
  BY <1>1, ContractTypes DEF Reqs
<1>4. IF candidate.chunked THEN Held(u) /\ req[u].n > 0 ELSE req[u].n = 0
  BY <1>1, <1>3 DEF WaitingOK, ControlInv, UnbornOK
<1>5. u \notin out.finished \cup out.error
  BY <1>1, <1>3, <1>4 DEF ContractInv, EndedOK
<1>6. out.admitted[u] = IF candidate.chunked THEN 1 ELSE 0
  BY <1>1, <1>2, <1>3, <1>4 DEF ContractInv, AdmittedOK
<1> QED BY <1>1, <1>2, <1>3, <1>4, <1>5, <1>6

\* Either way of admitting makes the object and the entry of AddOneResult.
LEMMA AdmitFacts ==
  ASSUME ControlInv, AdmitContinuation \/ AdmitFresh
  PROVE  \E cached \in 0 .. Len(Prompt[candidate.uid]), t \in Tables :
           AddOneResult(candidate.uid, cached, t)
<1>1. PICK u \in Uids : u = candidate.uid
  BY Candidate DEF AdmitContinuation, AdmitFresh, Fits
<1>2. CASE AdmitContinuation
  <2> DEFINE r == req[u]
  <2>1. /\ CanTry /\ candidate.chunked
        /\ AddOne(r.cached_len, r.table_idx, r.handle,
                  estimated_size(r.cached_len), token_pool[r.table_idx])
    BY <1>1, <1>2 DEF AdmitContinuation
  <2>2. Held(u) /\ r.cached_len <= Len(Prompt[u])
    BY <1>1, <2>1, Candidate DEF WaitingOK
  <2>3. r \in Reqs
    BY DEF ControlInv, ControlTypes
  <2>4. /\ r.cached_len \in 0 .. Len(Prompt[candidate.uid])
        /\ r.table_idx \in Tables /\ r.handle \in Seq(Vocab)
    BY <1>1, <2>2, <2>3 DEF Reqs, Held
  <2> HIDE DEF r
  <2>5. AddOneResult(u, r.cached_len, r.table_idx)
    BY <1>1, <2>1, <2>4, AddOneFacts
  <2> QED BY ONLY <1>1, <2>4, <2>5
<1>3. CASE AdmitFresh
  <2> DEFINE mr == match_req(u)
             t  == Last(table_free)
             tokens == [i \in 1 .. ConfigMaxSeqLen |->
                          IF i <= Len(mr.path) THEN Prompt[candidate.uid][i] ELSE token_pool[t][i]]
  <2>1. /\ CanTry /\ table_free # <<>>
        /\ AddOne(Len(mr.path), t, mr.path, estimated_size(Len(mr.path)), tokens)
    BY <1>1, <1>3 DEF AdmitFresh, Fits
  <2>2. Len(mr.path) \in 0 .. Len(Prompt[candidate.uid]) /\ mr.path \in Seq(Vocab)
    BY <1>1, MatchReq
  <2> HIDE DEF mr, tokens
  <2>3. t \in Tables
    <3>1. table_free \in Seq(Tables)
      BY DEF ControlInv, ControlTypes
    <3> QED BY <2>1, <3>1 DEF Last
  <2> HIDE DEF t
  <2>4. AddOneResult(u, Len(mr.path), t)
    BY <1>1, <2>1, <2>2, <2>3, AddOneFacts
  <2> QED BY ONLY <1>1, <2>2, <2>3, <2>4
<1> QED BY <1>2, <1>3

\* Taking the head makes it a new object and an entry of the pass.
LEMMA TakeContract ==
  ASSUME ControlInv, ContractInv, AdmitContinuation \/ AdmitFresh
  PROVE  ContractInv'
<1>1. /\ CanTry /\ pc = "plan" /\ pc' = "plan" /\ Planning /\ Planning'
      /\ UNCHANGED <<pending_list, drain, reply, tombstones, pending_abort_acks, pending_rebuild,
                     inbox, out>>
  BY DEF AdmitContinuation, AdmitFresh, Fits, CanTry, batches, Planning
<1>2. PICK u \in Uids : u = candidate.uid
  BY <1>1, Candidate
<1>14. /\ Queued(u) /\ ~Fresh(u)
       /\ u \notin out.finished \cup out.error
       /\ candidate.chunked <=> req[u].n > 0
       /\ out.admitted[u] = IF candidate.chunked THEN 1 ELSE 0
  BY <1>1, <1>2, CandidateFacts
<1>3. PICK cached \in 0 .. Len(Prompt[u]), t \in Tables : AddOneResult(u, cached, t)
  BY <1>2, AdmitFacts
<1>4. /\ \A v \in Uids \ {u} : req'[v] = req[v]
      /\ req'[u].n = req[u].n + 1 /\ req'[u].table_idx # NoTable /\ ~req'[u].aborted
      /\ req[u].n \in Nat
  BY <1>3, ContractTypes DEF AddOneResult, Tables, NoTable, Reqs
<1>5. /\ Held(u)' /\ \A v \in Uids \ {u} : Held(v)' = Held(v)
      /\ \A v : Queued(v)' = Queued(v)
  BY <1>1, <1>4 DEF Held, Queued
<1>6. /\ Fresh(u)' <=> ~candidate.chunked
      /\ \A v \in Uids \ {u} : Fresh(v)' <=> Fresh(v)
  <2>1. PICK e : /\ adder'.reqs = Append(adder.reqs, e)
                 /\ e.uid = u /\ e.fresh = ~candidate.chunked
    BY <1>3 DEF AddOneResult
  <2>2. adder.reqs \in Seq(Taken)
    BY <1>1 DEF ControlInv, PlanOK, PlanTypes
  <2>3. /\ Len(adder'.reqs) = Len(adder.reqs) + 1 /\ Len(adder.reqs) \in Nat
        /\ \A i \in 1 .. Len(adder.reqs) : adder'.reqs[i] = adder.reqs[i]
        /\ adder'.reqs[Len(adder.reqs) + 1] = e
    BY <2>1, <2>2
  <2>4. \A v : /\ Fresh(v) <=> \E i \in 1 .. Len(adder.reqs) :
                                  adder.reqs[i].uid = v /\ adder.reqs[i].fresh
               /\ Fresh(v)' <=> \E i \in 1 .. Len(adder'.reqs) :
                                  adder'.reqs[i].uid = v /\ adder'.reqs[i].fresh
    BY <1>1 DEF Fresh
  <2>6. /\ \A i \in 1 .. Len(adder'.reqs) : i \in 1 .. Len(adder.reqs) \/ i = Len(adder.reqs) + 1
        /\ \A i \in 1 .. Len(adder.reqs) : i \in 1 .. Len(adder'.reqs)
        /\ Len(adder.reqs) + 1 \in 1 .. Len(adder'.reqs)
    BY ONLY <2>3
  <2>5. \A v : Fresh(v)' <=> Fresh(v) \/ (e.uid = v /\ e.fresh)
    <3>1. ASSUME NEW v, Fresh(v)'
          PROVE  Fresh(v) \/ (e.uid = v /\ e.fresh)
      <4>1. PICK i \in 1 .. Len(adder'.reqs) : adder'.reqs[i].uid = v /\ adder'.reqs[i].fresh
        BY <2>4, <3>1
      <4> QED BY <2>3, <2>4, <2>6, <4>1
    <3>2. ASSUME NEW v, Fresh(v)
          PROVE  Fresh(v)'
      <4>1. PICK i \in 1 .. Len(adder.reqs) : adder.reqs[i].uid = v /\ adder.reqs[i].fresh
        BY <2>4, <3>2
      <4> QED BY <2>3, <2>4, <2>6, <4>1
    <3>3. ASSUME NEW v, e.uid = v, e.fresh
          PROVE  Fresh(v)'
      BY <2>3, <2>4, <2>6, <3>3
    <3> QED BY <3>1, <3>2, <3>3
  <2> QED BY <1>14, <2>1, <2>5
<1>7. OutTypes'
  BY <1>1 DEF ContractInv, OutTypes
<1>8. RepliesOK'
  BY <1>1, ContractTypes DEF RepliesOK, Distinct
<1>9. AdmittedOK'
  BY <1>1, <1>14, <1>4, <1>6 DEF ContractInv, AdmittedOK
<1>10. EndedOK'
  BY <1>1, <1>14, <1>4, <1>5, ContractTypes DEF ContractInv, EndedOK
<1>11. AbortsOK'
  BY <1>1, <1>2, <1>4 DEF ContractInv, AbortsOK
<1>12. ServedOK'
  BY <1>1, <1>5, ContractTypes DEF ContractInv, ServedOK
<1>13. RebuildsOK'
  BY <1>1 DEF ContractInv, RebuildsOK
<1> QED BY <1>7, <1>8, <1>9, <1>10, <1>11, <1>12, <1>13 DEF ContractInv

\* A pass that raises, and one that launches nothing.
LEMMA NoLaunchContract ==
  ASSUME ControlInv, ContractInv, ChunkMultimodal \/ NoLaunch
  PROVE  ContractInv'
<1>1. /\ pc = "plan"
      /\ UNCHANGED <<pending_list, req, reply, tombstones, pending_abort_acks, pending_rebuild,
                     inbox, out>>
      /\ reply = <<>>
      /\ \A v : Fresh(v)' = Fresh(v)
  <2>1. CASE ChunkMultimodal
    BY <2>1, ContractTypes DEF ChunkMultimodal, Fits, CanTry, batches, Fresh, Planning
  <2>2. CASE NoLaunch
    BY <2>2, ContractTypes DEF NoLaunch, Refused, StartDrain, Fresh, Planning
  <2> QED BY <2>1, <2>2
<1>2. \A v : Held(v)' = Held(v) /\ Queued(v)' = Queued(v)
  BY <1>1 DEF Held, Queued
<1>3. OutTypes'
  BY <1>1 DEF ContractInv, OutTypes
<1>4. RepliesOK'
  BY <1>1, ContractTypes DEF RepliesOK, Distinct
<1>5. AdmittedOK'
  BY <1>1 DEF ContractInv, AdmittedOK
<1>6. EndedOK'
  BY <1>1, <1>2 DEF ContractInv, EndedOK
<1>7. AbortsOK'
  BY <1>1 DEF ContractInv, AbortsOK
<1>8. ServedOK'
  BY <1>1, <1>2 DEF ContractInv, ServedOK
<1>9. RebuildsOK'
  BY <1>1 DEF ContractInv, RebuildsOK
<1> QED BY <1>3, <1>4, <1>5, <1>6, <1>7, <1>8, <1>9 DEF ContractInv

\* The launch reports the first chunks it carries.
LEMMA LaunchContract ==
  ASSUME ControlInv, ContractInv, Launch
  PROVE  /\ ContractInv'
         /\ \A v \in Uids : out'.admitted[v] = out.admitted[v] + (IF Fresh(v) THEN 1 ELSE 0)
         /\ out'.tokens = out.tokens /\ out'.finished = out.finished
         /\ out'.error = out.error /\ out'.acked = out.acked
         /\ UNCHANGED <<tombstones, pending_abort_acks, pending_rebuild, inbox>>
<1>1. /\ pc = "plan" /\ pc' = "drain" /\ reply = <<>>
      /\ UNCHANGED <<reply, tombstones, pending_abort_acks, pending_rebuild, inbox>>
      /\ req' \in [Uids -> Reqs]
      /\ \A v \in Uids : Held(v)' = Held(v) /\ req'[v].n = req[v].n /\ req'[v].aborted = req[v].aborted
      /\ \A v \in Uids : (Queued(v)' => Queued(v)) /\ (Queued(v) => Queued(v)' \/ Held(v))
  <2>1. PICK Us \in SUBSET Uids :
           /\ pc = "plan" /\ pc' = "drain"
           /\ UNCHANGED <<last_data, reply, finished_reqs, new_finished_reqs, tombstones,
                          pending_abort_acks, pending_rebuild, num_pages, table_free, inbox>>
           /\ req' \in [Uids -> Reqs]
           /\ \A v \in Uids \ Us : req'[v] = req[v]
           /\ \A v \in Us : req'[v] = [req[v] EXCEPT !.cached_len = req[v].device_len,
                                                     !.device_len = req[v].device_len + 1]
           /\ \A v \in Us : Held(v) /\ ~req[v].aborted
           /\ IF adder.reqs # <<>>
              THEN /\ Us = {adder.reqs[i].uid : i \in 1 .. Len(adder.reqs)}
                   /\ pending_list' = pending_after_plan
              ELSE Us \subseteq running_reqs /\ pending_list' = pending_list
    BY LaunchFacts, Zenon
  <2>2. ASSUME NEW v \in Uids
        PROVE  /\ req'[v].n = req[v].n /\ req'[v].table_idx = req[v].table_idx
               /\ req'[v].aborted = req[v].aborted
    <3>1. PICK r \in Reqs : r = req[v]
      BY ContractTypes
    <3>2. CASE v \in Us
      <4>1. req'[v] = [r EXCEPT !.cached_len = r.device_len, !.device_len = r.device_len + 1]
        BY <2>1, <3>1, <3>2
      <4> QED BY ONLY <3>1, <4>1, r \in Reqs DEF Reqs
    <3>3. CASE v \notin Us
      BY <2>1, <3>3
    <3> QED BY <3>2, <3>3
  <2>3. \A v \in Uids : (Queued(v)' => Queued(v)) /\ (Queued(v) => Queued(v)' \/ Held(v))
    <3>1. CASE adder.reqs # <<>>
      <4>1. /\ \A v \in Uids : Queued(v)' => Queued(v)
            /\ \A v \in Uids \ Us : Queued(v) => Queued(v)'
        BY <2>1, <3>1, QueueAfterPlan
      <4> QED BY <2>1, <4>1
    <3>2. CASE adder.reqs = <<>>
      BY <2>1, <3>2 DEF Queued
    <3> QED BY <3>1, <3>2
  <2> QED BY <2>1, <2>2, <2>3, ContractTypes DEF Held
<1>2. /\ \A v \in Uids : out'.admitted[v] = out.admitted[v] + (IF Fresh(v) THEN 1 ELSE 0)
      /\ out'.admitted \in [Uids -> Nat]
      /\ out'.tokens = out.tokens /\ out'.finished = out.finished
      /\ out'.error = out.error /\ out'.acked = out.acked /\ out'.rebuilds = out.rebuilds
  <2> DEFINE a == [u \in Uids |->
                     IF \E i \in 1 .. Len(adder.reqs) : adder.reqs[i].uid = u /\ adder.reqs[i].fresh
                     THEN out.admitted[u] + 1 ELSE out.admitted[u]]
  <2>1. out' = [out EXCEPT !.admitted = a]
    BY DEF Launch
  <2>2. \A v \in Uids : Fresh(v) <=> \E i \in 1 .. Len(adder.reqs) :
                                       adder.reqs[i].uid = v /\ adder.reqs[i].fresh
    BY <1>1 DEF Fresh, Planning
  <2>3. \A v \in Uids : a[v] = out.admitted[v] + (IF Fresh(v) THEN 1 ELSE 0) /\ a[v] \in Nat
    BY <2>2, ContractTypes
  <2>4. DOMAIN a = Uids
    OBVIOUS
  <2>5. a \in [Uids -> Nat]
    BY <2>3
  <2> HIDE DEF a
  <2>6. /\ out'.admitted = a
        /\ out'.tokens = out.tokens /\ out'.finished = out.finished
        /\ out'.error = out.error /\ out'.acked = out.acked /\ out'.rebuilds = out.rebuilds
    BY <2>1, ContractTypes
  <2> QED BY <2>3, <2>5, <2>6
<1>3. \A v \in Uids : ~Fresh(v)' /\ (Fresh(v) => req[v].n # 0)
  <2>1. \A v \in Uids : Fresh(v) => Held(v)
    BY <1>1 DEF ControlInv, PlanOK, TakenOK, Planning, Fresh
  <2> QED BY <1>1, <2>1 DEF Fresh, Planning, ControlInv, UnbornOK
<1>4. OutTypes'
  BY <1>2 DEF ContractInv, OutTypes
<1>5. RepliesOK'
  BY <1>1 DEF RepliesOK, Distinct
<1>6. AdmittedOK'
  BY <1>1, <1>2, <1>3 DEF ContractInv, AdmittedOK
<1>7. EndedOK'
  BY <1>1, <1>2, ContractTypes DEF ContractInv, EndedOK
<1>8. AbortsOK'
  BY <1>1, <1>2 DEF ContractInv, AbortsOK
<1>9. ServedOK'
  BY <1>1, <1>2, ContractTypes DEF ContractInv, ServedOK
<1>10. RebuildsOK'
  BY <1>1, <1>2 DEF ContractInv, RebuildsOK
<1> QED BY <1>1, <1>2, <1>4, <1>5, <1>6, <1>7, <1>8, <1>9, <1>10 DEF ContractInv

-----------------------------------------------------------------------------
(* Draining.                                                               *)

\* A visit that adds no reply.
LEMMA SilentVisitContract ==
  ASSUME ControlInv, ContractInv, Visit, NEW u \in Uids, u = entry.uid,
         UNCHANGED reply,
         \A v \in Uids \ {u} : req'[v] = req[v],
         req'[u].n = req[u].n, req'[u].aborted = req[u].aborted,
         Held(u)' => Held(u),
         Held(u)' \/ ~Held(u) \/ req[u].aborted
  PROVE  ContractInv'
<1>1. /\ pc = "drain" /\ pc' = "drain" /\ drain' = Tail(drain)
      /\ Len(drain') = Len(drain) - 1 /\ Len(drain) \in Nat \ {0}
      /\ \A i \in 1 .. Len(drain') : i + 1 \in 1 .. Len(drain) /\ drain'[i] = drain[i + 1]
      /\ \A v : Queued(v)' = Queued(v)
      /\ UNCHANGED <<tombstones, pending_abort_acks, pending_rebuild, inbox, out>>
  <2>1. /\ pc = "drain" /\ pc' = "drain" /\ Old = drain /\ Old' = Tail(drain)
        /\ Len(Old') = Len(Old) - 1 /\ Len(Old) \in Nat \ {0}
        /\ \A i \in 1 .. Len(Old') : i + 1 \in 1 .. Len(Old) /\ Old'[i] = Old[i + 1]
        /\ \A v : Queued(v)' = Queued(v)
    BY VisitFacts
  <2>2. /\ drain' = Tail(drain)
        /\ UNCHANGED <<tombstones, pending_abort_acks, pending_rebuild, inbox, out>>
    BY DEF Visit
  <2> QED BY ONLY <2>1, <2>2
<1>2. \A v \in Uids : /\ req'[v].n = req[v].n /\ req'[v].aborted = req[v].aborted
                      /\ Held(v)' => Held(v)
                      /\ v # u => Held(v)' = Held(v)
                      /\ ~Fresh(v) /\ ~Fresh(v)'
  BY <1>1 DEF Held, Fresh, Planning
<1>3. OutTypes'
  BY <1>1 DEF ContractInv, OutTypes
<1>4. RepliesOK'
  <2>1. \A i \in 1 .. Len(reply) : reply[i].uid \in Uids
    BY ReplyUids
  <2>2. RepliesOK
    BY DEF ContractInv
  <2> QED BY <1>1, <1>2, <2>1, <2>2 DEF RepliesOK, Distinct
<1>5. AdmittedOK'
  BY <1>1, <1>2 DEF ContractInv, AdmittedOK
<1>6. EndedOK'
  BY <1>1, <1>2, ContractTypes DEF ContractInv, EndedOK
<1>7. AbortsOK'
  BY <1>1, <1>2 DEF ContractInv, AbortsOK
<1>8. ServedOK'
  <2>1. inbox.abort \subseteq Uids
    BY ContractTypes
  <2>2. req[u].aborted => u \notin inbox.abort
    BY DEF ContractInv, AbortsOK
  <2> QED BY <1>1, <1>2, <2>1, <2>2 DEF ContractInv, ServedOK
<1>9. RebuildsOK'
  BY <1>1 DEF ContractInv, RebuildsOK
<1> QED BY <1>3, <1>4, <1>5, <1>6, <1>7, <1>8, <1>9 DEF ContractInv

\* A visit that replies: the request was held, and is not visited again.
LEMMA ReplyingVisitContract ==
  ASSUME ControlInv, ContractInv, Sampled, NEW u \in Uids, u = entry.uid,
         \A v \in Uids \ {u} : req'[v] = req[v],
         req'[u].n = req[u].n, req'[u].aborted = req[u].aborted,
         Held(u)' <=> ~ends
  PROVE  ContractInv'
<1>1. /\ pc = "drain" /\ pc' = "drain"
      /\ Len(drain') = Len(drain) - 1 /\ Len(drain) \in Nat \ {0}
      /\ \A i \in 1 .. Len(drain') :
           i + 1 \in 1 .. Len(drain) /\ drain'[i] = drain[i + 1] /\ drain'[i].uid # u
      /\ 1 \in 1 .. Len(drain) /\ drain[1].uid = u
      /\ \A v : Queued(v)' = Queued(v)
      /\ UNCHANGED <<tombstones, pending_abort_acks, pending_rebuild, inbox, out>>
  <2>1. /\ pc = "drain" /\ pc' = "drain" /\ Old = drain /\ Old' = Tail(drain)
        /\ Len(Old') = Len(Old) - 1 /\ Len(Old) \in Nat \ {0}
        /\ \A i \in 1 .. Len(Old') : i + 1 \in 1 .. Len(Old) /\ Old'[i] = Old[i + 1]
        /\ \A i \in 1 .. Len(Old') : Old'[i].uid # u
        /\ Old[1] = entry
        /\ \A v : Queued(v)' = Queued(v)
    BY VisitFacts DEF Sampled
  <2>2. /\ drain' = Tail(drain)
        /\ UNCHANGED <<tombstones, pending_abort_acks, pending_rebuild, inbox, out>>
    BY DEF Visit, Sampled
  <2>3. 1 \in 1 .. Len(Old)
    BY ONLY <2>1
  <2> QED BY ONLY <2>1, <2>2, <2>3, u = entry.uid
<1>2. Held(u) /\ req[u].n \in Nat \ {0}
  <2>1. Held(u) /\ Visit
    BY SampledFacts
  <2>2. req[u].n >= 1 /\ req[u].n \in Nat
    BY <2>1, VisitFacts
  <2> QED BY <2>1, <2>2
<1>3. u \notin out.finished \cup out.error \cup out.acked
  BY <1>2 DEF ControlInv, AbortedOK, ContractInv, EndedOK
<1>4. /\ Len(reply') = Len(reply) + 1 /\ Len(reply) \in Nat
      /\ \A i \in 1 .. Len(reply) : reply'[i] = reply[i]
      /\ reply'[Len(reply) + 1].uid = u
      /\ reply'[Len(reply) + 1].finished <=> ends
  <2>4. PICK b \in BOOLEAN : b = ends
    BY DEF ends
  <2>1. reply' = Append(reply, [uid |-> u, token |-> entry.token, finished |-> b])
    BY <2>4 DEF Sampled
  <2> DEFINE m == [uid |-> u, token |-> entry.token, finished |-> b]
  <2>2. m.uid = u /\ m.finished = b
    OBVIOUS
  <2> HIDE DEF m
  <2>3. /\ Len(reply') = Len(reply) + 1 /\ Len(reply) \in Nat
        /\ \A i \in 1 .. Len(reply) : reply'[i] = reply[i]
        /\ reply'[Len(reply) + 1] = m
    BY <2>1, ContractTypes DEF m
  <2> QED BY <2>2, <2>3, <2>4
<1>5. /\ \A i \in 1 .. Len(reply') : i \in 1 .. Len(reply) \/ i = Len(reply) + 1
      /\ \A i \in 1 .. Len(reply) : i \in 1 .. Len(reply')
      /\ Len(reply) + 1 \in 1 .. Len(reply')
  BY ONLY <1>4
<1>6. \A v \in Uids : /\ req'[v].n = req[v].n /\ req'[v].aborted = req[v].aborted
                      /\ Held(v)' => Held(v)
                      /\ v # u => Held(v)' = Held(v)
                      /\ ~Fresh(v) /\ ~Fresh(v)'
  BY <1>1, <1>2 DEF Held, Fresh, Planning
<1>7. \A i \in 1 .. Len(reply) : reply[i].uid \in Uids \ {u}
  BY <1>1, ReplyUids DEF ContractInv, RepliesOK
<1>8. OutTypes'
  BY <1>1 DEF ContractInv, OutTypes
<1>9. RepliesOK'
  <2>1. pc' = "drain" /\ Distinct(reply')
    BY <1>1, <1>4, <1>5, <1>7 DEF ContractInv, RepliesOK, Distinct
  <2>2. ASSUME NEW i \in 1 .. Len(reply)
        PROVE  /\ req'[reply[i].uid].n > 0
               /\ reply[i].uid \notin out.finished \cup out.error \cup out.acked
               /\ reply[i].finished => ~Held(reply[i].uid)'
               /\ \A j \in 1 .. Len(drain') : drain'[j].uid # reply[i].uid
    <3>1. PICK v \in Uids : v = reply[i].uid /\ v # u
      BY <1>7
    <3>2. /\ req[v].n > 0
          /\ v \notin out.finished \cup out.error \cup out.acked
          /\ reply[i].finished => ~Held(v)
          /\ \A j \in 1 .. Len(drain) : drain[j].uid # v
      BY <3>1 DEF ContractInv, RepliesOK
    <3>3. Held(reply[i].uid)' => Held(v)'
      BY <1>4, <3>1 DEF Held
    <3> QED BY <1>1, <1>6, <3>1, <3>2, <3>3
  <2> QED BY <1>1, <1>2, <1>3, <1>4, <1>5, <2>1, <2>2 DEF RepliesOK, Held
<1>10. AdmittedOK'
  BY <1>1, <1>6 DEF ContractInv, AdmittedOK
<1>11. EndedOK'
  BY <1>1, <1>6, ContractTypes DEF ContractInv, EndedOK
<1>12. AbortsOK'
  BY <1>1, <1>6 DEF ContractInv, AbortsOK
<1>13. ServedOK'
  <2>1. inbox.abort \subseteq Uids
    BY ContractTypes
  <2>2. ASSUME NEW v \in Uids, \E i \in 1 .. Len(reply) : reply[i].uid = v /\ reply[i].finished
        PROVE  \E i \in 1 .. Len(reply') : reply'[i].uid = v /\ reply'[i].finished
    BY <1>4, <1>5, <2>2
  <2>3. ends => \E i \in 1 .. Len(reply') : reply'[i].uid = u /\ reply'[i].finished
    BY <1>4, <1>5
  <2> QED BY <1>1, <1>6, <2>1, <2>2, <2>3 DEF ContractInv, ServedOK
<1>14. RebuildsOK'
  BY <1>1 DEF ContractInv, RebuildsOK
<1> QED BY <1>8, <1>9, <1>10, <1>11, <1>12, <1>13, <1>14 DEF ContractInv

\* Every visit of _process_last_data.
LEMMA DrainContract ==
  ASSUME ControlInv, ContractInv,
         \/ DrainChunk \/ DrainAborted \/ DrainStale
         \/ DrainFinished \/ DrainPrefilled \/ DrainDecoded
  PROVE  /\ ContractInv'
         /\ UNCHANGED <<tombstones, pending_abort_acks, pending_rebuild, inbox, out>>
<1>1. Visit
  BY DEF DrainChunk, DrainAborted, DrainStale, DrainFinished, DrainPrefilled, DrainDecoded, Sampled
<1>2. PICK u \in Uids : u = entry.uid
  BY <1>1, VisitFacts
<1>3. PICK r \in Reqs : r = req[u]
  BY ContractTypes
<1>4. UNCHANGED <<tombstones, pending_abort_acks, pending_rebuild, inbox, out>>
  BY <1>1 DEF Visit
<1>5. CASE (DrainChunk /\ ~EntryAborted) \/ DrainStale
  <2>1. UNCHANGED <<req, reply>>
    BY <1>5 DEF DrainChunk, DrainStale
  <2>2. Held(u)' = Held(u)
    BY <2>1 DEF Held
  <2> QED BY <1>1, <1>2, <1>4, <2>1, <2>2, SilentVisitContract
<1>6. CASE (DrainChunk /\ EntryAborted) \/ DrainAborted
  <2>1. reply' = reply /\ FreeLazily(u, r) /\ r.table_idx = req[u].table_idx /\ req[u].aborted
    BY <1>2, <1>3, <1>6 DEF DrainChunk, DrainAborted, object, EntryAborted
  <2>2. /\ \A v \in Uids \ {u} : req'[v] = req[v]
        /\ req'[u].n = r.n /\ req'[u].aborted = r.aborted /\ ~Held(u)'
    BY <2>1, FreeLazilyFacts, Zenon
  <2> QED BY <1>1, <1>2, <1>3, <1>4, <2>1, <2>2, SilentVisitContract
<1>7. CASE DrainFinished \/ DrainPrefilled \/ DrainDecoded
  <2>1. Sampled
    BY <1>7 DEF DrainFinished, DrainPrefilled, DrainDecoded
  <2>2. PICK a \in Reqs : a = appended
    BY <1>2, <2>1, SampledFacts
  <2>3. /\ a.n = req[u].n /\ a.table_idx = req[u].table_idx /\ a.aborted = req[u].aborted /\ Held(u)
    BY <1>2, <2>1, <2>2, SampledFacts
  <2>4. CASE DrainFinished
    <3>1. ends /\ FreeLazily(u, a)
      BY <1>2, <2>2, <2>4 DEF DrainFinished
    <3>2. /\ \A v \in Uids \ {u} : req'[v] = req[v]
          /\ req'[u].n = a.n /\ req'[u].aborted = a.aborted /\ ~Held(u)'
      BY <2>3, <3>1, FreeLazilyFacts, Zenon
    <3> QED BY <1>2, <1>4, <2>1, <2>3, <3>1, <3>2, ReplyingVisitContract
  <2>5. CASE DrainPrefilled \/ DrainDecoded
    <3>1. PICK h \in Seq(Vocab) : req' = [req EXCEPT ![u] = [a EXCEPT !.handle = h]]
      <4>1. CASE DrainPrefilled
        BY <1>2, <2>2, <4>1, CommitHandle DEF DrainPrefilled
      <4>2. CASE DrainDecoded
        <5>1. req' = [req EXCEPT ![u] = a]
          BY <1>2, <2>2, <4>2 DEF DrainDecoded
        <5>2. a.handle \in Seq(Vocab) /\ a = [a EXCEPT !.handle = a.handle]
          BY DEF Reqs
        <5> QED BY <5>1, <5>2
      <4> QED BY <2>5, <4>1, <4>2
    <3>2. PICK b \in Reqs : /\ b = [a EXCEPT !.handle = h]
                            /\ b.n = a.n /\ b.table_idx = a.table_idx /\ b.aborted = a.aborted
      <4>1. /\ [a EXCEPT !.handle = h] \in Reqs
            /\ [a EXCEPT !.handle = h].n = a.n
            /\ [a EXCEPT !.handle = h].table_idx = a.table_idx
            /\ [a EXCEPT !.handle = h].aborted = a.aborted
        BY DEF Reqs
      <4> QED BY <4>1
    <3>3. req'[u] = b /\ \A v \in Uids \ {u} : req'[v] = req[v]
      BY <3>1, <3>2, ContractTypes
    <3>4. Held(u)' /\ ~ends
      BY <2>3, <2>5, <3>2, <3>3 DEF Held, DrainPrefilled, DrainDecoded
    <3> QED BY <1>2, <1>4, <2>1, <2>3, <3>2, <3>3, <3>4, ReplyingVisitContract
  <2> QED BY <1>7, <2>4, <2>5
<1> QED BY <1>5, <1>6, <1>7

\* What an iteration sends to a request: the token of its reply, or nothing.
LEMMA TokensInReplies ==
  ASSUME NEW l, Distinct(l), NEW u, Len(l) \in Nat
  PROVE  /\ (\A i \in 1 .. Len(l) : l[i].uid # u) => TokensIn(l, u) = <<>>
         /\ \A i \in 1 .. Len(l) : l[i].uid = u => TokensIn(l, u) = <<l[i].token>>
<1> DEFINE mine == {i \in 1 .. Len(l) : l[i].uid = u}
           S    == [1 .. Cardinality(mine) -> mine]
           nth  == CHOOSE s \in S : \A i, j \in DOMAIN s : i < j => s[i] < s[j]
<1>1. TokensIn(l, u) = [k \in 1 .. Cardinality(mine) |-> l[nth[k]].token]
  BY DEF TokensIn
<1>2. ASSUME \A i \in 1 .. Len(l) : l[i].uid # u
      PROVE  TokensIn(l, u) = <<>>
  <2>1. mine = {} /\ Cardinality({}) = 0
    BY <1>2, FS_EmptySet
  <2> HIDE DEF mine, nth
  <2>2. TokensIn(l, u) = [k \in 1 .. 0 |-> l[nth[k]].token]
    BY <1>1, <2>1
  <2> QED BY ONLY <2>2
<1>3. ASSUME NEW i \in 1 .. Len(l), l[i].uid = u
      PROVE  TokensIn(l, u) = <<l[i].token>>
  <2>1. mine = {i}
    BY <1>3 DEF Distinct
  <2>2. Cardinality({i}) = 1
    BY FS_Singleton
  <2> HIDE DEF mine
  <2>3. S = [1 .. 1 -> {i}] /\ \A s \in S : s[1] = i
    <3>1. S = [1 .. 1 -> {i}]
      BY <2>1, <2>2, Zenon
    <3>2. \A s \in [1 .. 1 -> {i}] : s[1] = i
      OBVIOUS
    <3> QED BY ONLY <3>1, <3>2
  <2>4. \E s \in S : \A j, k \in DOMAIN s : j < k => s[j] < s[k]
    <3>1. [j \in 1 .. 1 |-> i] \in S
      BY <2>3
    <3>2. \A j, k \in 1 .. 1 : ~(j < k)
      OBVIOUS
    <3>3. \A j, k \in DOMAIN [j \in 1 .. 1 |-> i] :
            j < k => [m \in 1 .. 1 |-> i][j] < [m \in 1 .. 1 |-> i][k]
      BY <3>2
    <3> QED BY <3>1, <3>3
  <2>5. nth \in S
    <3> HIDE DEF S
    <3> QED BY <2>4, Zenon
  <2>6. nth[1] = i
    BY <2>3, <2>5
  <2> HIDE DEF nth, S
  <2>7. TokensIn(l, u) = [k \in 1 .. 1 |-> l[nth[k]].token]
    BY <1>1, <2>1, <2>2
  <2> QED BY <2>6, <2>7
<1> QED BY <1>2, <1>3

(* A reply gives each request at most one token. *)
LEMMA NewTokens ==
  ASSUME Distinct(reply), NEW u, Len(reply) \in Nat
  PROVE  /\ (\A i \in 1 .. Len(reply) : reply[i].uid # u) => new_tokens(u) = <<>>
         /\ \A i \in 1 .. Len(reply) : reply[i].uid = u => new_tokens(u) = <<reply[i].token>>
BY TokensInReplies DEF new_tokens

\* What the end of an iteration makes known.
LEMMA EndIterationFacts ==
  ASSUME ControlInv, ContractInv, EndIteration
  PROVE  /\ pc = "drain" /\ pc' # "drain" /\ reply' = <<>> /\ pending_abort_acks' = {}
         /\ UNCHANGED <<pending_list, req, tombstones, pending_rebuild, inbox>>
         /\ out'.tokens = [u \in Uids |-> out.tokens[u] \o new_tokens(u)]
         /\ out'.finished = out.finished \cup {reply[i].uid : i \in {j \in 1 .. Len(reply) : reply[j].finished}}
         /\ out'.acked = out.acked \cup pending_abort_acks
         /\ out'.admitted = out.admitted /\ out'.error = out.error /\ out'.rebuilds = out.rebuilds
         /\ \A u : /\ Held(u)' = Held(u) /\ Queued(u)' = Queued(u) /\ ~Fresh(u) /\ ~Fresh(u)'
<1>1. /\ pc = "drain" /\ pc' # "drain" /\ pc' \in {"recv", "idle"} /\ reply' = <<>> /\ pending_abort_acks' = {}
      /\ UNCHANGED <<pending_list, req, tombstones, pending_rebuild, inbox>>
  BY Zenon DEF EndIteration
<1> DEFINE T == [u \in Uids |-> out.tokens[u] \o new_tokens(u)]
           F == {reply[i].uid : i \in {j \in DOMAIN reply : reply[j].finished}}
<1>2. out' = [out EXCEPT !.tokens = T, !.finished = @ \cup F, !.acked = @ \cup pending_abort_acks]
  BY DEF EndIteration
<1>3. F = {reply[i].uid : i \in {j \in 1 .. Len(reply) : reply[j].finished}}
  BY ContractTypes
<1>4. DOMAIN out = {"tokens", "admitted", "finished", "error", "acked", "rebuilds"}
  BY ContractTypes
<1> HIDE DEF T, F
<1>5. /\ out'.tokens = T
      /\ out'.finished = out.finished \cup F
      /\ out'.acked = out.acked \cup pending_abort_acks
      /\ out'.admitted = out.admitted /\ out'.error = out.error /\ out'.rebuilds = out.rebuilds
  BY ONLY <1>2, <1>4
<1>6. \A u : /\ Held(u)' = Held(u) /\ Queued(u)' = Queued(u) /\ ~Fresh(u) /\ ~Fresh(u)'
  BY <1>1 DEF Held, Queued, Fresh, Planning
<1> QED BY <1>1, <1>3, <1>5, <1>6 DEF T

\* The requests an iteration replies to were being served.
LEMMA RepliedFacts ==
  ASSUME ControlInv, ContractInv, pc = "drain", NEW i \in 1 .. Len(reply), NEW u, u = reply[i].uid
  PROVE  /\ u \in Uids /\ u \notin inbox.user /\ req[u].n > 0
         /\ out.admitted[u] = 1
         /\ u \notin out.finished \cup out.error \cup out.acked
         /\ u \notin inbox.abort => u \in pending_abort_acks
         /\ reply[i].finished => ~Held(u)
<1>1. /\ u \in Uids /\ req[u].n > 0
      /\ u \notin out.finished \cup out.error \cup out.acked
      /\ reply[i].finished => ~Held(u)
  BY ReplyUids DEF ContractInv, RepliesOK
<1>2. u \notin inbox.user
  BY <1>1, UnbornFacts
<1>3. out.admitted[u] = 1
  BY <1>1 DEF ContractInv, AdmittedOK, Fresh, Planning
<1>4. u \notin inbox.abort => u \in pending_abort_acks
  BY <1>1 DEF ContractInv, AbortsOK
<1> QED BY <1>1, <1>2, <1>3, <1>4

\* The tokens go out with their ends, and the acknowledgements behind them.
LEMMA EndIterationContract ==
  ASSUME ControlInv, ContractInv, EndIteration
  PROVE  ContractInv'
<1> DEFINE F == {reply[i].uid : i \in {j \in 1 .. Len(reply) : reply[j].finished}}
<1>1. /\ pc = "drain" /\ pc' # "drain" /\ reply' = <<>> /\ pending_abort_acks' = {}
      /\ UNCHANGED <<pending_list, req, tombstones, pending_rebuild, inbox>>
      /\ out'.tokens = [u \in Uids |-> out.tokens[u] \o new_tokens(u)]
      /\ out'.finished = out.finished \cup F
      /\ out'.acked = out.acked \cup pending_abort_acks
      /\ out'.admitted = out.admitted /\ out'.error = out.error /\ out'.rebuilds = out.rebuilds
      /\ \A u : /\ Held(u)' = Held(u) /\ Queued(u)' = Queued(u) /\ ~Fresh(u) /\ ~Fresh(u)'
  BY EndIterationFacts, Zenon
<1>2. \A u \in F : u \in Uids /\ req[u].n > 0 /\ ~Held(u)
  BY <1>1, RepliedFacts
<1>3. \A u \in Uids : (\E i \in 1 .. Len(reply) : reply[i].uid = u /\ reply[i].finished) => u \in F
  OBVIOUS
<1> HIDE DEF F
<1>4. OutTypes'
  <2>1. ASSUME NEW u \in Uids
        PROVE  out.tokens[u] \o new_tokens(u) \in Seq(Vocab)
    <3>1. Distinct(reply) /\ Len(reply) \in Nat /\ out.tokens[u] \in Seq(Vocab)
      BY ContractTypes DEF ContractInv, RepliesOK
    <3>2. new_tokens(u) \in Seq(Vocab)
      <4>1. CASE \A i \in 1 .. Len(reply) : reply[i].uid # u
        <5>1. new_tokens(u) = <<>>
          BY <3>1, <4>1, NewTokens
        <5> QED BY <5>1
      <4>2. ASSUME NEW i \in 1 .. Len(reply), reply[i].uid = u
            PROVE  new_tokens(u) \in Seq(Vocab)
        <5>1. new_tokens(u) = <<reply[i].token>> /\ reply[i].token \in Vocab
          BY <3>1, <4>2, NewTokens, ReplyUids
        <5> QED BY <5>1
      <4> QED BY <4>1, <4>2
    <3> QED BY <3>1, <3>2, ConcatProperties
  <2>2. out.admitted \in [Uids -> Nat]
    BY ContractTypes
  <2> QED BY <1>1, <2>1, <2>2 DEF OutTypes
<1>5. RepliesOK'
  BY <1>1 DEF RepliesOK, Distinct
<1>6. AdmittedOK'
  BY <1>1 DEF ContractInv, AdmittedOK
<1>7. EndedOK'
  BY <1>1, <1>2 DEF ContractInv, EndedOK
<1>8. AbortsOK'
  BY <1>1 DEF ContractInv, AbortsOK
<1>9. ServedOK'
  BY <1>1, <1>3, ContractTypes DEF ContractInv, ServedOK
<1>10. RebuildsOK'
  BY <1>1 DEF ContractInv, RebuildsOK
<1> QED BY <1>4, <1>5, <1>6, <1>7, <1>8, <1>9, <1>10 DEF ContractInv

-----------------------------------------------------------------------------
(* The invariant.                                                          *)

\* Nothing has been sent at first.
LEMMA InitContract ==
  ASSUME Init
  PROVE  ContractInv
<1>1. /\ pc = "idle" /\ reply = <<>> /\ tombstones = {} /\ pending_abort_acks = {}
      /\ pending_rebuild = NoRebuild /\ req = [u \in Uids |-> NoReq]
      /\ inbox = [user |-> Uids, abort |-> Uids, rebuilds |-> 0]
      /\ out = [tokens   |-> [u \in Uids |-> <<>>],
                admitted |-> [u \in Uids |-> 0],
                finished |-> {}, error |-> {}, acked |-> {}, rebuilds |-> 0]
  BY DEF Init
<1>2. \A u \in Uids : req[u].n = 0 /\ ~req[u].aborted
  BY <1>1 DEF NoReq
<1>3. OutTypes
  BY <1>1 DEF OutTypes
<1>4. RepliesOK
  BY <1>1 DEF RepliesOK, Distinct
<1>5. AdmittedOK /\ EndedOK /\ AbortsOK /\ ServedOK /\ RebuildsOK
  BY <1>1, <1>2 DEF AdmittedOK, EndedOK, AbortsOK, ServedOK, RebuildsOK
<1> QED BY <1>3, <1>4, <1>5 DEF ContractInv

\* A step that changes nothing.
LEMMA StutterContract ==
  ASSUME ContractInv, UNCHANGED vars
  PROVE  ContractInv'
<1> USE DEF vars, batches, device
<1>1. \A u : Held(u)' = Held(u) /\ Queued(u)' = Queued(u) /\ Fresh(u)' = Fresh(u)
  BY DEF Held, Queued, Fresh, Planning
<1>2. RepliesOK'
  BY DEF ContractInv, RepliesOK, Distinct, Held
<1>3. OutTypes' /\ AdmittedOK' /\ EndedOK' /\ AbortsOK' /\ ServedOK' /\ RebuildsOK'
  BY <1>1 DEF ContractInv, OutTypes, AdmittedOK, EndedOK, AbortsOK, ServedOK, RebuildsOK
<1> QED BY <1>2, <1>3 DEF ContractInv

\* Every action keeps it.
LEMMA NextContract ==
  ASSUME ControlInv, ContractInv, [Next]_vars
  PROVE  ContractInv'
<1>1. CASE Receive
  <2>1. ASSUME NEW u \in Uids, UserAborted(u) \/ UserTooLong(u) \/ UserQueued(u)
        PROVE  ContractInv'
    BY <2>1, UserContract
  <2>2. ASSUME NEW u \in Uids, AbortUnheld(u) \/ AbortInFlight(u) \/ AbortHeld(u)
        PROVE  ContractInv'
    BY <2>2, AbortContract
  <2>3. CASE \E n \in RebuildSizes : RebuildReceived(n)
    BY <2>3, RebuildContract
  <2> QED BY <1>1, <2>1, <2>2, <2>3 DEF Receive
<1>2. CASE Loop
  <2>1. CASE EndReceive \/ RebuildDone \/ RebuildRejected
    BY <2>1, RebuildContract
  <2>2. CASE AdmitContinuation \/ AdmitFresh
    BY <2>2, TakeContract
  <2>3. CASE ChunkMultimodal \/ NoLaunch
    BY <2>3, NoLaunchContract
  <2>4. CASE Launch
    BY <2>4, LaunchContract
  <2>5. CASE \/ DrainChunk \/ DrainAborted \/ DrainStale
             \/ DrainFinished \/ DrainPrefilled \/ DrainDecoded
    BY <2>5, DrainContract
  <2>6. CASE EndIteration
    BY <2>6, EndIterationContract
  <2> QED BY <1>2, <2>1, <2>2, <2>3, <2>4, <2>5, <2>6 DEF Loop
<1>3. CASE Quiescent \/ UNCHANGED vars
  BY <1>3, StutterContract DEF Quiescent
<1> QED BY <1>1, <1>2, <1>3 DEF Next

\* The messages scheduler.py has sent always agree with what it holds: replies,
\* admissions, ends and acknowledgements, and a request nobody aborted is never
\* forgotten.
THEOREM ContractInvariant == Spec => []ContractInv
<1>1. Init => ContractInv
  BY InitContract
<1>2. ControlInv /\ ContractInv /\ [Next]_vars => ContractInv'
  BY NextContract
<1> QED BY <1>1, <1>2, ControlInvariant, PTL DEF Spec

-----------------------------------------------------------------------------
(* The refinement: every step is a step of Engine, or changes nothing that *)
(* Engine speaks of.                                                       *)

\* Engine's variables, as SchedulerContract maps them.
LEMMA Mapped ==
  /\ Contract!engine = <<ContractStage, tombstones, pending_abort_acks,
                         {u \in Uids : out.admitted[u] > 0},
                         [u \in Uids |-> Len(out.tokens[u])], pending_rebuild # NoRebuild>>
  /\ ContractStage \in [Uids -> {"absent", "ended", "held", "closing"}]
  /\ \A u \in Uids : ContractStage[u] = StageOf(u)
BY DEF Contract!engine, ContractStage, StageOf

\* A step after which every request is where it was, and has been sent what it had.
SameForAll ==
    /\ \A u \in Uids : StageOf(u)' = StageOf(u)
    /\ UNCHANGED <<tombstones, pending_abort_acks>>
    /\ (pending_rebuild' # NoRebuild) = (pending_rebuild # NoRebuild)
    /\ out'.admitted = out.admitted /\ out'.tokens = out.tokens

(* A step that leaves every request as the engine sees it is a stutter of the
   abstract engine. *)
LEMMA NoContractStep ==
  ASSUME SameForAll
  PROVE  UNCHANGED Contract!engine
<1>1. ContractStage' = ContractStage
  BY DEF SameForAll, ContractStage
<1> QED BY <1>1 DEF SameForAll, Contract!engine

\* A step that moves request u alone and sends nothing.
Moves(u, to) ==
    /\ ContractStage' = [ContractStage EXCEPT ![u] = to]
    /\ out'.admitted = out.admitted /\ out'.tokens = out.tokens
    /\ pending_rebuild' = pending_rebuild

\* Dropping, refusing and queueing a UserMsg.
LEMMA UserSteps ==
  ASSUME ControlInv, ContractInv, NEW u \in Uids,
         UserAborted(u) \/ UserTooLong(u) \/ UserQueued(u)
  PROVE  Contract!Next
<1>1. /\ u \in inbox.user /\ req[u].n = 0
      /\ u \notin out.finished \cup out.error /\ out.admitted[u] = 0
      /\ u \in tombstones <=> u \notin inbox.abort
      /\ UNCHANGED <<pending_abort_acks, pending_rebuild>>
  BY UnbornFacts DEF UserAborted, UserTooLong, UserQueued
<1>2. /\ inbox'.user = inbox.user \ {u} /\ inbox'.abort = inbox.abort
      /\ out'.tokens = out.tokens /\ out'.admitted = out.admitted
      /\ out'.finished = out.finished
      /\ UserTooLong(u) => out'.error = out.error \cup {u}
      /\ UserAborted(u) \/ UserQueued(u) => out'.error = out.error
  BY ContractTypes DEF UserAborted, UserTooLong, UserQueued
<1>3. /\ StageOf(u) = "absent"
      /\ \A v \in Uids \ {u} : StageOf(v)' = StageOf(v)
      /\ UserQueued(u) => StageOf(u)' = "held"
      /\ UserAborted(u) \/ UserTooLong(u) => StageOf(u)' = "ended"
  BY <1>1, <1>2 DEF StageOf, UserAborted, UserTooLong, UserQueued
<1>4. Moves(u, StageOf(u)')
  BY <1>1, <1>2, <1>3 DEF Moves, ContractStage
<1>5. CASE UserAborted(u)
  <2>1. Contract!UserDropped(u)
    BY <1>1, <1>3, <1>4, <1>5 DEF Contract!UserDropped, Moves, ContractStage, UserAborted
  <2> QED BY <2>1 DEF Contract!Next
<1>6. CASE UserTooLong(u)
  <2>1. u \notin tombstones /\ UNCHANGED tombstones
    BY <1>6 DEF UserTooLong
  <2>2. ContractStage[u] = "absent" /\ StageOf(u)' = "ended"
    BY <1>3, <1>6 DEF ContractStage
  <2>3. Contract!UserRejected(u)
    BY <1>1, <1>4, <2>1, <2>2 DEF Contract!UserRejected, Moves
  <2> QED BY <2>3 DEF Contract!Next
<1>7. CASE UserQueued(u)
  <2>1. Contract!UserQueued(u)
    BY <1>1, <1>3, <1>4, <1>7 DEF Contract!UserQueued, Moves, ContractStage, UserQueued
  <2> QED BY <2>1 DEF Contract!Next
<1> QED BY <1>5, <1>6, <1>7

\* An abort.
LEMMA AbortSteps ==
  ASSUME ControlInv, ContractInv, NEW u \in Uids, AbortReceived(u)
  PROVE  Contract!Next
<1>1. /\ inbox'.user = inbox.user /\ inbox'.abort = inbox.abort \ {u} /\ u \in inbox.abort
      /\ tombstones' = tombstones \cup {u} /\ pending_abort_acks' = pending_abort_acks \cup {u}
      /\ UNCHANGED <<out, pending_rebuild>>
  BY ContractTypes DEF AbortReceived
<1>2. /\ \A v \in Uids \ {u} : StageOf(v)' = StageOf(v)
      /\ StageOf(u)' = IF StageOf(u) # "held" THEN StageOf(u)
                       ELSE IF out.admitted[u] > 0 THEN "closing" ELSE "ended"
  BY <1>1 DEF StageOf
<1>3. Moves(u, StageOf(u)')
  BY <1>1, <1>2 DEF Moves, ContractStage
<1>4. Contract!AbortReceived(u)
  BY <1>1, <1>2, <1>3 DEF Contract!AbortReceived, Moves, ContractStage
<1> QED BY <1>4 DEF Contract!Next

\* A rebuild queued, or answered at once.
LEMMA RebuildReceivedStep ==
  ASSUME ControlInv, ContractInv, NEW n \in RebuildSizes, RebuildReceived(n)
  PROVE  [Contract!Next]_(Contract!engine)
<1>1. /\ inbox'.user = inbox.user /\ inbox'.abort = inbox.abort
      /\ UNCHANGED <<tombstones, pending_abort_acks>>
      /\ out'.admitted = out.admitted /\ out'.tokens = out.tokens
      /\ out'.finished = out.finished /\ out'.error = out.error
  BY ContractTypes DEF RebuildReceived
<1>2. \A v \in Uids : StageOf(v)' = StageOf(v)
  BY <1>1 DEF StageOf
<1>3. CASE pending_rebuild' = pending_rebuild
  BY <1>1, <1>2, <1>3, NoContractStep DEF SameForAll
<1>4. CASE pending_rebuild' = n
  <2>1. pending_rebuild = NoRebuild /\ n # NoRebuild
    BY ContractTypes DEF RebuildReceived, ContractInv, RebuildsOK
  <2>2. ContractStage' = ContractStage
    BY <1>2 DEF ContractStage
  <2>3. Contract!RebuildQueued
    BY <1>1, <1>4, <2>1, <2>2 DEF Contract!RebuildQueued
  <2> QED BY <2>3 DEF Contract!Next
<1> QED BY <1>3, <1>4 DEF RebuildReceived

\* A rebuild executed: no request is held, in Engine's sense either.
LEMMA RebuildSteps ==
  ASSUME ControlInv, ContractInv, RebuildDone \/ RebuildRejected
  PROVE  Contract!Next
<1>1. /\ pc = "recv" /\ RebuildDue /\ pending_rebuild' = NoRebuild
      /\ UNCHANGED <<inbox, tombstones, pending_abort_acks>>
      /\ out'.admitted = out.admitted /\ out'.tokens = out.tokens
      /\ out'.finished = out.finished /\ out'.error = out.error
  BY ContractTypes DEF RebuildDone, RebuildRejected
<1>2. ContractStage' = ContractStage
  BY <1>1 DEF StageOf, ContractStage
<1>3. Contract!HeldRequests = {}
  <2>1. Holders = {} /\ pending_list = <<>> /\ reply = <<>>
    BY <1>1, NobodyHolds, ContractTypes DEF RebuildDue, runnable, prefill_runnable
  <2>2. ASSUME NEW u \in Uids, StageOf(u) = "held"
        PROVE  FALSE
    <3>1. u \in inbox.abort /\ u \notin inbox.user \cup out.finished \cup out.error
      BY <2>2 DEF StageOf
    <3> QED BY <2>1, <3>1 DEF ContractInv, ServedOK, Queued, Holders
  <2> QED BY <2>2, Mapped DEF Contract!HeldRequests
<1>4. Contract!RebuildExecuted
  BY <1>1, <1>2, <1>3 DEF Contract!RebuildExecuted, RebuildDue
<1> QED BY <1>4 DEF Contract!Next

\* A launch admits the requests whose first chunk it carries, all of them held.
LEMMA LaunchStep ==
  ASSUME ControlInv, ContractInv, Launch
  PROVE  [Contract!Next]_(Contract!engine)
<1> DEFINE S == {u \in Uids : Fresh(u)}
<1>1. /\ \A v \in Uids : out'.admitted[v] = out.admitted[v] + (IF Fresh(v) THEN 1 ELSE 0)
      /\ out'.tokens = out.tokens /\ out'.finished = out.finished
      /\ out'.error = out.error /\ out'.acked = out.acked
      /\ UNCHANGED <<tombstones, pending_abort_acks, pending_rebuild, inbox>>
      /\ ContractInv'
  BY LaunchContract, Zenon
<1>2. ASSUME NEW u \in S
      PROVE  out.admitted[u] = 0 /\ StageOf(u) = "held"
  <2>1. PICK i \in 1 .. Len(adder.reqs) : adder.reqs[i].uid = u
    BY DEF Fresh
  <2>2. Planning
    BY DEF Fresh
  <2>3. Held(u) /\ Queued(u)
    <3>1. Held(u)
      BY <2>1, <2>2 DEF ControlInv, PlanOK, TakenOK
    <3>2. /\ Len(adder.reqs) + Len(adder.rest) = Len(pending_list)
          /\ adder.reqs[i].uid = pending_list[i].uid
      BY <2>1, <2>2 DEF ControlInv, PlanOK, PlanPrefix
    <3>3. adder.reqs \in Seq(Taken) /\ adder.rest \in Seq(PendingReqs) /\ pending_list \in Seq(PendingReqs)
      BY <2>2 DEF ControlInv, ControlTypes, PlanOK, PlanTypes
    <3>4. Len(adder.reqs) \in Nat /\ Len(adder.rest) \in Nat /\ Len(pending_list) \in Nat
      BY ONLY <3>3
    <3>5. i \in 1 .. Len(pending_list)
      <4>1. PICK a \in Nat, b \in Nat, c \in Nat :
              a = Len(adder.reqs) /\ b = Len(adder.rest) /\ c = Len(pending_list)
        BY ONLY <3>4
      <4>2. a + b = c
        BY ONLY <4>1, <3>2
      <4>3. 1 .. a \subseteq 1 .. c
        BY ONLY <4>2
      <4>4. 1 .. Len(adder.reqs) \subseteq 1 .. Len(pending_list)
        BY ONLY <4>1, <4>3
      <4> QED BY <4>4
    <3> QED BY <2>1, <3>1, <3>2, <3>5 DEF Queued
  <2>4. u \notin inbox.user /\ u \notin out.finished \cup out.error
    BY <2>3, UnbornFacts DEF ContractInv, EndedOK
  <2>5. u \in inbox.abort
    BY <2>3 DEF ControlInv, AbortedOK, ContractInv, AbortsOK
  <2>6. out.admitted[u] = 0
    BY DEF ContractInv, AdmittedOK
  <2> QED BY <2>4, <2>5, <2>6 DEF StageOf
<1> HIDE DEF S
<1>3. \A v \in Uids : out.admitted[v] \in Nat /\ out'.admitted[v] \in Nat
  BY <1>1, ContractTypes DEF ContractInv, OutTypes
<1>4. ASSUME NEW v \in Uids
      PROVE  StageOf(v)' = StageOf(v)
  <2>1. CASE v \in S
    BY <1>1, <1>2, <2>1 DEF StageOf
  <2>2. CASE v \notin S
    <3>1. out'.admitted[v] = out.admitted[v]
      BY <1>1, <1>3, <2>2 DEF S
    <3> QED BY <1>1, <3>1 DEF StageOf
  <2> QED BY <2>1, <2>2
<1>5. ContractStage' = ContractStage
  BY <1>4 DEF ContractStage
<1> DEFINE before == {u \in Uids : out.admitted[u] > 0}
           after  == {u \in Uids : out'.admitted[u] > 0}
<1>6. after = before \cup S /\ S \subseteq Uids /\ S \cap before = {}
  BY <1>1, <1>2, <1>3 DEF S
<1>7. CASE S = {}
  BY <1>1, <1>5, <1>6, <1>7 DEF Contract!engine
<1>8. CASE S # {}
  <2>1. PICK T \in SUBSET Uids : T = S
    BY <1>6
  <2>2. T \subseteq Contract!HeldRequests
    BY <1>2, <1>6, <2>1, Mapped DEF Contract!HeldRequests
  <2>3. T # {} /\ after = before \cup T /\ T \subseteq Contract!HeldRequests \ before
    BY <1>6, <1>8, <2>1, <2>2
  <2> HIDE DEF S
  <2>4. Contract!PromptsAdmitted(T)
    BY <1>1, <1>5, <2>3 DEF Contract!PromptsAdmitted
  <2> QED BY <2>1, <2>4 DEF Contract!Next
<1> QED BY <1>7, <1>8

\* The end of an iteration: one token for each reply, the ends, then the
\* acknowledgements.
LEMMA EndIterationStep ==
  ASSUME ControlInv, ContractInv, EndIteration
  PROVE  Contract!Next
<1> DEFINE S == {u \in Uids : \E i \in 1 .. Len(reply) : reply[i].uid = u}
           F == {reply[i].uid : i \in {j \in 1 .. Len(reply) : reply[j].finished}}
<1>1. /\ pc = "drain" /\ pending_abort_acks' = {}
      /\ UNCHANGED <<tombstones, pending_rebuild, inbox>>
      /\ out'.tokens = [u \in Uids |-> out.tokens[u] \o new_tokens(u)]
      /\ out'.finished = out.finished \cup F
      /\ out'.admitted = out.admitted /\ out'.error = out.error
  BY EndIterationFacts, Zenon
<1>2. F \subseteq S
  BY ReplyUids
<1>3. \A u \in S : u \notin inbox.user /\ out.admitted[u] = 1 /\ StageOf(u) \in {"held", "closing"}
  BY <1>1, RepliedFacts DEF StageOf
<1>4. ASSUME NEW u \in Uids
      PROVE  Len(out'.tokens[u]) = Len(out.tokens[u]) + (IF u \in S THEN 1 ELSE 0)
  <2>1. Distinct(reply) /\ Len(reply) \in Nat /\ out.tokens[u] \in Seq(Vocab)
    BY ContractTypes DEF ContractInv, RepliesOK
  <2>2. CASE u \notin S
    <3>1. new_tokens(u) = <<>>
      BY <2>1, <2>2, NewTokens
    <3>2. out'.tokens[u] = out.tokens[u] \o <<>>
      BY <1>1, <3>1
    <3>3. out.tokens[u] \o <<>> = out.tokens[u] /\ Len(out.tokens[u]) \in Nat
      BY <2>1, ConcatEmptySeq, LenProperties
    <3>4. Len(out'.tokens[u]) = Len(out.tokens[u]) + 0
      BY <3>2, <3>3
    <3>5. (IF u \in S THEN 1 ELSE 0) = 0
      BY <2>2
    <3> HIDE DEF S, F
    <3> QED BY <3>4, <3>5
  <2>3. CASE u \in S
    <3>1. PICK i \in 1 .. Len(reply) : reply[i].uid = u
      BY <2>3
    <3>2. new_tokens(u) = <<reply[i].token>> /\ reply[i].token \in Vocab
      BY <2>1, <3>1, NewTokens, ReplyUids
    <3>3. out'.tokens[u] = out.tokens[u] \o <<reply[i].token>>
      BY <1>1, <3>2
    <3> QED BY <2>1, <2>3, <3>2, <3>3
  <2> QED BY <2>2, <2>3
<1> HIDE DEF S, F
<1>5. ASSUME NEW u \in Uids
      PROVE  StageOf(u)' = IF u \in F \/ StageOf(u) = "closing" THEN "ended" ELSE StageOf(u)
  BY <1>1, <1>2, <1>3 DEF StageOf
<1>6. ContractStage' = [u \in Uids |-> IF u \in F \/ StageOf(u) = "closing" THEN "ended" ELSE StageOf(u)]
  BY <1>5 DEF ContractStage
<1>7. S \in SUBSET Uids
  BY DEF S
<1>8. PICK T \in SUBSET Uids : T = S
  BY <1>7
<1>9. PICK G \in SUBSET T : G = F
  BY <1>2, <1>8
<1>10. Contract!Published(T, G)
  <2>1. T \subseteq {u \in {v \in Uids : out.admitted[v] > 0} : ContractStage[u] \in {"held", "closing"}}
    BY <1>3, <1>8, Mapped
  <2>2. [u \in Uids |-> Len(out'.tokens[u])]
          = [u \in Uids |-> [v \in Uids |-> Len(out.tokens[v])][u] + (IF u \in T THEN 1 ELSE 0)]
    BY <1>4, <1>8
  <2>3. ContractStage' = [u \in Uids |-> IF u \in G \/ ContractStage[u] = "closing"
                                          THEN "ended" ELSE ContractStage[u]]
    BY <1>6, <1>9, Mapped
  <2> QED BY <1>1, <2>1, <2>2, <2>3 DEF Contract!Published
<1> QED BY <1>8, <1>9, <1>10 DEF Contract!Next

\* The steps between those the rest of the serve can see.
LEMMA SilentSteps ==
  ASSUME ControlInv, ContractInv,
         \/ EndReceive \/ AdmitContinuation \/ AdmitFresh \/ ChunkMultimodal \/ NoLaunch
         \/ DrainChunk \/ DrainAborted \/ DrainStale
         \/ DrainFinished \/ DrainPrefilled \/ DrainDecoded
         \/ UNCHANGED vars
  PROVE  UNCHANGED Contract!engine
<1>1. UNCHANGED <<inbox, out, tombstones, pending_abort_acks, pending_rebuild>>
  <2>1. CASE \/ EndReceive \/ AdmitContinuation \/ AdmitFresh \/ ChunkMultimodal \/ NoLaunch
             \/ UNCHANGED vars
    BY <2>1 DEF EndReceive, AdmitContinuation, AdmitFresh, ChunkMultimodal, NoLaunch, vars
  <2>2. CASE \/ DrainChunk \/ DrainAborted \/ DrainStale
             \/ DrainFinished \/ DrainPrefilled \/ DrainDecoded
    BY <2>2, DrainContract
  <2> QED BY <2>1, <2>2
<1>2. \A u \in Uids : StageOf(u)' = StageOf(u)
  BY <1>1 DEF StageOf
<1> QED BY <1>1, <1>2, NoContractStep DEF SameForAll

\* Every step of the scheduler, seen from outside.
LEMMA ContractStep ==
  ASSUME ControlInv, ContractInv, [Next]_vars
  PROVE  [Contract!Next]_(Contract!engine)
<1>1. CASE Receive
  <2>1. ASSUME NEW u \in Uids, UserAborted(u) \/ UserTooLong(u) \/ UserQueued(u)
        PROVE  Contract!Next
    BY <2>1, UserSteps
  <2>2. ASSUME NEW u \in Uids, AbortUnheld(u) \/ AbortInFlight(u) \/ AbortHeld(u)
        PROVE  Contract!Next
    BY <2>2, AbortSteps DEF AbortUnheld, AbortInFlight, AbortHeld
  <2>3. ASSUME NEW n \in RebuildSizes, RebuildReceived(n)
        PROVE  [Contract!Next]_(Contract!engine)
    BY <2>3, RebuildReceivedStep
  <2> QED BY <1>1, <2>1, <2>2, <2>3 DEF Receive
<1>2. CASE Loop
  <2>1. CASE RebuildDone \/ RebuildRejected
    BY <2>1, RebuildSteps
  <2>2. CASE Launch
    BY <2>2, LaunchStep
  <2>3. CASE EndIteration
    BY <2>3, EndIterationStep
  <2>4. CASE ~(RebuildDone \/ RebuildRejected \/ Launch \/ EndIteration)
    BY <1>2, <2>4, SilentSteps DEF Loop
  <2> QED BY <2>1, <2>2, <2>3, <2>4
<1>3. CASE Quiescent \/ UNCHANGED vars
  BY <1>3, SilentSteps DEF Quiescent
<1> QED BY <1>1, <1>2, <1>3 DEF Next

\* The start of the scheduler is the start of the contract.
LEMMA ContractStart ==
  ASSUME Init
  PROVE  Contract!Init
<1>1. /\ tombstones = {} /\ pending_abort_acks = {} /\ pending_rebuild = NoRebuild
      /\ inbox = [user |-> Uids, abort |-> Uids, rebuilds |-> 0]
      /\ out = [tokens   |-> [u \in Uids |-> <<>>],
                admitted |-> [u \in Uids |-> 0],
                finished |-> {}, error |-> {}, acked |-> {}, rebuilds |-> 0]
  BY DEF Init
<1>2. ContractStage = [u \in Uids |-> "absent"]
  BY <1>1 DEF ContractStage, StageOf
<1>3. {u \in Uids : out.admitted[u] > 0} = {}
  BY <1>1
<1>4. [u \in Uids |-> Len(out.tokens[u])] = [u \in Uids |-> 0]
  BY <1>1
<1> QED BY <1>1, <1>2, <1>3, <1>4 DEF Contract!Init

\* scheduler.py keeps the contract of Engine: every UserMsg is dropped with its
\* tombstone, refused or served, every abort acknowledged behind the tokens that
\* were still due, admissions and tokens leave in the order promised, and a
\* rebuild waits until no request is held.
THEOREM SchedulerImplementsEngine == Spec => EngineSpec
<1>1. Init => Contract!Init
  BY ContractStart
<1>2. ControlInv /\ ContractInv /\ [Next]_vars => [Contract!Next]_(Contract!engine)
  BY ContractStep
<1> QED
  BY <1>1, <1>2, ControlInvariant, ContractInvariant, PTL DEF Spec, EngineSpec, Contract!Spec

(***************************************************************************)
(* The streams.                                                            *)
(***************************************************************************)

(* The types of what the stream argument looks at. *)
LEMMA StreamTypes ==
  ASSUME ControlInv, ContractInv, StreamInv
  PROVE  /\ req \in [Uids -> Reqs] /\ reply \in Seq(Replies)
         /\ pending_list \in Seq(PendingReqs)
         /\ out.tokens \in [Uids -> Seq(Vocab)] /\ out.finished \subseteq Uids
         /\ Old \in Seq(Entries) /\ New \in Seq(Entries)
         /\ Distinct(Old) /\ Distinct(New) /\ Distinct(reply)
         /\ pc # "drain" => reply = <<>>
         /\ token_pool \in [Tables -> [1 .. ConfigMaxSeqLen -> Vocab \cup {0}]]
<1>1. ControlTypes /\ BatchesOK /\ RepliesOK /\ OutTypes /\ DeviceOK
  BY DEF ControlInv, ContractInv, StreamInv
<1>2. Old \in Seq(Entries) /\ New \in Seq(Entries)
  BY <1>1 DEF ControlTypes, Batches, Old, New
<1> QED BY <1>1, <1>2 DEF ControlTypes, BatchesOK, RepliesOK, OutTypes, DeviceOK

\* A stream only changes with the reply list and the tokens sent.
LEMMA SentSame ==
  ASSUME reply' = reply, out'.tokens = out.tokens
  PROVE  \A u : Sent(u)' = Sent(u)
BY DEF Sent, new_tokens

\* The request that holds a row keeps its tokens when other rows change.
KeepsRow(u) ==
    Held(u)' => /\ Held(u) /\ req'[u].table_idx = req[u].table_idx
                /\ token_pool'[req[u].table_idx] = token_pool[req[u].table_idx]

SameSizes(u) ==
    /\ req'[u].n = req[u].n /\ req'[u].chunked = req[u].chunked
    /\ req'[u].cached_len = req[u].cached_len /\ req'[u].device_len = req[u].device_len
    /\ req'[u].output_len = req[u].output_len

SameTokens(u) ==
    /\ req'[u].input_ids = req[u].input_ids
    /\ req[u].aborted => req'[u].aborted

\* What is left of a pass that starts, goes on, or is over.
SameChunks ==
    Planning' => \/ adder'.chunked_list = <<>>
                 \/ Planning /\ adder'.chunked_list = adder.chunked_list

\* Steps that send nothing and launch nothing: requests may lose their row or
\* be marked, launched entries be dropped, queued ones come and go.
LEMMA SilentStream ==
  ASSUME ControlInv, ContractInv, StreamInv,
         \A u \in Uids : SameSizes(u) /\ SameTokens(u) /\ KeepsRow(u),
         \A u \in Uids : Processed(u)' = Processed(u),
         SameChunks,
         out'.tokens = out.tokens, out'.finished = out.finished, reply' = reply,
         \A i \in 1 .. Len(pending_list') : BudgetOK(pending_list'[i]),
         \A i \in 1 .. Len(Old') : \E j \in 1 .. Len(Old) : Old'[i] = Old[j],
         \A i \in 1 .. Len(New') : \E j \in 1 .. Len(New) : New'[i] = New[j],
         token_pool' \in [Tables -> [1 .. ConfigMaxSeqLen -> Vocab \cup {0}]]
  PROVE  StreamInv'
<1>1. \A u : Sent(u)' = Sent(u)
  BY SentSame
<1>2. \A u \in Uids : max_device_len(u)' = max_device_len(u)
  BY DEF SameSizes, max_device_len
<1>4. \A u \in Uids : Complete(u)' = Complete(u)
  BY <1>1, <1>2 DEF Complete
<1>5. BudgetsOK'
  <2>1. \A u \in Uids :
         IF req[u].n = 0 THEN req[u].device_len = 0 /\ req[u].cached_len = 0
         ELSE /\ req[u].cached_len <= req[u].device_len
              /\ req[u].device_len <= max_device_len(u)
              /\ req[u].output_len > 0 /\ max_device_len(u) <= ConfigMaxSeqLen
    BY DEF StreamInv, BudgetsOK
  <2>2. Planning' => \A k \in 1 .. Len(adder'.chunked_list) : BudgetOK(adder'.chunked_list[k])
    BY DEF SameChunks, StreamInv, BudgetsOK
  <2>3. \A u \in Uids :
         IF req'[u].n = 0 THEN req'[u].device_len = 0 /\ req'[u].cached_len = 0
         ELSE /\ req'[u].cached_len <= req'[u].device_len
              /\ req'[u].device_len <= max_device_len(u)'
              /\ req'[u].output_len > 0 /\ max_device_len(u)' <= ConfigMaxSeqLen
    BY <1>2, <2>1 DEF SameSizes
  <2> QED BY <2>2, <2>3 DEF BudgetsOK, BudgetOK
<1>6. ChunksOK'
  <2>1. ChunksOK
    BY DEF StreamInv
  <2> QED BY <1>1, <2>1 DEF ChunksOK, SameSizes, SameTokens
<1>7. HostOK'
  <2>1. HostOK
    BY DEF StreamInv
  <2>2. ASSUME NEW v \in Uids, Held(v)', ~req'[v].chunked
        PROVE  /\ req'[v].input_ids = Prompt[v] \o Sent(v)'
               /\ Len(req'[v].input_ids) < max_device_len(v)'
               /\ \A k \in 1 .. Len(Sent(v)') : Sent(v)'[k] # Eos
    <3>1. Held(v) /\ ~req[v].chunked /\ req'[v].input_ids = req[v].input_ids
      BY <2>2 DEF SameSizes, SameTokens, KeepsRow
    <3>2. v \in Holders
      BY <3>1 DEF Holders
    <3>3. /\ req[v].input_ids = Prompt[v] \o Sent(v)
          /\ Len(req[v].input_ids) < max_device_len(v)
          /\ \A k \in 1 .. Len(Sent(v)) : Sent(v)[k] # Eos
      BY <2>1, <3>1, <3>2 DEF HostOK
    <3>4. Sent(v)' = Sent(v) /\ max_device_len(v)' = max_device_len(v)
      BY <1>1, <1>2
    <3> QED BY <3>1, <3>3, <3>4
  <2> QED BY <2>2 DEF HostOK, Holders
<1>8. EndsOK'
  <2>1. EndsOK
    BY DEF StreamInv
  <2>2. \A u \in Uids : Ending(u)' <=> Ending(u)
    BY DEF Ending
  <2> QED BY <1>1, <1>4, <2>1, <2>2 DEF EndsOK
<1>9. DeviceOK'
  <2>1. ASSUME NEW u \in Uids, Held(u)'
        PROVE  RowOK(u)'
    <3>1. Held(u) /\ Device(u)' = Device(u)
      BY <2>1 DEF KeepsRow, Device
    <3>2. RowOK(u)
      BY <3>1 DEF StreamInv, DeviceOK, Holders
    <3>3. /\ req'[u].input_ids = req[u].input_ids /\ req'[u].device_len = req[u].device_len
          /\ req'[u].n = req[u].n /\ req'[u].chunked = req[u].chunked
          /\ req[u].aborted => req'[u].aborted
      BY DEF SameSizes, SameTokens
    <3>4. /\ \A i \in 1 .. Len(Old') : \E j \in 1 .. Len(Old) : Old'[i] = Old[j]
          /\ \A i \in 1 .. Len(New') : \E j \in 1 .. Len(New) : New'[i] = New[j]
      OBVIOUS
    <3> QED BY ONLY <3>1, <3>2, <3>3, <3>4 DEF RowOK
  <2> QED BY <2>1 DEF DeviceOK, Holders
<1> QED BY <1>5, <1>6, <1>7, <1>8, <1>9 DEF StreamInv

\* Steps that leave the requests and their rows alone.
LEMMA StillStream ==
  ASSUME ControlInv, ContractInv, StreamInv,
         UNCHANGED <<req, token_pool, reply>>,
         out'.tokens = out.tokens, out'.finished = out.finished,
         \A u \in Uids : Processed(u)' = Processed(u),
         SameChunks,
         \A i \in 1 .. Len(pending_list') : BudgetOK(pending_list'[i]),
         \A i \in 1 .. Len(Old') : \E j \in 1 .. Len(Old) : Old'[i] = Old[j],
         \A i \in 1 .. Len(New') : \E j \in 1 .. Len(New) : New'[i] = New[j]
  PROVE  StreamInv'
<1>1. \A u \in Uids : SameSizes(u) /\ SameTokens(u) /\ KeepsRow(u)
  BY DEF SameSizes, SameTokens, KeepsRow, Held
<1>2. token_pool' \in [Tables -> [1 .. ConfigMaxSeqLen -> Vocab \cup {0}]]
  BY StreamTypes
<1> QED BY <1>1, <1>2, SilentStream

\* Queueing a request: its output budget is cut to fit the row.
LEMMA QueuedBudget ==
  ASSUME ControlInv, StreamInv, NEW u \in Uids, UserQueued(u)
  PROVE  \A i \in 1 .. Len(pending_list') : BudgetOK(pending_list'[i])
<1> DEFINE len == Min({MaxTokens[u], max_seq_len - Len(Prompt[u])})
           p   == [uid |-> u, chunked |-> FALSE, output_len |-> len]
<1>1. max_seq_len - Len(Prompt[u]) > 0 /\ pending_list' = Append(pending_list, p)
  BY DEF UserQueued
<1> HIDE DEF len
<1>2. Len(Prompt[u]) + len <= ConfigMaxSeqLen
  BY <1>1, NewEntry DEF len
<1>3. BudgetOK(p)
  BY <1>2 DEF BudgetOK
<1>4. pending_list \in Seq(PendingReqs) /\ \A i \in 1 .. Len(pending_list) : BudgetOK(pending_list[i])
  BY DEF ControlInv, ControlTypes, StreamInv, BudgetsOK
<1> HIDE DEF p
<1> QED BY ONLY <1>1, <1>3, <1>4

\* A UserMsg, a rebuild request or the end of receive_msg.
LEMMA ReceiveStream ==
  ASSUME ControlInv, ContractInv, StreamInv,
         \/ \E u \in Uids : UserAborted(u) \/ UserTooLong(u) \/ UserQueued(u)
         \/ \E n \in RebuildSizes : RebuildReceived(n)
         \/ EndReceive \/ RebuildRejected
  PROVE  StreamInv'
<1>1. /\ UNCHANGED <<req, token_pool, reply, last_data, ongoing, drain>>
      /\ pc \in {"idle", "recv"} /\ pc' \in {"recv", "plan"}
      /\ pc' = "plan" => adder'.reqs = <<>> /\ adder'.chunked_list = <<>>
  <2>1. ASSUME NEW u \in Uids, UserAborted(u) \/ UserTooLong(u) \/ UserQueued(u)
        PROVE  /\ UNCHANGED <<req, token_pool, reply, last_data, ongoing, drain>>
               /\ pc \in {"idle", "recv"} /\ pc' = "recv"
    BY <2>1 DEF UserAborted, UserTooLong, UserQueued, Receiving, batches, device
  <2>2. ASSUME NEW n \in RebuildSizes, RebuildReceived(n)
        PROVE  /\ UNCHANGED <<req, token_pool, reply, last_data, ongoing, drain>>
               /\ pc \in {"idle", "recv"} /\ pc' = "recv"
    BY <2>2 DEF RebuildReceived, Receiving, batches, device
  <2>3. ASSUME EndReceive \/ RebuildRejected
        PROVE  /\ UNCHANGED <<req, token_pool, reply, last_data, ongoing, drain>>
               /\ pc = "recv" /\ pc' = "plan"
               /\ adder'.reqs = <<>> /\ adder'.chunked_list = <<>>
    BY <2>3 DEF EndReceive, RebuildRejected, StartPlan, batches, device
  <2> QED BY <2>1, <2>2, <2>3
<1>2. out'.tokens = out.tokens /\ out'.finished = out.finished
  BY ContractTypes
     DEF UserAborted, UserTooLong, UserQueued, RebuildReceived, EndReceive, RebuildRejected
<1>3. \A i \in 1 .. Len(pending_list') : BudgetOK(pending_list'[i])
  <2>1. CASE \E u \in Uids : UserQueued(u)
    BY <2>1, QueuedBudget
  <2>2. CASE pending_list' = pending_list
    BY <2>2 DEF StreamInv, BudgetsOK
  <2> QED
    BY <2>1, <2>2 DEF UserAborted, UserTooLong, RebuildReceived, EndReceive, RebuildRejected
<1>4. \A u \in Uids : Processed(u)' = Processed(u)
  BY <1>1 DEF Processed, Planning
<1>5. SameChunks
  BY <1>1 DEF SameChunks, Planning
<1>6. /\ \A i \in 1 .. Len(Old') : \E j \in 1 .. Len(Old) : Old'[i] = Old[j]
      /\ \A i \in 1 .. Len(New') : \E j \in 1 .. Len(New) : New'[i] = New[j]
  BY <1>1 DEF Old, New
<1> QED BY <1>1, <1>2, <1>3, <1>4, <1>5, <1>6, StillStream

\* A pass that ends with nothing to launch, or in an exception.
LEMMA NoLaunchStream ==
  ASSUME ControlInv, ContractInv, StreamInv, ChunkMultimodal \/ NoLaunch \/ UNCHANGED vars
  PROVE  StreamInv'
<1>1. UNCHANGED <<req, token_pool, reply, out, pending_list>>
  BY DEF ChunkMultimodal, NoLaunch, vars, batches, device
<1>2. /\ \A u \in Uids : Processed(u)' = Processed(u)
      /\ SameChunks
      /\ \A i \in 1 .. Len(Old') : \E j \in 1 .. Len(Old) : Old'[i] = Old[j]
      /\ \A i \in 1 .. Len(New') : \E j \in 1 .. Len(New) : New'[i] = New[j]
  <2>1. CASE NoLaunch
    <3>1. /\ pc = "plan" /\ pc' = "drain" /\ adder.reqs = <<>> /\ ongoing' = NoBatch
          /\ last_data' = last_data /\ drain' = IF Overlap THEN last_data.reqs ELSE ongoing'.reqs
      BY <2>1 DEF NoLaunch, Refused, StartDrain
    <3>2. Old = last_data.reqs /\ New' = <<>> /\ Old' \in {Old, <<>>}
      BY <3>1 DEF Old, New, NoBatch
    <3> QED BY <3>1, <3>2 DEF Processed, SameChunks, Planning
  <2>2. CASE ChunkMultimodal
    <3>1. /\ pc = "plan" /\ pc' = "raise_multimodal"
          /\ UNCHANGED <<adder, last_data, ongoing, drain>>
      BY <2>2 DEF ChunkMultimodal, Fits, CanTry, batches
    <3> QED BY <3>1 DEF Processed, SameChunks, Planning, Old, New
  <2>3. CASE UNCHANGED vars
    BY <2>3 DEF vars, batches, Processed, SameChunks, Planning, Old, New
  <2> QED BY <2>1, <2>2, <2>3
<1>3. \A i \in 1 .. Len(pending_list') : BudgetOK(pending_list'[i])
  BY <1>1 DEF StreamInv, BudgetsOK
<1> QED BY <1>1, <1>2, <1>3, StillStream

\* Freeing the row of u blanks it and no other.
LEMMA RowFreed ==
  ASSUME ControlInv, ContractInv, StreamInv, NEW u \in Uids, NEW r \in Reqs,
         NEW commit, r.table_idx = req[u].table_idx, Held(u), FreeRow(u, r, commit)
  PROVE  /\ \A v \in Uids : KeepsRow(v)
         /\ token_pool' \in [Tables -> [1 .. ConfigMaxSeqLen -> Vocab \cup {0}]]
<1>1. /\ req' \in [Uids -> Reqs] /\ req'[u] = [r EXCEPT !.table_idx = NoTable]
      /\ \A v \in Uids \ {u} : req'[v] = req[v]
  BY FreeRowTables DEF ControlInv
<1>2. ~Held(u)'
  BY <1>1 DEF Held, Reqs
<1>3. token_pool' = [token_pool EXCEPT ![r.table_idx] = EmptyRow]
  BY DEF FreeRow
<1>4. EmptyRow \in [1 .. ConfigMaxSeqLen -> Vocab \cup {0}]
  BY DEF EmptyRow
<1>5. \A v \in Uids \ {u} : Held(v) => req[v].table_idx # r.table_idx
  BY DEF ControlInv, TablesOK, Holders
<1>6. \A v \in Uids : Held(v) => req[v].table_idx \in Tables
  BY DEF ControlInv, ControlTypes, Reqs, Held
<1>7. ASSUME NEW v \in Uids, Held(v)'
      PROVE  Held(v) /\ req'[v].table_idx = req[v].table_idx
             /\ token_pool'[req[v].table_idx] = token_pool[req[v].table_idx]
  BY <1>1, <1>2, <1>3, <1>5, <1>6, <1>7, StreamTypes DEF Held
<1> QED BY <1>3, <1>4, <1>7, StreamTypes DEF KeepsRow

\* _execute_pending_rebuild clears rows nobody holds.
LEMMA RebuildDoneStream ==
  ASSUME ControlInv, ContractInv, StreamInv, RebuildDone
  PROVE  StreamInv'
<1>1. /\ UNCHANGED <<req, pending_list, reply, last_data, ongoing, drain>>
      /\ pc = "recv" /\ pc' = "plan" /\ RebuildDue
      /\ adder'.reqs = <<>> /\ adder'.chunked_list = <<>>
      /\ token_pool' = [t \in Tables |-> EmptyRow]
  BY DEF RebuildDone, StartPlan, batches
<1>2. out'.tokens = out.tokens /\ out'.finished = out.finished
  BY ContractTypes DEF RebuildDone
<1>3. \A u \in Uids : ~Held(u)
  BY <1>1, NobodyHolds DEF Holders
<1>4. \A u \in Uids : SameSizes(u) /\ SameTokens(u) /\ KeepsRow(u)
  BY <1>1, <1>3 DEF SameSizes, SameTokens, KeepsRow, Held
<1>5. (\A u \in Uids : Processed(u)' = Processed(u)) /\ SameChunks
  BY <1>1 DEF Processed, Planning, SameChunks
<1>6. /\ \A i \in 1 .. Len(Old') : \E j \in 1 .. Len(Old) : Old'[i] = Old[j]
      /\ \A i \in 1 .. Len(New') : \E j \in 1 .. Len(New) : New'[i] = New[j]
  BY <1>1 DEF Old, New
<1>7. \A i \in 1 .. Len(pending_list') : BudgetOK(pending_list'[i])
  BY <1>1 DEF StreamInv, BudgetsOK
<1>8. token_pool' \in [Tables -> [1 .. ConfigMaxSeqLen -> Vocab \cup {0}]]
  BY <1>1 DEF EmptyRow
<1> QED BY <1>1, <1>2, <1>4, <1>5, <1>6, <1>7, <1>8, SilentStream

\* An abort.
LEMMA AbortStream ==
  ASSUME ControlInv, ContractInv, StreamInv, NEW u \in Uids,
         AbortUnheld(u) \/ AbortInFlight(u) \/ AbortHeld(u)
  PROVE  StreamInv'
<1>1. AbortReceived(u)
  BY DEF AbortUnheld, AbortInFlight, AbortHeld
<1>2. /\ pc \in {"idle", "recv"} /\ pc' = "recv" /\ Old' = Old /\ New' = New
      /\ out' = out /\ reply' = reply
      /\ \A j \in 1 .. Len(pending_list') : \E i \in 1 .. Len(pending_list) :
                pending_list'[j] = pending_list[i]
  BY <1>1, AbortReceivedFacts
<1>3. (\A v \in Uids : Processed(v)' = Processed(v)) /\ SameChunks
  BY <1>2 DEF Processed, Planning, SameChunks
<1>4. /\ \A i \in 1 .. Len(Old') : \E j \in 1 .. Len(Old) : Old'[i] = Old[j]
      /\ \A i \in 1 .. Len(New') : \E j \in 1 .. Len(New) : New'[i] = New[j]
  BY <1>2
<1>5. \A i \in 1 .. Len(pending_list') : BudgetOK(pending_list'[i])
  BY <1>2 DEF StreamInv, BudgetsOK
<1>6. PICK r \in Reqs : r = req[u]
  BY ContractTypes
<1>7. /\ \A v \in Uids : SameSizes(v) /\ SameTokens(v) /\ KeepsRow(v)
      /\ token_pool' \in [Tables -> [1 .. ConfigMaxSeqLen -> Vocab \cup {0}]]
  <2>1. CASE UNCHANGED <<req, device>>
    BY <2>1, StreamTypes DEF SameSizes, SameTokens, KeepsRow, Held, device
  <2>2. CASE AbortInFlight(u)
    <3>1. req' = [req EXCEPT ![u].aborted = TRUE] /\ token_pool' = token_pool
      BY <2>2 DEF AbortInFlight, device
    <3>2. /\ \A v \in Uids \ {u} : req'[v] = req[v]
          /\ req'[u] = [r EXCEPT !.aborted = TRUE]
      BY <1>6, <3>1, ContractTypes
    <3>3. /\ req'[u].n = r.n /\ req'[u].chunked = r.chunked /\ req'[u].table_idx = r.table_idx
          /\ req'[u].cached_len = r.cached_len /\ req'[u].device_len = r.device_len
          /\ req'[u].output_len = r.output_len /\ req'[u].input_ids = r.input_ids
          /\ req'[u].aborted
      BY <3>2 DEF Reqs
    <3> QED BY <1>6, <3>1, <3>2, <3>3, StreamTypes DEF SameSizes, SameTokens, KeepsRow, Held
  <2>3. CASE AbortHeld(u) /\ Held(u)
    <3>1. PICK commit : FreeRow(u, r, commit)
      BY <1>6, <2>3 DEF AbortHeld, Held
    <3>2. /\ \A v \in Uids \ {u} : req'[v] = req[v]
          /\ req'[u] = [r EXCEPT !.table_idx = NoTable]
      BY <1>6, <2>3, <3>1, FreeRowTables DEF ControlInv
    <3>3. /\ req'[u].n = r.n /\ req'[u].chunked = r.chunked
          /\ req'[u].cached_len = r.cached_len /\ req'[u].device_len = r.device_len
          /\ req'[u].output_len = r.output_len /\ req'[u].input_ids = r.input_ids
          /\ req'[u].aborted = r.aborted
      BY <3>2 DEF Reqs
    <3>4. \A v \in Uids : SameSizes(v) /\ SameTokens(v)
      BY <1>6, <3>2, <3>3 DEF SameSizes, SameTokens
    <3>5. /\ \A v \in Uids : KeepsRow(v)
          /\ token_pool' \in [Tables -> [1 .. ConfigMaxSeqLen -> Vocab \cup {0}]]
      BY <1>6, <2>3, <3>1, RowFreed
    <3> QED BY <3>4, <3>5
  <2> QED BY <2>1, <2>2, <2>3 DEF AbortUnheld, AbortHeld, Held
<1> QED BY <1>2, <1>3, <1>4, <1>5, <1>7, SilentStream

\* The visits that reply nothing.
LEMMA SilentVisitStream ==
  ASSUME ControlInv, ContractInv, StreamInv, DrainChunk \/ DrainAborted \/ DrainStale
  PROVE  StreamInv'
<1>1. Visit /\ reply' = reply
  BY DEF DrainChunk, DrainAborted, DrainStale
<1>2. PICK u \in Uids : u = entry.uid
  BY <1>1, VisitFacts
<1>3. /\ pc = "drain" /\ pc' = "drain" /\ New' = New
      /\ \A i \in 1 .. Len(Old') : i + 1 \in 1 .. Len(Old) /\ Old'[i] = Old[i + 1]
      /\ UNCHANGED <<pending_list, out>>
  BY <1>1, VisitFacts DEF Visit
<1>4. (\A v \in Uids : Processed(v)' = Processed(v)) /\ SameChunks
  BY <1>3 DEF Processed, Planning, SameChunks
<1>5. /\ \A i \in 1 .. Len(Old') : \E j \in 1 .. Len(Old) : Old'[i] = Old[j]
      /\ \A i \in 1 .. Len(New') : \E j \in 1 .. Len(New) : New'[i] = New[j]
  BY <1>3
<1>6. \A i \in 1 .. Len(pending_list') : BudgetOK(pending_list'[i])
  BY <1>3 DEF StreamInv, BudgetsOK
<1>7. PICK r \in Reqs : r = req[u]
  BY ContractTypes
<1>8. /\ \A v \in Uids : SameSizes(v) /\ SameTokens(v) /\ KeepsRow(v)
      /\ token_pool' \in [Tables -> [1 .. ConfigMaxSeqLen -> Vocab \cup {0}]]
  <2>1. CASE UNCHANGED <<req, token_pool>>
    BY <2>1, StreamTypes DEF SameSizes, SameTokens, KeepsRow, Held
  <2>2. CASE FreeLazily(u, r) /\ r.table_idx = NoTable
    <3>1. req' = [req EXCEPT ![u] = r] /\ token_pool' = token_pool
      BY <2>2 DEF FreeLazily
    <3>2. req' = req
      BY <1>7, <3>1, ContractTypes
    <3> QED BY <2>1, <3>1, <3>2
  <2>3. CASE FreeLazily(u, r) /\ r.table_idx # NoTable
    <3>1. PICK commit : FreeRow(u, r, commit)
      BY <2>3 DEF FreeLazily
    <3>6. Held(u)
      BY <1>7, <2>3 DEF Held
    <3>2. /\ \A v \in Uids \ {u} : req'[v] = req[v]
          /\ req'[u] = [r EXCEPT !.table_idx = NoTable]
      BY <1>7, <3>6, <3>1, FreeRowTables DEF ControlInv
    <3>3. /\ req'[u].n = r.n /\ req'[u].chunked = r.chunked
          /\ req'[u].cached_len = r.cached_len /\ req'[u].device_len = r.device_len
          /\ req'[u].output_len = r.output_len /\ req'[u].input_ids = r.input_ids
          /\ req'[u].aborted = r.aborted
      BY <3>2 DEF Reqs
    <3>4. \A v \in Uids : SameSizes(v) /\ SameTokens(v)
      BY <1>7, <3>2, <3>3 DEF SameSizes, SameTokens
    <3>5. /\ \A v \in Uids : KeepsRow(v)
          /\ token_pool' \in [Tables -> [1 .. ConfigMaxSeqLen -> Vocab \cup {0}]]
      BY <1>7, <3>6, <3>1, RowFreed
    <3> QED BY <3>4, <3>5
  <2>4. UNCHANGED <<req, token_pool>> \/ FreeLazily(u, r)
    BY <1>2, <1>7 DEF DrainChunk, DrainAborted, DrainStale, object
  <2> QED BY <2>1, <2>2, <2>3, <2>4
<1> QED BY <1>1, <1>3, <1>4, <1>5, <1>6, <1>8, SilentStream

\* A stream is a sequence of tokens the sampler returned.
LEMMA SentType ==
  ASSUME ControlInv, ContractInv, NEW u \in Uids
  PROVE  /\ out.tokens[u] \in Seq(Vocab) /\ new_tokens(u) \in Seq(Vocab) /\ Sent(u) \in Seq(Vocab)
         /\ (\A i \in 1 .. Len(reply) : reply[i].uid # u) => Sent(u) = out.tokens[u]
<1>1. Distinct(reply) /\ Len(reply) \in Nat /\ out.tokens[u] \in Seq(Vocab)
  BY ContractTypes DEF ContractInv, RepliesOK
<1>2. CASE \A i \in 1 .. Len(reply) : reply[i].uid # u
  <2>1. new_tokens(u) = <<>>
    BY <1>1, <1>2, NewTokens
  <2>2. Sent(u) = out.tokens[u]
    BY <1>1, <2>1, ConcatEmptySeq DEF Sent
  <2> QED BY <1>1, <2>1, <2>2
<1>3. CASE \E i \in 1 .. Len(reply) : reply[i].uid = u
  <2>1. PICK i \in 1 .. Len(reply) : reply[i].uid = u
    BY <1>3
  <2>2. new_tokens(u) = <<reply[i].token>> /\ reply[i].token \in Vocab
    BY <1>1, <2>1, NewTokens, ReplyUids
  <2>3. new_tokens(u) \in Seq(Vocab)
    BY <2>2
  <2> QED BY <1>1, <1>3, <2>3, ConcatProperties DEF Sent
<1> QED BY <1>2, <1>3

\* A reply joins the list: the stream of its request grows by its token.
LEMMA RepliedStream ==
  ASSUME ControlInv, ContractInv, Sampled, NEW u \in Uids, u = entry.uid
  PROVE  /\ out' = out /\ entry.token \in Vocab
         /\ Len(reply') = Len(reply) + 1 /\ Len(reply) \in Nat
         /\ \A i \in 1 .. Len(reply) : reply'[i] = reply[i] /\ reply[i].uid \in Uids \ {u}
         /\ reply'[Len(reply) + 1].uid = u /\ (reply'[Len(reply) + 1].finished <=> ends)
         /\ \A v \in Uids \ {u} : Sent(v)' = Sent(v)
         /\ Sent(u)' = Append(Sent(u), entry.token)
         /\ u \notin out.finished
<1>1. Visit /\ Held(u) /\ out' = out
  BY SampledFacts DEF Sampled, Visit
<1>2. /\ 1 \in 1 .. Len(drain) /\ drain[1].uid = u /\ entry.token \in Vocab /\ pc = "drain"
  <2>1. Old[1] = entry /\ Len(Old) \in Nat \ {0} /\ Old = drain /\ entry \in Entries /\ pc = "drain"
    BY <1>1, VisitFacts
  <2> QED BY <2>1 DEF Entries
<1>3. PICK b \in BOOLEAN : b = ends
  BY DEF ends
<1> DEFINE m == [uid |-> u, token |-> entry.token, finished |-> b]
<1>4. reply' = Append(reply, m) /\ m.uid = u /\ m.token = entry.token /\ m.finished = b
  BY <1>3 DEF Sampled
<1> HIDE DEF m
<1>5. /\ Len(reply') = Len(reply) + 1 /\ Len(reply) \in Nat
      /\ \A i \in 1 .. Len(reply) : reply'[i] = reply[i]
      /\ reply'[Len(reply) + 1] = m
  BY <1>4, ContractTypes
<1>6. /\ \A i \in 1 .. Len(reply') : i \in 1 .. Len(reply) \/ i = Len(reply) + 1
      /\ \A i \in 1 .. Len(reply) : i \in 1 .. Len(reply')
      /\ Len(reply) + 1 \in 1 .. Len(reply')
      /\ Len(reply') \in Nat
  BY ONLY <1>5
<1>7. \A i \in 1 .. Len(reply) : reply[i].uid \in Uids \ {u}
  BY <1>2, ReplyUids DEF ContractInv, RepliesOK
<1>8. Distinct(reply) /\ Distinct(reply')
  BY <1>4, <1>5, <1>6, <1>7 DEF ContractInv, RepliesOK, Distinct
<1>9. ASSUME NEW v \in Uids \ {u}
      PROVE  Sent(v)' = Sent(v)
  <2>1. TokensIn(reply', v) = TokensIn(reply, v)
    <3>1. CASE \E i \in 1 .. Len(reply) : reply[i].uid = v
      <4>1. PICK i \in 1 .. Len(reply) : reply[i].uid = v
        BY <3>1
      <4>2. i \in 1 .. Len(reply') /\ reply'[i] = reply[i]
        BY <1>5, <1>6
      <4>3. TokensIn(reply, v) = <<reply[i].token>>
        BY <1>5, <1>8, <4>1, TokensInReplies
      <4>4. TokensIn(reply', v) = <<reply'[i].token>>
        BY <1>6, <1>8, <4>1, <4>2, TokensInReplies
      <4> QED BY <4>2, <4>3, <4>4
    <3>2. CASE \A i \in 1 .. Len(reply) : reply[i].uid # v
      <4>1. \A i \in 1 .. Len(reply') : reply'[i].uid # v
        BY <1>4, <1>5, <1>6, <3>2
      <4>2. TokensIn(reply, v) = <<>> /\ TokensIn(reply', v) = <<>>
        BY <1>5, <1>6, <1>8, <3>2, <4>1, TokensInReplies
      <4> QED BY <4>2
    <3> QED BY <3>1, <3>2
  <2> QED BY <1>1, <2>1 DEF Sent, new_tokens
<1>10. Sent(u)' = Append(Sent(u), entry.token)
  <2>1. TokensIn(reply', u) = <<entry.token>>
    <3>1. PICK k \in 1 .. Len(reply') : reply'[k].uid = u /\ reply'[k].token = entry.token
      BY <1>4, <1>5, <1>6
    <3>2. TokensIn(reply', u) = <<reply'[k].token>>
      BY <1>6, <1>8, <3>1, TokensInReplies
    <3> QED BY <3>1, <3>2
  <2>2. Sent(u) = out.tokens[u] /\ out.tokens[u] \in Seq(Vocab)
    BY <1>7, SentType
  <2>3. Sent(u)' = out.tokens[u] \o <<entry.token>>
    BY <1>1, <2>1 DEF Sent, new_tokens
  <2>4. out.tokens[u] \o <<entry.token>> = Append(out.tokens[u], entry.token)
    BY ONLY <2>2, <1>2
  <2> QED BY <2>2, <2>3, <2>4
<1>11. u \notin out.finished
  BY <1>1 DEF ContractInv, EndedOK
<1> QED BY <1>1, <1>2, <1>3, <1>4, <1>5, <1>7, <1>9, <1>10, <1>11

\* Appending keeps what was there.
LEMMA Appending ==
  ASSUME NEW S, NEW s \in Seq(S), NEW e \in S
  PROVE  /\ Append(s, e) \in Seq(S) /\ Len(Append(s, e)) = Len(s) + 1 /\ Len(s) \in Nat
         /\ \A k \in 1 .. Len(s) : Append(s, e)[k] = s[k] /\ k \in 1 .. Len(Append(s, e))
         /\ Append(s, e)[Len(s) + 1] = e
         /\ \A k \in 1 .. Len(Append(s, e)) : k \in 1 .. Len(s) \/ k = Len(s) + 1
         /\ Last(Append(s, e)) = e
BY DEF Last

\* A visit that replies: append_host takes the next token of the row.
LEMMA ReplyingVisitStream ==
  ASSUME ControlInv, ContractInv, StreamInv, Sampled, NEW u \in Uids, u = entry.uid,
         \A v \in Uids \ {u} : req'[v] = req[v],
         SameSizes(u), req'[u].aborted = req[u].aborted,
         req'[u].input_ids = Append(req[u].input_ids, entry.token),
         Held(u)' <=> ~ends,
         running_reqs' \subseteq running_reqs,
         \A v \in Uids : KeepsRow(v),
         token_pool' \in [Tables -> [1 .. ConfigMaxSeqLen -> Vocab \cup {0}]]
  PROVE  StreamInv'
<1>1. /\ out' = out /\ entry.token \in Vocab
      /\ Len(reply') = Len(reply) + 1 /\ Len(reply) \in Nat
      /\ \A i \in 1 .. Len(reply) : reply'[i] = reply[i] /\ reply[i].uid \in Uids \ {u}
      /\ reply'[Len(reply) + 1].uid = u /\ (reply'[Len(reply) + 1].finished <=> ends)
      /\ \A v \in Uids \ {u} : Sent(v)' = Sent(v)
      /\ Sent(u)' = Append(Sent(u), entry.token)
      /\ u \notin out.finished
  BY RepliedStream
<1>2. /\ Held(u) /\ ~req[u].chunked /\ ~req[u].aborted /\ Visit
      /\ Len(req[u].input_ids) \in Nat
  BY SampledFacts
<1>3. /\ pc = "drain" /\ pc' = "drain" /\ New' = New /\ Old[1] = entry
      /\ Len(Old) \in Nat \ {0}
      /\ \A i \in 1 .. Len(Old') : i + 1 \in 1 .. Len(Old) /\ Old'[i] = Old[i + 1] /\ Old'[i].uid # u
      /\ UNCHANGED <<pending_list, adder>>
      /\ req[u].n >= 1 /\ entry.n = req[u].n
  <2>1. req[u].n >= 1
    BY <1>2, VisitFacts
  <2>2. entry.n = req[u].n
    BY <1>2, InOld DEF Sampled
  <2> QED BY <1>2, <2>1, <2>2, VisitFacts DEF Visit
<1>4. /\ Sent(u) \in Seq(Vocab) /\ req[u].input_ids \in Seq(Vocab) /\ Prompt[u] \in Seq(Vocab)
      /\ req[u] \in Reqs
  BY SentType, ContractTypes, SchedulerAssumption DEF Reqs
<1>5. /\ req[u].input_ids = Prompt[u] \o Sent(u)
      /\ Len(req[u].input_ids) < max_device_len(u)
      /\ \A k \in 1 .. Len(Sent(u)) : Sent(u)[k] # Eos
  BY <1>2 DEF StreamInv, HostOK, Holders
<1>6. \A v \in Uids : /\ SameSizes(v) /\ max_device_len(v)' = max_device_len(v)
                      /\ Processed(v)' = Processed(v) /\ req'[v].aborted = req[v].aborted
  BY <1>3 DEF SameSizes, max_device_len, Processed, Planning
<1>7. /\ Len(Sent(u)') = Len(Sent(u)) + 1 /\ Len(Sent(u)) \in Nat
      /\ \A k \in 1 .. Len(Sent(u)) : Sent(u)'[k] = Sent(u)[k]
      /\ Sent(u)'[Len(Sent(u)) + 1] = entry.token /\ Last(Sent(u)') = entry.token
  BY <1>1, <1>4, Appending
<1>8. /\ req'[u].input_ids = Prompt[u] \o Sent(u)'
      /\ Len(req'[u].input_ids) = Len(req[u].input_ids) + 1
      /\ Len(req'[u].input_ids) = Len(Prompt[u]) + Len(Sent(u)')
  <2>1. Append(Prompt[u] \o Sent(u), entry.token) = Prompt[u] \o Append(Sent(u), entry.token)
    <3>1. PICK p \in Seq(Vocab), q \in Seq(Vocab), e \in Vocab :
            p = Prompt[u] /\ q = Sent(u) /\ e = entry.token
      BY <1>1, <1>4
    <3>2. Append(p \o q, e) = p \o Append(q, e)
      <4>1. p \o q \in Seq(Vocab) /\ <<e>> \in Seq(Vocab)
        BY <3>1, ConcatProperties
      <4>2. Append(p \o q, e) = (p \o q) \o <<e>>
        BY ONLY <4>1, e \in Vocab, AppendIsConcat
      <4>3. Append(q, e) = q \o <<e>>
        BY ONLY q \in Seq(Vocab), e \in Vocab, AppendIsConcat
      <4>4. (p \o q) \o <<e>> = p \o (q \o <<e>>)
        BY ONLY <4>1, p \in Seq(Vocab), q \in Seq(Vocab), ConcatAssociative
      <4> QED BY ONLY <4>2, <4>3, <4>4
    <3> QED BY <3>1, <3>2
  <2>2. Len(Append(req[u].input_ids, entry.token)) = Len(req[u].input_ids) + 1
    BY <1>1, <1>4, Appending
  <2>3. Len(Prompt[u] \o Sent(u)') = Len(Prompt[u]) + Len(Sent(u)')
    <3>1. Append(Sent(u), entry.token) \in Seq(Vocab)
      BY <1>1, <1>4, Appending
    <3> QED BY <1>1, <1>4, <3>1, ConcatProperties
  <2> QED BY <1>1, <1>5, <2>1, <2>2, <2>3
<1>9. ends <=> Len(req'[u].input_ids) >= max_device_len(u) \/ entry.token = Eos
  BY DEF ends, appended, object
<1>10. max_device_len(u) \in Nat
  <2>1. Len(Prompt[u]) \in Nat
    BY <1>4, LenProperties
  <2>2. req[u].output_len \in Nat
    BY <1>4, SchedulerAssumption DEF Reqs
  <2> QED BY ONLY <2>1, <2>2 DEF max_device_len
<1>11. BudgetsOK'
  <2>1. BudgetsOK
    BY DEF StreamInv
  <2>2. ~Planning'
    BY <1>3 DEF Planning
  <2>3. \A i \in 1 .. Len(pending_list') : BudgetOK(pending_list'[i])
    BY <1>3, <2>1 DEF BudgetsOK
  <2>4. \A v \in Uids :
         IF req'[v].n = 0 THEN req'[v].device_len = 0 /\ req'[v].cached_len = 0
         ELSE /\ req'[v].cached_len <= req'[v].device_len
              /\ req'[v].device_len <= max_device_len(v)'
              /\ req'[v].output_len > 0 /\ max_device_len(v)' <= ConfigMaxSeqLen
    BY <1>6, <2>1 DEF BudgetsOK, SameSizes
  <2> QED BY ONLY <2>2, <2>3, <2>4 DEF BudgetsOK, BudgetOK
<1>12. ChunksOK'
  <2>1. ChunksOK
    BY DEF StreamInv
  <2>2. req'[u].n # 0 /\ ~req'[u].chunked
    BY <1>2, <1>3 DEF SameSizes
  <2> QED BY <1>1, <1>6, <2>1, <2>2 DEF ChunksOK
<1>13. HostOK'
  <2>1. ASSUME NEW v \in Uids, Held(v)', ~req'[v].chunked
        PROVE  /\ req'[v].input_ids = Prompt[v] \o Sent(v)'
               /\ Len(req'[v].input_ids) < max_device_len(v)'
               /\ \A k \in 1 .. Len(Sent(v)') : Sent(v)'[k] # Eos
    <3>1. CASE v = u
      <4>1. ~ends
        BY <2>1, <3>1
      <4>2. Len(req'[u].input_ids) < max_device_len(u) /\ entry.token # Eos
        BY <1>2, <1>8, <1>9, <1>10, <4>1
      <4>3. \A k \in 1 .. Len(Sent(u)') : k \in 1 .. Len(Sent(u)) \/ k = Len(Sent(u)) + 1
        BY ONLY <1>7
      <4> QED BY <1>5, <1>6, <1>7, <1>8, <3>1, <4>2, <4>3
    <3>2. CASE v # u
      <4>1. Held(v) /\ ~req[v].chunked /\ req'[v] = req[v]
        BY <2>1, <3>2 DEF KeepsRow
      <4>2. /\ req[v].input_ids = Prompt[v] \o Sent(v)
            /\ Len(req[v].input_ids) < max_device_len(v)
            /\ \A k \in 1 .. Len(Sent(v)) : Sent(v)[k] # Eos
        BY <4>1 DEF StreamInv, HostOK, Holders
      <4>3. Sent(v)' = Sent(v) /\ max_device_len(v)' = max_device_len(v)
        BY <1>1, <1>6, <3>2
      <4> QED BY ONLY <4>1, <4>2, <4>3
    <3> QED BY <3>1, <3>2
  <2> QED BY <2>1 DEF HostOK, Holders
<1>14. EndsOK'
  <2>1. EndsOK
    BY DEF StreamInv
  <2>2. \A i \in 1 .. Len(reply') : i \in 1 .. Len(reply) \/ i = Len(reply) + 1
    BY ONLY <1>1
  <2>3. ASSUME NEW v \in Uids \ {u}
        PROVE  /\ \A k \in 1 .. Len(Sent(v)') - 1 : Sent(v)'[k] # Eos
               /\ Ending(v)' => Complete(v)'
    <3>1. Sent(v)' = Sent(v) /\ max_device_len(v)' = max_device_len(v)
      BY <1>1, <1>6
    <3>2. Ending(v)' => Ending(v)
      <4>1. ASSUME NEW i \in 1 .. Len(reply'), reply'[i].uid = v
            PROVE  i \in 1 .. Len(reply) /\ reply'[i] = reply[i]
        BY <1>1, <2>2, <4>1
      <4> QED BY <1>1, <4>1 DEF Ending
    <3>3. Complete(v)' <=> Complete(v)
      BY <3>1 DEF Complete
    <3> QED BY <2>1, <3>1, <3>2, <3>3 DEF EndsOK
  <2>4. \A k \in 1 .. Len(Sent(u)') - 1 : k \in 1 .. Len(Sent(u))
    BY ONLY <1>7
  <2>5. \A k \in 1 .. Len(Sent(u)') - 1 : Sent(u)'[k] # Eos
    BY <1>5, <1>7, <2>4
  <2>6. ASSUME ends
        PROVE  Complete(u)'
    <3>1. Len(Sent(u)') > 0
      BY ONLY <1>7
    <3>2. CASE entry.token = Eos
      BY <1>7, <3>1, <3>2 DEF Complete
    <3>3. CASE Len(req'[u].input_ids) >= max_device_len(u)
      <4>1. Len(Prompt[u]) + Len(Sent(u)') = max_device_len(u)
        <5> DEFINE n == Len(req[u].input_ids)
        <5>1. n \in Nat /\ n < max_device_len(u) /\ n + 1 >= max_device_len(u)
              /\ n + 1 = Len(Prompt[u]) + Len(Sent(u)')
          BY <1>2, <1>5, <1>8, <3>3
        <5> HIDE DEF n
        <5> QED BY ONLY <1>10, <5>1
      <4> QED BY <1>6, <3>1, <4>1 DEF Complete
    <3> QED BY <1>9, <2>6, <3>2, <3>3
  <2>7. Ending(u)' => ends
    <3>1. ASSUME NEW i \in 1 .. Len(reply'), reply'[i].uid = u, reply'[i].finished
          PROVE  ends
      BY <1>1, <2>2, <3>1
    <3> QED BY <1>1, <3>1 DEF Ending
  <2> QED BY <2>3, <2>5, <2>6, <2>7 DEF EndsOK
<1>15. DeviceOK'
  <2>1. ASSUME NEW v \in Uids, Held(v)'
        PROVE  RowOK(v)'
    <3>1. Held(v) /\ Device(v)' = Device(v)
      BY <2>1 DEF KeepsRow, Device
    <3>2. RowOK(v)
      BY <3>1 DEF StreamInv, DeviceOK, Holders
    <3>3. CASE v # u
      <4>1. req'[v] = req[v]
        BY <3>3
      <4>2. \A i \in 1 .. Len(Old') : \E j \in 1 .. Len(Old) : Old'[i] = Old[j]
        BY <1>3
      <4>3. New' = New
        BY <1>3
      <4> QED BY ONLY <3>1, <3>2, <4>1, <4>2, <4>3 DEF RowOK
    <3>4. CASE v = u
      <4>1. /\ \A k \in 1 .. Len(req[u].input_ids) : Device(u)[k] = req[u].input_ids[k]
            /\ Device(u)[Len(req[u].input_ids) + 1] = entry.token
            /\ \A i \in 1 .. Len(New) : New[i].uid = u => Device(u)[req[u].device_len] = New[i].token
        <5>1. 1 \in 1 .. Len(Old) /\ Old[1].uid = u /\ Old[1].n = req[u].n
          BY <1>3
        <5> QED BY <1>2, <1>3, <3>2, <3>4, <5>1 DEF RowOK
      <4>2. \A k \in 1 .. Len(req'[u].input_ids) : Device(u)[k] = req'[u].input_ids[k]
        BY <1>1, <1>4, <4>1, Appending
      <4>3. New' = New /\ req'[u].device_len = req[u].device_len
            /\ \A i \in 1 .. Len(Old') : Old'[i].uid # u
        BY <1>3 DEF SameSizes
      <4> QED BY ONLY <3>1, <3>4, <4>1, <4>2, <4>3 DEF RowOK
    <3> QED BY <3>3, <3>4
  <2> QED BY <2>1 DEF DeviceOK, Holders
<1> QED BY <1>11, <1>12, <1>13, <1>14, <1>15 DEF StreamInv

\* Every visit of _process_last_data.
LEMMA DrainStream ==
  ASSUME ControlInv, ContractInv, StreamInv, DrainFinished \/ DrainPrefilled \/ DrainDecoded
  PROVE  StreamInv'
<1>1. Sampled
  BY DEF DrainFinished, DrainPrefilled, DrainDecoded
<1>2. PICK u \in Uids : u = entry.uid
  BY <1>1, VisitFacts DEF Sampled
<1>3. PICK a \in Reqs : a = appended
  BY <1>1, <1>2, SampledFacts
<1>4. /\ a.n = req[u].n /\ a.table_idx = req[u].table_idx /\ a.aborted = req[u].aborted
      /\ a.chunked = req[u].chunked /\ a.device_len = req[u].device_len
      /\ a.output_len = req[u].output_len /\ Held(u)
  BY <1>1, <1>2, <1>3, SampledFacts
<1>5. a.cached_len = req[u].cached_len /\ a.input_ids = Append(req[u].input_ids, entry.token)
  <2>1. PICK r \in Reqs : r = req[u]
    BY ContractTypes
  <2>2. a = [r EXCEPT !.input_ids = Append(@, entry.token)]
    BY <1>2, <1>3, <2>1 DEF appended, object
  <2> QED BY <2>1, <2>2 DEF Reqs
<1>6. CASE DrainFinished
  <2>1. ends /\ FreeLazily(u, a) /\ running_reqs' \subseteq running_reqs
    BY <1>2, <1>3, <1>6 DEF DrainFinished
  <2>2. PICK commit : FreeRow(u, a, commit)
    BY <1>4, <2>1 DEF FreeLazily, Held
  <2>3. /\ \A v \in Uids \ {u} : req'[v] = req[v]
        /\ req'[u] = [a EXCEPT !.table_idx = NoTable]
    BY <1>4, <2>2, FreeRowTables DEF ControlInv
  <2>4. /\ SameSizes(u) /\ req'[u].aborted = req[u].aborted
        /\ req'[u].input_ids = Append(req[u].input_ids, entry.token)
        /\ ~Held(u)'
    BY <1>4, <1>5, <2>3 DEF SameSizes, Reqs, Held
  <2>5. /\ \A v \in Uids : KeepsRow(v)
        /\ token_pool' \in [Tables -> [1 .. ConfigMaxSeqLen -> Vocab \cup {0}]]
    BY <1>4, <2>2, RowFreed
  <2> QED BY <1>1, <1>2, <2>1, <2>3, <2>4, <2>5, ReplyingVisitStream
<1>7. CASE DrainPrefilled \/ DrainDecoded
  <2>1. PICK h : req' = [req EXCEPT ![u] = [a EXCEPT !.handle = h]]
    <3>1. CASE DrainPrefilled
      BY <1>2, <1>3, <3>1 DEF DrainPrefilled
    <3>2. CASE DrainDecoded
      <4>1. req' = [req EXCEPT ![u] = a]
        BY <1>2, <1>3, <3>2 DEF DrainDecoded
      <4>2. a = [a EXCEPT !.handle = a.handle]
        BY DEF Reqs
      <4> QED BY <4>1, <4>2
    <3> QED BY <1>7, <3>1, <3>2
  <2>2. PICK b : /\ b = [a EXCEPT !.handle = h]
                 /\ b.n = a.n /\ b.table_idx = a.table_idx /\ b.aborted = a.aborted
                 /\ b.chunked = a.chunked /\ b.cached_len = a.cached_len
                 /\ b.device_len = a.device_len /\ b.output_len = a.output_len
                 /\ b.input_ids = a.input_ids
    <3> DEFINE b == [a EXCEPT !.handle = h]
    <3>1. /\ b.n = a.n /\ b.table_idx = a.table_idx /\ b.aborted = a.aborted
          /\ b.chunked = a.chunked /\ b.cached_len = a.cached_len
          /\ b.device_len = a.device_len /\ b.output_len = a.output_len
          /\ b.input_ids = a.input_ids
      BY DEF Reqs
    <3> QED BY <3>1
  <2>3. req'[u] = b /\ \A v \in Uids \ {u} : req'[v] = req[v]
    BY <2>1, <2>2, ContractTypes
  <2>4. /\ SameSizes(u) /\ req'[u].aborted = req[u].aborted
        /\ req'[u].input_ids = Append(req[u].input_ids, entry.token)
        /\ \A v \in Uids : Held(v)' = Held(v) /\ req'[v].table_idx = req[v].table_idx
    <3>1. SameSizes(u) /\ req'[u].aborted = req[u].aborted
      BY <1>4, <1>5, <2>2, <2>3 DEF SameSizes
    <3>2. req'[u].input_ids = Append(req[u].input_ids, entry.token)
      BY <1>5, <2>2, <2>3
    <3>3. \A v \in Uids : req'[v].table_idx = req[v].table_idx
      BY ONLY <1>4, <2>2, <2>3
    <3> QED BY <3>1, <3>2, <3>3 DEF Held
  <2>5. ~ends /\ token_pool' = token_pool /\ running_reqs' = running_reqs
    BY <1>7 DEF DrainPrefilled, DrainDecoded
  <2>6. Held(u)' <=> ~ends
    BY <1>4, <2>4, <2>5
  <2>7. /\ \A v \in Uids : KeepsRow(v)
        /\ token_pool' \in [Tables -> [1 .. ConfigMaxSeqLen -> Vocab \cup {0}]]
    BY <2>4, <2>5, StreamTypes DEF KeepsRow
  <2> QED BY <1>1, <1>2, <2>3, <2>4, <2>5, <2>6, <2>7, ReplyingVisitStream
<1> QED BY <1>6, <1>7

-----------------------------------------------------------------------------
(* The pass.                                                               *)

\* The object of u that the pass just made covers the prompt up to upto, and
\* so does its row.
Took(u, cached, upto, t) ==
    /\ cached \in Nat /\ upto \in Nat /\ cached <= upto /\ upto <= Len(Prompt[u])
    /\ \A v \in Uids \ {u} : req'[v] = req[v]
    /\ req'[u].n = req[u].n + 1 /\ req'[u].table_idx = t
    /\ req'[u].cached_len = cached /\ req'[u].device_len = upto
    /\ req'[u].output_len = candidate.output_len
    /\ req'[u].input_ids = Prefix(Prompt[u], upto)
    /\ req'[u].chunked <=> upto < Len(Prompt[u])
    /\ token_pool' \in [Tables -> [1 .. ConfigMaxSeqLen -> Vocab \cup {0}]]
    /\ \A s \in Tables \ {t} : token_pool'[s] = token_pool[s]
    /\ \A k \in 1 .. upto : token_pool'[t][k] = Prompt[u][k]

(* Adding a request puts its ids in its row of token_pool, up to its chunk. *)
LEMMA AddOneTokens ==
  ASSUME ControlInv, StreamInv, CanTry, NEW u \in Uids, u = candidate.uid,
         NEW cached \in 0 .. Len(Prompt[u]), NEW t \in Tables, NEW handle \in Seq(Vocab),
         NEW reserved, NEW tokens \in [1 .. ConfigMaxSeqLen -> Vocab \cup {0}],
         \A k \in 1 .. cached : tokens[k] = Prompt[u][k],
         AddOne(cached, t, handle, reserved, tokens)
  PROVE  Took(u, cached, cached + chunk_size(cached), t)
<1> DEFINE upto == cached + chunk_size(cached)
           row  == [i \in 1 .. ConfigMaxSeqLen |->
                      IF i \in cached + 1 .. upto THEN Prompt[u][i] ELSE tokens[i]]
<1>1. /\ Prompt[u] \in Seq(Vocab) /\ Len(Prompt[u]) \in Nat /\ ConfigMaxSeqLen \in Nat
      /\ req \in [Uids -> Reqs] /\ candidate \in PendingReqs
  <2>1. Prompt \in [Uids -> Seq(Vocab)] /\ ConfigMaxSeqLen \in Nat
    BY ONLY SchedulerAssumption
  <2>2. Prompt[u] \in Seq(Vocab) /\ Len(Prompt[u]) \in Nat
    BY ONLY <2>1, u \in Uids
  <2>3. req \in [Uids -> Reqs]
    BY DEF ControlInv, ControlTypes
  <2>4. candidate \in PendingReqs
    BY Candidate
  <2> QED BY <2>1, <2>2, <2>3, <2>4
<1>2. chunk_size(cached) \in Nat /\ upto \in 0 .. Len(Prompt[u])
  BY ChunkSize
<1>3. cached \in Nat /\ upto \in Nat /\ cached <= upto /\ upto <= Len(Prompt[u])
  BY <1>1, <1>2
<1>4. is_chunked(cached) <=> upto < Len(Prompt[u])
  BY <1>1, <1>2, <1>3 DEF is_chunked
<1>5. Len(Prompt[u]) <= ConfigMaxSeqLen
  <2>1. Len(adder.reqs) + 1 \in 1 .. Len(pending_list) /\ pending_list[Len(adder.reqs) + 1] = candidate
    BY Candidate
  <2>2. BudgetOK(candidate)
    BY <2>1 DEF StreamInv, BudgetsOK
  <2>3. candidate.output_len \in Nat
    BY <1>1 DEF PendingReqs
  <2> QED BY <1>1, <2>2, <2>3 DEF BudgetOK
<1>6. token_pool' = [token_pool EXCEPT ![t] = row]
  BY DEF AddOne
<1>7. \A i \in 1 .. upto : Prompt[u][i] \in Vocab /\ i \in 1 .. ConfigMaxSeqLen
  BY <1>1, <1>2, <1>3, <1>5
<1>8. row \in [1 .. ConfigMaxSeqLen -> Vocab \cup {0}]
  <2>1. ASSUME NEW i \in 1 .. ConfigMaxSeqLen
        PROVE  (IF i \in cached + 1 .. upto THEN Prompt[u][i] ELSE tokens[i]) \in Vocab \cup {0}
    <3>1. i \in cached + 1 .. upto => i \in 1 .. upto
      BY <1>3
    <3> QED BY <1>7, <3>1
  <2> QED BY <2>1
<1>9. \A k \in 1 .. upto : row[k] = Prompt[u][k]
  <2>1. ASSUME NEW k \in 1 .. upto
        PROVE  row[k] = Prompt[u][k]
    <3>1. k \in cached + 1 .. upto \/ k \in 1 .. cached
      BY <1>3
    <3> QED BY <1>7, <3>1
  <2> QED BY <2>1
<1> HIDE DEF row, upto
<1>10. req' = [req EXCEPT ![u] =
               [n |-> req[u].n + 1, table_idx |-> t, cached_len |-> cached, device_len |-> upto,
                output_len |-> candidate.output_len, input_ids |-> Prefix(Prompt[u], upto),
                handle |-> handle, chunked |-> is_chunked(cached), aborted |-> FALSE]]
  BY DEF AddOne, upto
<1>11. /\ \A v \in Uids \ {u} : req'[v] = req[v]
       /\ req'[u].n = req[u].n + 1 /\ req'[u].table_idx = t
       /\ req'[u].cached_len = cached /\ req'[u].device_len = upto
       /\ req'[u].output_len = candidate.output_len
       /\ req'[u].input_ids = Prefix(Prompt[u], upto)
       /\ req'[u].chunked = is_chunked(cached)
  BY <1>1, <1>10
<1>12. token_pool \in [Tables -> [1 .. ConfigMaxSeqLen -> Vocab \cup {0}]]
  BY DEF StreamInv, DeviceOK
<1>13. /\ token_pool' \in [Tables -> [1 .. ConfigMaxSeqLen -> Vocab \cup {0}]]
       /\ token_pool'[t] = row /\ \A s \in Tables \ {t} : token_pool'[s] = token_pool[s]
  BY <1>6, <1>8, <1>12
<1>14. Took(u, cached, upto, t)
  BY <1>3, <1>4, <1>9, <1>11, <1>13 DEF Took
<1> QED BY <1>14 DEF upto

\* Either way of admitting takes a row nobody else holds.
LEMMA AdmitTokens ==
  ASSUME ControlInv, ContractInv, StreamInv, AdmitContinuation \/ AdmitFresh,
         NEW u \in Uids, u = candidate.uid
  PROVE  \E cached \in Nat, upto \in Nat, t \in Tables :
           /\ Took(u, cached, upto, t)
           /\ \A v \in Uids \ {u} : Held(v) => req[v].table_idx # t
<1>1. CASE AdmitContinuation
  <2> DEFINE r == req[u]
  <2>1. /\ CanTry /\ candidate.chunked
        /\ AddOne(r.cached_len, r.table_idx, r.handle,
                  estimated_size(r.cached_len), token_pool[r.table_idx])
    BY <1>1 DEF AdmitContinuation
  <2>2. Held(u) /\ r.chunked /\ r.cached_len <= Len(Prompt[u]) /\ ~Processed(u)
    BY <2>1, Candidate DEF WaitingOK
  <2>3. r \in Reqs /\ Prompt[u] \in Seq(Vocab)
    BY SchedulerAssumption DEF ControlInv, ControlTypes
  <2>4. /\ r.cached_len \in 0 .. Len(Prompt[u])
        /\ r.table_idx \in Tables /\ r.handle \in Seq(Vocab)
    BY <2>2, <2>3 DEF Reqs, Held
  <2>5. \A k \in 1 .. r.cached_len : token_pool[r.table_idx][k] = Prompt[u][k]
    <3>1. r.input_ids = Prefix(Prompt[u], Len(r.input_ids)) /\ Len(r.input_ids) = r.cached_len
      BY <2>2 DEF StreamInv, ChunksOK
    <3>2. \A k \in 1 .. Len(r.input_ids) : token_pool[r.table_idx][k] = r.input_ids[k]
      BY <2>2 DEF StreamInv, DeviceOK, Holders, RowOK, Device
    <3>3. \A k \in 1 .. r.cached_len : Prefix(Prompt[u], r.cached_len)[k] = Prompt[u][k]
      BY <2>3, <2>4 DEF Prefix
    <3> QED BY <3>1, <3>2, <3>3
  <2>6. token_pool[r.table_idx] \in [1 .. ConfigMaxSeqLen -> Vocab \cup {0}]
    BY <2>4 DEF StreamInv, DeviceOK
  <2>7. \A v \in Uids \ {u} : Held(v) => req[v].table_idx # r.table_idx
    BY <2>2 DEF ControlInv, TablesOK, Holders
  <2>8. r.cached_len + chunk_size(r.cached_len) \in Nat /\ r.cached_len \in Nat
    BY <2>1, <2>3, <2>4, ChunkSize
  <2> HIDE DEF r
  <2>9. Took(u, r.cached_len, r.cached_len + chunk_size(r.cached_len), r.table_idx)
    BY <2>1, <2>4, <2>5, <2>6, AddOneTokens
  <2> QED BY ONLY <2>4, <2>7, <2>8, <2>9
<1>2. CASE AdmitFresh
  <2> DEFINE mr == match_req(u)
             t  == Last(table_free)
             cached == Len(mr.path)
             tokens == [i \in 1 .. ConfigMaxSeqLen |->
                          IF i <= cached THEN Prompt[u][i] ELSE token_pool[t][i]]
  <2>1. /\ CanTry /\ table_free # <<>>
        /\ AddOne(cached, t, mr.path, estimated_size(cached), tokens)
    BY <1>2 DEF AdmitFresh, Fits
  <2>2. cached \in 0 .. Len(Prompt[u]) /\ mr.path \in Seq(Vocab) /\ Prompt[u] \in Seq(Vocab)
    BY MatchReq, SchedulerAssumption
  <2> HIDE DEF mr, cached
  <2>3. /\ t \in Tables
        /\ \A v \in Uids : Held(v) => req[v].table_idx # t
    <3>1. table_free \in Seq(Tables) /\ Len(table_free) \in 1 .. Len(table_free)
      BY <2>1 DEF ControlInv, ControlTypes
    <3> QED BY <3>1 DEF Last, ControlInv, TablesOK, Holders
  <2> HIDE DEF t
  <2>4. tokens \in [1 .. ConfigMaxSeqLen -> Vocab \cup {0}]
    <3>1. token_pool[t] \in [1 .. ConfigMaxSeqLen -> Vocab \cup {0}]
      BY <2>3 DEF StreamInv, DeviceOK
    <3>2. \A i \in 1 .. ConfigMaxSeqLen : i <= cached => i \in 1 .. Len(Prompt[u])
      BY <2>2, SchedulerAssumption
    <3>3. \A i \in 1 .. Len(Prompt[u]) : Prompt[u][i] \in Vocab
      BY <2>2
    <3> QED BY <3>1, <3>2, <3>3
  <2>5. \A k \in 1 .. cached : k \in 1 .. ConfigMaxSeqLen
    <3>1. Len(adder.reqs) + 1 \in 1 .. Len(pending_list) /\ pending_list[Len(adder.reqs) + 1] = candidate
          /\ candidate \in PendingReqs
      BY <2>1, Candidate
    <3>2. Len(Prompt[u]) + candidate.output_len <= ConfigMaxSeqLen
      BY <3>1 DEF StreamInv, BudgetsOK, BudgetOK
    <3>3. candidate.output_len \in 1 .. ConfigMaxSeqLen
      BY ONLY <3>1 DEF PendingReqs
    <3>4. ConfigMaxSeqLen \in Nat
      BY ONLY SchedulerAssumption
    <3>5. Len(Prompt[u]) \in Nat /\ cached \in 0 .. Len(Prompt[u])
      BY ONLY <2>2
    <3>6. cached <= ConfigMaxSeqLen /\ cached \in Nat
      BY ONLY <3>2, <3>3, <3>4, <3>5
    <3> QED BY ONLY <3>4, <3>6
  <2>6. \A k \in 1 .. cached : tokens[k] = Prompt[u][k]
    BY <2>2, <2>5
  <2>7. cached + chunk_size(cached) \in Nat /\ cached \in Nat
    BY <2>1, <2>2, ChunkSize
  <2> HIDE DEF tokens
  <2>8. Took(u, cached, cached + chunk_size(cached), t)
    BY <2>1, <2>2, <2>3, <2>4, <2>6, AddOneTokens
  <2> QED BY ONLY <2>3, <2>7, <2>8
<1> QED BY <1>1, <1>2

(* Admission keeps the stream invariant. *)
LEMMA AdmitStream ==
  ASSUME ControlInv, ContractInv, StreamInv, AdmitContinuation \/ AdmitFresh
  PROVE  StreamInv'
<1>1. /\ CanTry /\ pc = "plan" /\ pc' = "plan" /\ Planning /\ Planning'
      /\ UNCHANGED <<pending_list, last_data, ongoing, drain, reply, out>>
  BY DEF AdmitContinuation, AdmitFresh, Fits, CanTry, batches, Planning
<1>2. PICK u \in Uids : u = candidate.uid
  BY <1>1, Candidate
<1>3. PICK cached \in Nat, upto \in Nat, t \in Tables :
        /\ Took(u, cached, upto, t)
        /\ \A v \in Uids \ {u} : Held(v) => req[v].table_idx # t
  BY <1>2, AdmitTokens
<1>4. PICK p \in PendingReqs : /\ p = candidate /\ p.uid = u /\ BudgetOK(p)
                               /\ ~p.chunked => req[u].n = 0
                               /\ p.chunked => req[u].chunked
  <2>1. /\ candidate \in PendingReqs /\ WaitingOK(candidate) /\ ~Processed(u)
        /\ Len(adder.reqs) + 1 \in 1 .. Len(pending_list)
        /\ pending_list[Len(adder.reqs) + 1] = candidate
    BY <1>1, <1>2, Candidate
  <2>2. BudgetOK(candidate)
    BY <2>1 DEF StreamInv, BudgetsOK
  <2> QED BY <1>2, <2>1, <2>2 DEF WaitingOK
<1>5. /\ Prompt[u] \in Seq(Vocab) /\ Len(Prompt[u]) \in Nat /\ ConfigMaxSeqLen \in Nat
      /\ p.output_len \in Nat \ {0} /\ req[u].n \in Nat
      /\ Len(Prompt[u]) + p.output_len <= ConfigMaxSeqLen
  <2>1. p.output_len \in Nat \ {0}
    BY SchedulerAssumption DEF PendingReqs
  <2>2. req[u].n \in Nat
    BY ContractTypes DEF Reqs
  <2> QED BY <1>4, <2>1, <2>2, SchedulerAssumption DEF BudgetOK
<1>6. /\ cached <= upto /\ upto <= Len(Prompt[u])
      /\ \A v \in Uids \ {u} : req'[v] = req[v]
      /\ req'[u].n = req[u].n + 1 /\ req'[u].table_idx = t
      /\ req'[u].cached_len = cached /\ req'[u].device_len = upto
      /\ req'[u].output_len = p.output_len
      /\ req'[u].input_ids = Prefix(Prompt[u], upto)
      /\ req'[u].chunked <=> upto < Len(Prompt[u])
      /\ token_pool' \in [Tables -> [1 .. ConfigMaxSeqLen -> Vocab \cup {0}]]
      /\ \A s \in Tables \ {t} : token_pool'[s] = token_pool[s]
      /\ \A k \in 1 .. upto : token_pool'[t][k] = Prompt[u][k]
  BY <1>3, <1>4 DEF Took
<1>7. /\ Len(Prefix(Prompt[u], upto)) = upto
      /\ \A k \in 1 .. upto : Prefix(Prompt[u], upto)[k] = Prompt[u][k]
      /\ upto = Len(Prompt[u]) => Prefix(Prompt[u], upto) = Prompt[u]
  BY <1>5, <1>6 DEF Prefix
<1>8. (\A v : Sent(v)' = Sent(v)) /\ reply = <<>>
  BY <1>1, SentSame, StreamTypes
<1>9. max_device_len(u)' = Len(Prompt[u]) + p.output_len
  BY <1>6 DEF max_device_len
<1>10. \A v \in Uids \ {u} : req'[v] = req[v] /\ max_device_len(v)' = max_device_len(v)
  BY <1>6 DEF max_device_len
<1>11. /\ Processed(u)'
       /\ \A v \in Uids \ {u} : Processed(v)' <=> Processed(v)
       /\ \A k \in 1 .. Len(adder'.chunked_list) : BudgetOK(adder'.chunked_list[k])
  <2>1. PICK c \in BOOLEAN, f \in BOOLEAN : /\ adder'.reqs = Append(adder.reqs, [uid |-> u, n |-> req[u].n + 1,
                                                  chunked |-> c, token |-> 0, fresh |-> f])
                                /\ adder'.chunked_list =
                                     IF c THEN Append(adder.chunked_list, [p EXCEPT !.chunked = TRUE])
                                     ELSE adder.chunked_list
    <3>1. PICK k \in 0 .. Len(Prompt[candidate.uid]), s \in Tables : AddOneResult(candidate.uid, k, s)
      BY AdmitFacts
    <3>2. PICK c \in BOOLEAN : c = is_chunked(k)
      <4>1. is_chunked(k) \in BOOLEAN
        BY ONLY DEF is_chunked
      <4> QED BY ONLY <4>1
    <3>3. /\ adder'.reqs = Append(adder.reqs, [uid |-> u, n |-> req[u].n + 1,
                                                  chunked |-> c, token |-> 0,
                                                  fresh |-> ~candidate.chunked])
          /\ adder'.chunked_list = IF c THEN Append(adder.chunked_list, [p EXCEPT !.chunked = TRUE])
                                   ELSE adder.chunked_list
      BY <1>2, <1>4, <3>1, <3>2 DEF AddOneResult
    <3> QED BY ONLY <3>3, c \in BOOLEAN
  <2>2. PICK e : e.uid = u /\ adder'.reqs = Append(adder.reqs, e)
    BY <2>1
  <2>3. Len(adder.reqs) \in Nat /\ adder.reqs \in Seq(Taken) /\ adder.chunked_list \in Seq(PendingReqs)
    BY <1>1 DEF ControlInv, PlanOK, PlanTypes
  <2>4. /\ Len(adder'.reqs) = Len(adder.reqs) + 1
        /\ \A i \in 1 .. Len(adder.reqs) : adder'.reqs[i] = adder.reqs[i]
        /\ adder'.reqs[Len(adder.reqs) + 1] = e
    BY <2>2, <2>3
  <2>5. /\ \A i \in 1 .. Len(adder.reqs) : i \in 1 .. Len(adder'.reqs)
        /\ Len(adder.reqs) + 1 \in 1 .. Len(adder'.reqs)
        /\ \A i \in 1 .. Len(adder'.reqs) : i \in 1 .. Len(adder.reqs) \/ i = Len(adder.reqs) + 1
    BY ONLY <2>3, <2>4
  <2>6. Processed(u)'
    BY <1>1, <2>2, <2>4, <2>5 DEF Processed
  <2>7. ASSUME NEW v \in Uids \ {u}
        PROVE  Processed(v)' <=> Processed(v)
    BY <1>1, <2>2, <2>4, <2>5 DEF Processed
  <2>8. PICK q \in PendingReqs : q = [p EXCEPT !.chunked = TRUE]
    BY DEF PendingReqs
  <2>9. BudgetOK(q)
    <3>1. q.uid = p.uid /\ q.output_len = p.output_len
      BY <2>8 DEF PendingReqs
    <3> QED BY <1>4, <3>1 DEF BudgetOK
  <2>10. \A k \in 1 .. Len(adder.chunked_list) : BudgetOK(adder.chunked_list[k])
    BY <1>1 DEF StreamInv, BudgetsOK
  <2>11. adder'.chunked_list = adder.chunked_list \/ adder'.chunked_list = Append(adder.chunked_list, q)
    <3>1. adder'.chunked_list = IF c THEN Append(adder.chunked_list, q) ELSE adder.chunked_list
      BY ONLY <2>1, <2>8
    <3> QED BY ONLY <3>1
  <2>12. \A k \in 1 .. Len(adder'.chunked_list) : BudgetOK(adder'.chunked_list[k])
    <3>1. CASE adder'.chunked_list = adder.chunked_list
      BY ONLY <2>10, <3>1
    <3>2. CASE adder'.chunked_list = Append(adder.chunked_list, q)
      <4>1. /\ Len(adder'.chunked_list) = Len(adder.chunked_list) + 1
            /\ adder'.chunked_list[Len(adder.chunked_list) + 1] = q
            /\ \A k \in 1 .. Len(adder.chunked_list) :
                 adder'.chunked_list[k] = adder.chunked_list[k]
        BY ONLY <2>3, <3>2
      <4>2. \A k \in 1 .. Len(adder'.chunked_list) :
               k \in 1 .. Len(adder.chunked_list) \/ k = Len(adder.chunked_list) + 1
        BY ONLY <2>3, <4>1
      <4> QED BY ONLY <2>9, <2>10, <4>1, <4>2
    <3> QED BY ONLY <2>11, <3>1, <3>2
  <2> QED BY <2>6, <2>7, <2>12
<1>12. BudgetsOK'
  <2>1. BudgetsOK
    BY DEF StreamInv
  <2>2. ASSUME NEW v \in Uids \ {u}
        PROVE  IF req'[v].n = 0 THEN req'[v].device_len = 0 /\ req'[v].cached_len = 0
               ELSE /\ req'[v].cached_len <= req'[v].device_len
                    /\ req'[v].device_len <= max_device_len(v)'
                    /\ req'[v].output_len > 0 /\ max_device_len(v)' <= ConfigMaxSeqLen
    BY <1>10, <2>1 DEF BudgetsOK
  <2>3. /\ req'[u].n # 0 /\ req'[u].cached_len <= req'[u].device_len
        /\ req'[u].device_len <= max_device_len(u)'
        /\ req'[u].output_len > 0 /\ max_device_len(u)' <= ConfigMaxSeqLen
    BY <1>5, <1>6, <1>9
  <2>4. \A i \in 1 .. Len(pending_list') : BudgetOK(pending_list'[i])
    BY <1>1, <2>1 DEF BudgetsOK
  <2> QED BY <1>11, <2>2, <2>3, <2>4 DEF BudgetsOK, BudgetOK
<1>13. Sent(u) = <<>>
  BY <1>4 DEF StreamInv, ChunksOK
<1>14. ChunksOK'
  <2>1. ChunksOK
    BY DEF StreamInv
  <2>2. req'[u].chunked =>
             /\ req'[u].input_ids = Prefix(Prompt[u], Len(req'[u].input_ids))
             /\ Len(req'[u].input_ids) < Len(Prompt[u])
             /\ Len(req'[u].input_ids) = IF Processed(u)' THEN req'[u].device_len ELSE req'[u].cached_len
    BY <1>6, <1>7, <1>11
  <2>3. ASSUME NEW v \in Uids \ {u}
        PROVE  /\ req'[v].n = 0 \/ req'[v].chunked => Sent(v)' = <<>>
               /\ req'[v].chunked =>
                    /\ req'[v].input_ids = Prefix(Prompt[v], Len(req'[v].input_ids))
                    /\ Len(req'[v].input_ids) < Len(Prompt[v])
                    /\ Len(req'[v].input_ids) = IF Processed(v)' THEN req'[v].device_len
                                                ELSE req'[v].cached_len
    BY <1>8, <1>10, <1>11, <2>1 DEF ChunksOK
  <2> QED BY <1>8, <1>13, <2>2, <2>3 DEF ChunksOK
<1>15. HostOK'
  <2>1. HostOK
    BY DEF StreamInv
  <2>2. ASSUME ~req'[u].chunked
        PROVE  /\ req'[u].input_ids = Prompt[u] \o Sent(u)'
               /\ Len(req'[u].input_ids) < max_device_len(u)'
               /\ \A k \in 1 .. Len(Sent(u)') : Sent(u)'[k] # Eos
    <3>1. upto = Len(Prompt[u])
      BY <1>5, <1>6, <2>2
    <3>2. Prompt[u] \o <<>> = Prompt[u]
      BY <1>5, ConcatEmptySeq
    <3>3. Len(req'[u].input_ids) < max_device_len(u)'
      BY <1>5, <1>6, <1>7, <1>9, <3>1
    <3>4. Sent(u)' = <<>>
      BY <1>8, <1>13
    <3>5. req'[u].input_ids = Prompt[u] \o Sent(u)'
      BY <1>6, <1>7, <3>1, <3>2, <3>4
    <3>6. \A k \in 1 .. Len(Sent(u)') : FALSE
      BY <3>4
    <3> QED BY <3>3, <3>5, <3>6
  <2>3. ASSUME NEW v \in Uids \ {u}, Held(v)', ~req'[v].chunked
        PROVE  /\ req'[v].input_ids = Prompt[v] \o Sent(v)'
               /\ Len(req'[v].input_ids) < max_device_len(v)'
               /\ \A k \in 1 .. Len(Sent(v)') : Sent(v)'[k] # Eos
    BY <1>8, <1>10, <2>1, <2>3 DEF HostOK, Holders, Held
  <2> QED BY <2>2, <2>3 DEF HostOK, Holders
<1>16. EndsOK'
  <2>1. EndsOK
    BY DEF StreamInv
  <2>2. ~Ending(u)'
    BY <1>1, <1>2, <1>8, CandidateFacts DEF Ending
  <2>3. ASSUME NEW v \in Uids \ {u}
        PROVE  (Ending(v)' <=> Ending(v)) /\ (Complete(v)' <=> Complete(v))
    BY <1>1, <1>8, <1>10 DEF Ending, Complete
  <2> QED BY <1>8, <2>1, <2>2, <2>3 DEF EndsOK
<1>17. DeviceOK'
  <2>1. Old' = Old /\ New' = New /\ New = <<>>
    BY <1>1 DEF Old, New
  <2>2. RowOK(u)'
    <3>1. Device(u)' = token_pool'[t]
      BY <1>6 DEF Device
    <3>2. \A i \in 1 .. Len(Old') : ~(Old'[i].uid = u /\ Old'[i].n = req'[u].n)
      BY <1>5, <1>6, <2>1 DEF ControlInv, BatchesOK, EntryOK
    <3> QED BY <1>6, <1>7, <2>1, <3>1, <3>2 DEF RowOK
  <2>3. ASSUME NEW v \in Uids \ {u}, Held(v)'
        PROVE  RowOK(v)'
    <3>1. Held(v) /\ req'[v] = req[v]
      BY <1>10, <2>3 DEF Held
    <3>2. req[v].table_idx \in Tables \ {t}
      BY <1>3, <3>1, ContractTypes DEF Reqs, Held
    <3>3. Device(v)' = Device(v)
      BY <1>6, <3>1, <3>2 DEF Device
    <3>4. RowOK(v)
      BY <3>1 DEF StreamInv, DeviceOK, Holders
    <3> QED BY ONLY <2>1, <3>1, <3>3, <3>4 DEF RowOK
  <2> QED BY <1>6, <2>2, <2>3 DEF DeviceOK, Holders
<1> QED BY <1>12, <1>14, <1>15, <1>16, <1>17 DEF StreamInv

-----------------------------------------------------------------------------
(* The launch.                                                             *)

\* The forward writes each sampled token into the row of its request, and into
\* no other row.
LEMMA LaunchTokens ==
  ASSUME ControlInv, StreamInv, Launch
  PROVE  /\ token_pool' \in [Tables -> [1 .. ConfigMaxSeqLen -> Vocab \cup {0}]]
         /\ \A v \in Uids : Held(v) =>
              /\ (\A i \in 1 .. Len(ongoing'.reqs) : ongoing'.reqs[i].uid # v)
                   => token_pool'[req[v].table_idx] = token_pool[req[v].table_idx]
              /\ \A i \in 1 .. Len(ongoing'.reqs) : ongoing'.reqs[i].uid = v =>
                   token_pool'[req[v].table_idx] =
                     [token_pool[req[v].table_idx] EXCEPT ![write_position(v)] = ongoing'.reqs[i].token]
<1>1. PICK rs \in Planned : \E evicted, sampled : sampled \in Samples(rs) /\ Forward(rs, evicted, sampled)
  BY DEF Launch
<1>2. PICK evicted, sampled : sampled \in Samples(rs) /\ Forward(rs, evicted, sampled)
  BY <1>1
<1>3. /\ Len(rs) \in Nat
      /\ \A i \in 1 .. Len(rs) : rs[i].uid \in Uids /\ Held(rs[i].uid)
  <2>1. pc = "plan"
    BY DEF Launch, Refused
  <2> QED BY <2>1, PlannedFacts
<1> DEFINE At(t)   == CHOOSE i \in 1 .. Len(rs) : req[rs[i].uid].table_idx = t
           InIt(t) == \E i \in 1 .. Len(rs) : req[rs[i].uid].table_idx = t
           Us      == {rs[i].uid : i \in 1 .. Len(rs)}
           reqs    == [i \in 1 .. Len(rs) |->
                         [uid |-> rs[i].uid, n |-> rs[i].n, chunked |-> rs[i].chunked,
                          token |-> sampled[rs[i].uid]]]
           Written(u, t) == [token_pool[t] EXCEPT ![write_position(u)] = sampled[u]]
<1>4. /\ token_pool' = [t \in Tables |-> IF ~InIt(t) THEN token_pool[t]
                                         ELSE Written(rs[At(t)].uid, t)]
      /\ ongoing' = [phase |-> phase, reqs |-> reqs]
  BY <1>2, Zenon DEF Forward
<1>5. sampled \in [Us -> Vocab]
  BY <1>2 DEF Samples
<1>6. token_pool \in [Tables -> [1 .. ConfigMaxSeqLen -> Vocab \cup {0}]]
  BY DEF StreamInv, DeviceOK
<1>7. \A t : InIt(t) => At(t) \in 1 .. Len(rs) /\ req[rs[At(t)].uid].table_idx = t
  OBVIOUS
<1>8. \A i \in 1 .. Len(rs) : sampled[rs[i].uid] \in Vocab
  BY <1>5
<1>9. /\ Len(ongoing'.reqs) = Len(rs)
      /\ \A i \in 1 .. Len(rs) : /\ ongoing'.reqs[i].uid = rs[i].uid
                                 /\ ongoing'.reqs[i].token = sampled[rs[i].uid]
  <2>1. ongoing'.reqs = reqs
    BY <1>4
  <2> QED BY <1>3, <2>1
<1> HIDE DEF At, InIt, Us, reqs
<1>10. \A u \in Uids, t \in Tables : sampled[u] \in Vocab =>
          Written(u, t) \in [1 .. ConfigMaxSeqLen -> Vocab \cup {0}]
  BY <1>6
<1>11. token_pool' \in [Tables -> [1 .. ConfigMaxSeqLen -> Vocab \cup {0}]]
  <2>1. ASSUME NEW t \in Tables
        PROVE  (IF ~InIt(t) THEN token_pool[t] ELSE Written(rs[At(t)].uid, t))
                 \in [1 .. ConfigMaxSeqLen -> Vocab \cup {0}]
    <3>1. InIt(t) => rs[At(t)].uid \in Uids /\ sampled[rs[At(t)].uid] \in Vocab
      BY <1>3, <1>7, <1>8
    <3> HIDE DEF Written
    <3> QED BY <1>6, <1>10, <3>1
  <2> HIDE DEF Written
  <2> QED BY <1>4, <2>1
<1>12. ASSUME NEW v \in Uids, Held(v)
       PROVE  /\ req[v].table_idx \in Tables
              /\ \A i \in 1 .. Len(rs) : req[rs[i].uid].table_idx = req[v].table_idx => rs[i].uid = v
  <2>1. req[v].table_idx \in Tables
    BY <1>12 DEF ControlInv, ControlTypes, Reqs, Held
  <2>2. \A i \in 1 .. Len(rs) : req[rs[i].uid].table_idx = req[v].table_idx => rs[i].uid = v
    BY <1>3, <1>12 DEF ControlInv, TablesOK, Holders
  <2> QED BY <2>1, <2>2
<1>13. ASSUME NEW v \in Uids, Held(v), \A i \in 1 .. Len(rs) : rs[i].uid # v
       PROVE  token_pool'[req[v].table_idx] = token_pool[req[v].table_idx]
  <2>1. ~InIt(req[v].table_idx)
    BY <1>12, <1>13 DEF InIt
  <2> QED BY <1>4, <1>12, <1>13, <2>1
<1>14. ASSUME NEW v \in Uids, Held(v), NEW i \in 1 .. Len(rs), rs[i].uid = v
       PROVE  token_pool'[req[v].table_idx] =
                [token_pool[req[v].table_idx] EXCEPT ![write_position(v)] = sampled[v]]
  <2>1. InIt(req[v].table_idx)
    BY <1>14 DEF InIt
  <2>2. rs[At(req[v].table_idx)].uid = v
    BY <1>7, <1>12, <1>14, <2>1
  <2>3. token_pool'[req[v].table_idx] = Written(v, req[v].table_idx)
    <3> HIDE DEF Written
    <3> QED BY <1>4, <1>12, <1>14, <2>1, <2>2
  <2> QED BY <2>3
<1>15. ASSUME NEW v \in Uids, Held(v), \A i \in 1 .. Len(ongoing'.reqs) : ongoing'.reqs[i].uid # v
       PROVE  token_pool'[req[v].table_idx] = token_pool[req[v].table_idx]
  BY <1>9, <1>13, <1>15
<1>16. ASSUME NEW v \in Uids, Held(v), NEW i \in 1 .. Len(ongoing'.reqs), ongoing'.reqs[i].uid = v
       PROVE  token_pool'[req[v].table_idx] =
                [token_pool[req[v].table_idx] EXCEPT ![write_position(v)] = ongoing'.reqs[i].token]
  <2>1. i \in 1 .. Len(rs) /\ rs[i].uid = v /\ ongoing'.reqs[i].token = sampled[v]
    BY <1>9, <1>16
  <2> QED BY <1>14, <1>16, <2>1
<1> QED BY <1>11, <1>15, <1>16

\* What launches has room for one more token, and the host is behind by the
\* tokens of the launched entries.
LEMMA LaunchSizes ==
  ASSUME ControlInv, StreamInv, Planning, NEW v \in Uids, Held(v), ~req[v].aborted,
         Processed(v) \/ v \in running_reqs
  PROVE  /\ req[v].device_len \in Nat /\ Len(req[v].input_ids) \in Nat /\ max_device_len(v) \in Nat
         /\ ConfigMaxSeqLen \in Nat /\ req[v].n > 0
         /\ req[v].device_len < max_device_len(v) /\ max_device_len(v) <= ConfigMaxSeqLen
         /\ write_position(v) = IF req[v].chunked THEN ConfigMaxSeqLen ELSE req[v].device_len + 1
         /\ Len(req[v].input_ids) < write_position(v)
         /\ ~req[v].chunked => req[v].device_len = Len(req[v].input_ids) + Lag(v)
         /\ req[v].chunked => Processed(v)
<1>1. /\ req[v] \in Reqs /\ Prompt[v] \in Seq(Vocab) /\ ConfigMaxSeqLen \in Nat
  BY SchedulerAssumption DEF ControlInv, ControlTypes
<1>2. /\ req[v].device_len \in Nat /\ Len(req[v].input_ids) \in Nat /\ req[v].output_len \in Nat
      /\ Len(Prompt[v]) \in Nat /\ req[v].n \in Nat
  <2>1. req[v].output_len \in 0 .. ConfigMaxSeqLen /\ req[v].device_len \in Nat /\ req[v].n \in Nat
        /\ req[v].input_ids \in Seq(Vocab)
    BY <1>1 DEF Reqs
  <2> QED BY <1>1, <2>1, LenProperties
<1>3. req[v].n > 0
  BY <1>2 DEF ControlInv, UnbornOK
<1>4. /\ req[v].output_len > 0 /\ max_device_len(v) <= ConfigMaxSeqLen
  BY <1>3 DEF StreamInv, BudgetsOK
<1>5. max_device_len(v) = Len(Prompt[v]) + req[v].output_len
  BY DEF max_device_len
<1>6. req[v].device_len < max_device_len(v)
  <2>1. CASE Processed(v)
    <3>1. PICK i \in 1 .. Len(adder.reqs) : adder.reqs[i].uid = v
      BY <2>1 DEF Processed
    <3>2. req[v].device_len <= Len(Prompt[v])
      BY <3>1 DEF ControlInv, PlanOK, TakenOK
    <3> QED BY ONLY <1>2, <1>4, <1>5, <3>2
  <2>2. CASE v \in running_reqs
    BY <2>2 DEF ControlInv, RunningOK
  <2> QED BY <2>1, <2>2
<1>7. write_position(v) = IF req[v].chunked THEN ConfigMaxSeqLen ELSE req[v].device_len + 1
  BY <1>5, <1>6 DEF write_position, can_decode
<1>8. ~req[v].chunked => req[v].device_len = Len(req[v].input_ids) + Lag(v)
  BY DEF ControlInv, HeldOK, Known
<1>9. Lag(v) \in Nat
  BY DEF Lag
<1>10. Len(req[v].input_ids) < write_position(v)
  <2>1. CASE req[v].chunked
    <3>1. Len(req[v].input_ids) < Len(Prompt[v])
      BY <2>1 DEF StreamInv, ChunksOK
    <3> QED BY <1>1, <1>2, <1>4, <1>5, <1>7, <2>1, <3>1
  <2>2. CASE ~req[v].chunked
    BY <1>2, <1>7, <1>8, <1>9, <2>2
  <2> QED BY <2>1, <2>2
<1>11. req[v].chunked => Processed(v)
  BY DEF ControlInv, RunningOK
<1>12. max_device_len(v) \in Nat
  BY ONLY <1>2, <1>5
<1> QED BY <1>1, <1>2, <1>3, <1>4, <1>6, <1>7, <1>8, <1>10, <1>11, <1>12

\* What is left queued after a launch fits the row.
LEMMA LaunchBudgets ==
  ASSUME ControlInv, StreamInv, Planning, pending_list' = pending_after_plan
  PROVE  \A i \in 1 .. Len(pending_list') : BudgetOK(pending_list'[i])
<1>1. /\ pending_list \in Seq(PendingReqs) /\ adder.chunked_list \in Seq(PendingReqs)
      /\ Len(adder.reqs) \in Nat
  <2>1. PlanTypes /\ ControlTypes
    BY DEF ControlInv, PlanOK
  <2> QED BY <2>1, LenProperties DEF PlanTypes, ControlTypes
<1>2. /\ \A i \in 1 .. Len(pending_list) : BudgetOK(pending_list[i])
      /\ \A k \in 1 .. Len(adder.chunked_list) : BudgetOK(adder.chunked_list[k])
  BY DEF StreamInv, BudgetsOK
<1>3. CASE adder.reqs = <<>>
  BY <1>2, <1>3 DEF pending_after_plan
<1>4. CASE adder.reqs # <<>>
  <2> DEFINE m == Len(adder.reqs)
             n == Len(pending_list)
             c == adder.chunked_list
             rest == SubSeq(pending_list, m + 1, n)
  <2>1. pending_list' = c \o rest
    BY <1>4 DEF pending_after_plan
  <2>2. m \in Nat /\ n \in Nat /\ Len(c) \in Nat
    BY <1>1, LenProperties
  <2>3. rest \in Seq(PendingReqs) /\ \A j \in 1 .. Len(rest) : j + m \in 1 .. n /\ rest[j] = pending_list[j + m]
    BY <1>1, <2>2
  <2> HIDE DEF m, n, c, rest
  <2>4. Len(rest) \in Nat
    BY ONLY <2>3, LenProperties
  <2>5. /\ Len(c \o rest) = Len(c) + Len(rest)
        /\ \A i \in 1 .. Len(c) + Len(rest) :
             (c \o rest)[i] = IF i <= Len(c) THEN c[i] ELSE rest[i - Len(c)]
    <3>1. c \in Seq(PendingReqs)
      BY <1>1 DEF c
    <3> QED BY ONLY <3>1, <2>3, ConcatProperties
  <2>6. ASSUME NEW i \in 1 .. Len(pending_list')
        PROVE  \/ i \in 1 .. Len(c) /\ pending_list'[i] = c[i]
               \/ i - Len(c) \in 1 .. Len(rest) /\ pending_list'[i] = rest[i - Len(c)]
    BY ONLY <2>1, <2>2, <2>4, <2>5, <2>6
  <2>7. \A j \in 1 .. Len(rest) : BudgetOK(rest[j])
    BY <1>2, <2>3 DEF n
  <2>8. \A j \in 1 .. Len(c) : BudgetOK(c[j])
    BY <1>2 DEF c
  <2> QED BY <2>6, <2>7, <2>8
<1> QED BY <1>3, <1>4

(* A launch keeps the stream invariant: the device appends what the host will
   append later. *)
LEMMA LaunchStream ==
  ASSUME ControlInv, ContractInv, StreamInv, Launch
  PROVE  StreamInv'
<1>1. PICK Us \in SUBSET Uids :
           /\ pc = "plan" /\ pc' = "drain"
           /\ drain' = IF Overlap THEN last_data.reqs ELSE ongoing'.reqs
           /\ UNCHANGED <<last_data, reply>>
           /\ out' = [out EXCEPT !.admitted = out'.admitted]
           /\ req' \in [Uids -> Reqs]
           /\ \A v \in Uids \ Us : req'[v] = req[v]
           /\ \A v \in Us : req'[v] = [req[v] EXCEPT !.cached_len = req[v].device_len,
                                                     !.device_len = req[v].device_len + 1]
           /\ Distinct(ongoing'.reqs)
           /\ \A i \in 1 .. Len(ongoing'.reqs) :
                /\ ongoing'.reqs[i].uid \in Us
                /\ ongoing'.reqs[i].n = req[ongoing'.reqs[i].uid].n
           /\ \A v \in Us : \E i \in 1 .. Len(ongoing'.reqs) : ongoing'.reqs[i].uid = v
           /\ \A v \in Us : Held(v) /\ ~req[v].aborted
           /\ IF adder.reqs # <<>>
              THEN /\ Us = {adder.reqs[i].uid : i \in 1 .. Len(adder.reqs)}
                   /\ pending_list' = pending_after_plan
              ELSE Us \subseteq running_reqs /\ pending_list' = pending_list
  BY LaunchFacts
<1>2. /\ Planning /\ ~Planning' /\ req \in [Uids -> Reqs] /\ reply = <<>>
      /\ \A v \in Uids : ~Processed(v)'
  BY <1>1, StreamTypes DEF Planning, Processed
<1>3. /\ Old = last_data.reqs /\ New = <<>>
      /\ Overlap => Old' = Old /\ New' = ongoing'.reqs
      /\ ~Overlap => Old = <<>> /\ Old' = ongoing'.reqs /\ New' = <<>>
  <2>1. Old = last_data.reqs /\ New = <<>>
    BY <1>1 DEF Old, New
  <2>2. Overlap => Old' = Old /\ New' = ongoing'.reqs
    BY <1>1, <2>1 DEF Old, New
  <2>3. ~Overlap => Old' = ongoing'.reqs /\ New' = <<>>
    BY <1>1 DEF Old, New
  <2>4. ~Overlap => Old = <<>>
    BY <2>1 DEF ControlInv, BatchesOK, NoBatch
  <2> QED BY <2>1, <2>2, <2>3, <2>4
<1>4. out'.tokens = out.tokens /\ out'.finished = out.finished /\ \A u : Sent(u)' = Sent(u)
  <2>1. out'.tokens = out.tokens /\ out'.finished = out.finished
    BY <1>1, ContractTypes
  <2> QED BY <1>1, <2>1, SentSame
<1>5. ASSUME NEW v \in Us
      PROVE  /\ req'[v].n = req[v].n /\ req'[v].chunked = req[v].chunked
             /\ req'[v].input_ids = req[v].input_ids /\ req'[v].output_len = req[v].output_len
             /\ req'[v].table_idx = req[v].table_idx /\ req'[v].aborted = req[v].aborted
             /\ req'[v].cached_len = req[v].device_len /\ req'[v].device_len = req[v].device_len + 1
  <2>1. PICK r \in Reqs : r = req[v]
    BY <1>2
  <2>2. req'[v] = [r EXCEPT !.cached_len = r.device_len, !.device_len = r.device_len + 1]
    BY <1>1, <2>1
  <2> QED BY ONLY <2>1, <2>2 DEF Reqs
<1>6. \A v \in Us : Processed(v) \/ v \in running_reqs
  <2>1. ASSUME NEW v \in Us, adder.reqs # <<>>
        PROVE  Processed(v)
    <3>1. Us = {adder.reqs[i].uid : i \in 1 .. Len(adder.reqs)}
      BY <1>1, <2>1
    <3>2. \E i \in 1 .. Len(adder.reqs) : adder.reqs[i].uid = v
      BY ONLY <3>1, v \in Us
    <3> QED BY <1>2, <3>2 DEF Processed
  <2>2. ASSUME NEW v \in Us, adder.reqs = <<>>
        PROVE  v \in running_reqs
    BY <1>1, <2>2
  <2> QED BY <2>1, <2>2
<1>7. \A v \in Uids : Processed(v) => v \in Us
  <2>1. ASSUME NEW v \in Uids, Processed(v)
        PROVE  v \in Us
    <3>1. PICK i \in 1 .. Len(adder.reqs) : adder.reqs[i].uid = v
      BY <2>1 DEF Processed
    <3>2. adder.reqs # <<>>
      BY ONLY <3>1
    <3>3. Us = {adder.reqs[j].uid : j \in 1 .. Len(adder.reqs)}
      BY <1>1, <3>2
    <3> QED BY ONLY <3>1, <3>3
  <2> QED BY <2>1
<1>8. \A v \in Uids : /\ req'[v].n = req[v].n /\ req'[v].chunked = req[v].chunked
                      /\ req'[v].input_ids = req[v].input_ids
                      /\ req'[v].table_idx = req[v].table_idx /\ req'[v].aborted = req[v].aborted
                      /\ max_device_len(v)' = max_device_len(v)
                      /\ req'[v].output_len = req[v].output_len
  BY <1>1, <1>5 DEF max_device_len
<1>9. ASSUME NEW v \in Us
      PROVE  /\ req[v].device_len \in Nat /\ Len(req[v].input_ids) \in Nat /\ max_device_len(v) \in Nat
             /\ ConfigMaxSeqLen \in Nat /\ req[v].n > 0
             /\ req[v].device_len < max_device_len(v) /\ max_device_len(v) <= ConfigMaxSeqLen
             /\ write_position(v) = IF req[v].chunked THEN ConfigMaxSeqLen ELSE req[v].device_len + 1
             /\ Len(req[v].input_ids) < write_position(v)
             /\ ~req[v].chunked => req[v].device_len = Len(req[v].input_ids) + Lag(v)
             /\ req[v].chunked => Processed(v)
  BY <1>1, <1>2, <1>6, LaunchSizes
<1>10. BudgetsOK'
  <2>1. BudgetsOK
    BY DEF StreamInv
  <2>2. \A i \in 1 .. Len(pending_list') : BudgetOK(pending_list'[i])
    BY <1>1, <1>2, LaunchBudgets DEF pending_after_plan
  <2>3. ASSUME NEW v \in Uids
        PROVE  IF req'[v].n = 0 THEN req'[v].device_len = 0 /\ req'[v].cached_len = 0
               ELSE /\ req'[v].cached_len <= req'[v].device_len
                    /\ req'[v].device_len <= max_device_len(v)'
                    /\ req'[v].output_len > 0 /\ max_device_len(v)' <= ConfigMaxSeqLen
    <3>1. CASE v \in Us
      <4>1. req'[v].n # 0 /\ req'[v].output_len > 0
        BY <1>8, <1>9, <2>1, <3>1 DEF BudgetsOK
      <4> QED BY <1>5, <1>8, <1>9, <3>1, <4>1
    <3>2. CASE v \notin Us
      <4>1. req'[v] = req[v] /\ max_device_len(v)' = max_device_len(v)
        BY <1>1, <1>8, <3>2
      <4> QED BY <2>1, <4>1 DEF BudgetsOK
    <3> QED BY <3>1, <3>2
  <2> QED BY <1>2, <2>2, <2>3 DEF BudgetsOK, BudgetOK
<1>11. ChunksOK'
  <2>1. ASSUME NEW v \in Uids
        PROVE  /\ req'[v].n = 0 \/ req'[v].chunked => Sent(v)' = <<>>
               /\ req'[v].chunked =>
                    /\ req'[v].input_ids = Prefix(Prompt[v], Len(req'[v].input_ids))
                    /\ Len(req'[v].input_ids) < Len(Prompt[v])
                    /\ Len(req'[v].input_ids) = req'[v].cached_len
    <3>1. /\ req[v].n = 0 \/ req[v].chunked => Sent(v) = <<>>
          /\ req[v].chunked =>
               /\ req[v].input_ids = Prefix(Prompt[v], Len(req[v].input_ids))
               /\ Len(req[v].input_ids) < Len(Prompt[v])
               /\ Len(req[v].input_ids) = IF Processed(v) THEN req[v].device_len ELSE req[v].cached_len
      BY DEF StreamInv, ChunksOK
    <3>2. CASE v \in Us
      BY <1>4, <1>5, <1>9, <3>1, <3>2
    <3>3. CASE v \notin Us
      BY <1>1, <1>4, <1>7, <3>1, <3>3
    <3> QED BY <3>2, <3>3
  <2> QED BY <1>2, <2>1 DEF ChunksOK
<1>12. HostOK'
  <2>1. HostOK
    BY DEF StreamInv
  <2> QED BY <1>4, <1>8, <2>1 DEF HostOK, Holders, Held
<1>13. EndsOK'
  <2>1. EndsOK
    BY DEF StreamInv
  <2>2. \A u \in Uids : (Ending(u)' <=> Ending(u)) /\ (Complete(u)' <=> Complete(u))
    BY <1>1, <1>4, <1>8 DEF Ending, Complete
  <2> QED BY <1>4, <2>1, <2>2 DEF EndsOK
<1>14. DeviceOK'
  <2>1. ASSUME NEW v \in Uids, Held(v)'
        PROVE  RowOK(v)'
    <3>1. Held(v) /\ req'[v].table_idx = req[v].table_idx /\ RowOK(v)
      BY <1>8, <2>1 DEF StreamInv, DeviceOK, Holders, Held
    <3>2. CASE v \notin Us
      <4>1. \A i \in 1 .. Len(ongoing'.reqs) : ongoing'.reqs[i].uid # v
        BY <1>1, <3>2
      <4>2. Device(v)' = Device(v) /\ req'[v] = req[v]
        BY <1>1, <3>1, <3>2, <4>1, LaunchTokens DEF Device
      <4>3. /\ \A i \in 1 .. Len(New') : New'[i].uid # v
            /\ \A i \in 1 .. Len(Old') : Old'[i].uid = v => Old' = Old
        BY <1>3, <4>1
      <4> QED BY ONLY <3>1, <4>2, <4>3 DEF RowOK
    <3>3. CASE v \in Us
      <4> DEFINE len == Len(req[v].input_ids)
                 at  == write_position(v)
                 d   == req[v].device_len
      <4>1. PICK i \in 1 .. Len(ongoing'.reqs) : ongoing'.reqs[i].uid = v
        BY <1>1, <3>3
      <4>2. /\ ongoing'.reqs[i].n = req[v].n
            /\ \A j \in 1 .. Len(ongoing'.reqs) : ongoing'.reqs[j].uid = v => j = i
        BY <1>1, <4>1 DEF Distinct
      <4>3. Device(v)' = [Device(v) EXCEPT ![at] = ongoing'.reqs[i].token]
        BY <3>1, <4>1, LaunchTokens DEF Device
      <4>4. Device(v) \in [1 .. ConfigMaxSeqLen -> Vocab \cup {0}]
        BY <3>1, StreamTypes DEF Device, Held, Reqs
      <4>5. /\ d \in Nat /\ len \in Nat /\ ConfigMaxSeqLen \in Nat /\ d < ConfigMaxSeqLen /\ len < at
            /\ at = IF req[v].chunked THEN ConfigMaxSeqLen ELSE d + 1
            /\ ~req[v].chunked => d = len + Lag(v)
        <5>1. d < ConfigMaxSeqLen
          <6> HIDE DEF d
          <6>1. d \in Nat /\ max_device_len(v) \in Nat /\ ConfigMaxSeqLen \in Nat
                /\ d < max_device_len(v) /\ max_device_len(v) <= ConfigMaxSeqLen
            BY <1>9, <3>3 DEF d
          <6> QED BY ONLY <6>1
        <5> QED BY <1>9, <3>3, <5>1
      <4> HIDE DEF at, d
      <4>6. /\ req'[v].input_ids = req[v].input_ids /\ req'[v].device_len = d + 1
            /\ req'[v].n = req[v].n /\ req'[v].chunked = req[v].chunked
            /\ req'[v].aborted = req[v].aborted
        BY <1>5, <3>3 DEF d
      <4>7. \A k \in 1 .. len : Device(v)'[k] = req[v].input_ids[k]
        <5>1. \A k \in 1 .. len : k # at /\ Device(v)[k] = req[v].input_ids[k] /\ k \in DOMAIN Device(v)
          <6>1. \A k \in 1 .. len : k # at /\ k \in 1 .. ConfigMaxSeqLen
            BY ONLY <4>5
          <6> QED BY <3>1, <4>4, <6>1 DEF RowOK
        <5> HIDE DEF len
        <5> QED BY ONLY <4>3, <5>1
      <4>8. ~req[v].chunked => at = d + 1 /\ Device(v)'[d + 1] = ongoing'.reqs[i].token
        <5>1. ~req[v].chunked => at = d + 1 /\ d + 1 \in 1 .. ConfigMaxSeqLen
          BY ONLY <4>5
        <5> QED BY ONLY <4>3, <4>4, <5>1
      <4>9. ASSUME ~req[v].chunked, ~req[v].aborted, NEW j \in 1 .. Len(Old'),
                   Old'[j].uid = v, Old'[j].n = req[v].n
            PROVE  Device(v)'[len + 1] = Old'[j].token
        <5>1. CASE Overlap
          <6>1. j \in 1 .. Len(Old) /\ Old'[j] = Old[j] /\ Old[j].uid = v /\ Old[j].n = req[v].n
            BY <1>3, <4>9, <5>1
          <6>2. Device(v)[len + 1] = Old[j].token
            BY <3>1, <4>9, <6>1 DEF RowOK
          <6>3. Lag(v) \in Nat /\ Lag(v) # 0
            BY <6>1 DEF Lag, In
          <6>4. len + 1 # at /\ len + 1 \in 1 .. ConfigMaxSeqLen
            <7> HIDE DEF len
            <7> QED BY ONLY <4>5, <4>8, <4>9, <6>3
          <6> QED BY ONLY <4>3, <4>4, <6>1, <6>2, <6>4
        <5>2. CASE ~Overlap
          <6>1. Old'[j] = ongoing'.reqs[i]
            BY <1>3, <4>2, <4>9, <5>2
          <6>2. Lag(v) = 0
            BY <1>3, <5>2 DEF Lag, In
          <6>3. len + 1 = d + 1
            BY <4>5, <4>9, <6>2
          <6> QED BY <4>8, <4>9, <6>1, <6>3
        <5> QED BY <5>1, <5>2
      <4>10. ASSUME ~req[v].chunked, NEW j \in 1 .. Len(New'), New'[j].uid = v
             PROVE  Device(v)'[d + 1] = New'[j].token
        <5>1. New' = ongoing'.reqs
          BY <1>3, <4>10
        <5>2. New'[j] = ongoing'.reqs[i]
          BY <4>2, <4>10, <5>1
        <5> QED BY <4>8, <4>10, <5>2
      <4> HIDE DEF len
      <4> QED BY <4>6, <4>7, <4>9, <4>10 DEF RowOK, len
    <3> QED BY <3>2, <3>3
  <2> QED BY <2>1, LaunchTokens DEF DeviceOK, Holders
<1> QED BY <1>10, <1>11, <1>12, <1>13, <1>14 DEF StreamInv

-----------------------------------------------------------------------------
(* The end of an iteration, and the invariant.                             *)

\* The replies leave: what was about to be sent has been.
LEMMA EndIterationStream ==
  ASSUME ControlInv, ContractInv, StreamInv, EndIteration
  PROVE  StreamInv'
<1> DEFINE F == {reply[i].uid : i \in {j \in 1 .. Len(reply) : reply[j].finished}}
<1>1. /\ pc = "drain" /\ pc' # "drain" /\ reply' = <<>>
      /\ UNCHANGED <<pending_list, req>>
      /\ out'.tokens = [u \in Uids |-> out.tokens[u] \o new_tokens(u)]
      /\ out'.finished = out.finished \cup F
  BY EndIterationFacts, Zenon
<1>2. /\ drain = <<>> /\ pc' \in {"recv", "idle"} /\ token_pool' = token_pool
      /\ ongoing' = NoBatch /\ last_data' = IF Overlap THEN ongoing ELSE NoBatch
  BY DEF EndIteration
<1>3. Old = <<>> /\ New' = <<>> /\ Old' = New
  <2>1. CASE Overlap
    BY <1>1, <1>2, <2>1 DEF Old, New
  <2>2. CASE ~Overlap
    BY <1>1, <1>2, <2>2 DEF Old, New, NoBatch
  <2> QED BY <2>1, <2>2
<1>4. ASSUME NEW u \in Uids
      PROVE  Sent(u)' = Sent(u)
  <2>1. out'.tokens[u] = Sent(u) /\ Sent(u) \in Seq(Vocab)
    BY <1>1, SentType DEF Sent
  <2>2. TokensIn(reply', u) = <<>>
    <3>1. PICK l : l = reply' /\ l = <<>>
      BY <1>1
    <3>2. Distinct(l) /\ Len(l) \in Nat /\ \A i \in 1 .. Len(l) : l[i].uid # u
      BY ONLY <3>1 DEF Distinct
    <3>3. TokensIn(l, u) = <<>>
      BY ONLY <3>2, TokensInReplies
    <3> QED BY <3>1, <3>3
  <2>3. Sent(u)' = out'.tokens[u] \o <<>>
    BY <2>2 DEF Sent, new_tokens
  <2> QED BY <2>1, <2>3, ConcatEmptySeq
<1>5. \A u \in Uids : Ending(u)' <=> Ending(u)
  <2>1. ASSUME NEW u
        PROVE  u \in F <=> \E i \in 1 .. Len(reply) : reply[i].uid = u /\ reply[i].finished
    OBVIOUS
  <2> HIDE DEF F
  <2>2. \A u : Ending(u)' <=> u \in out.finished \cup F
    BY <1>1 DEF Ending
  <2> QED BY <2>1, <2>2 DEF Ending
<1>6. /\ \A u \in Uids : ~Processed(u) /\ ~Processed(u)' /\ max_device_len(u)' = max_device_len(u)
      /\ ~Planning'
  BY <1>1, <1>2 DEF Processed, Planning, max_device_len
<1>7. BudgetsOK'
  BY <1>1, <1>6 DEF StreamInv, BudgetsOK, BudgetOK
<1>8. ChunksOK'
  BY <1>1, <1>4, <1>6 DEF StreamInv, ChunksOK
<1>9. HostOK'
  <2>1. HostOK
    BY DEF StreamInv
  <2>2. req' = req
    BY <1>1
  <2> QED BY ONLY <1>4, <1>6, <2>1, <2>2 DEF HostOK, Holders, Held
<1>10. EndsOK'
  <2>1. \A u \in Uids : Complete(u)' <=> Complete(u)
    BY <1>4, <1>6 DEF Complete
  <2> QED BY <1>4, <1>5, <2>1 DEF StreamInv, EndsOK
<1>11. DeviceOK'
  <2>1. ASSUME NEW v \in Uids, Held(v)
        PROVE  RowOK(v)'
    <3>1. RowOK(v)
      BY <2>1 DEF StreamInv, DeviceOK, Holders
    <3>2. Device(v)' = Device(v) /\ req' = req
      BY <1>1, <1>2 DEF Device
    <3>3. ASSUME ~req[v].chunked, ~req[v].aborted, NEW i \in 1 .. Len(New),
                 New[i].uid = v, New[i].n = req[v].n
          PROVE  Device(v)[Len(req[v].input_ids) + 1] = New[i].token
      <4>1. req[v].device_len = Len(req[v].input_ids) + Lag(v)
        BY <2>1, <3>3 DEF ControlInv, HeldOK, Known
      <4>2. Lag(v) = 1
        <5>1. In(v, New) /\ ~In(v, Old)
          BY <1>3, <3>3 DEF In
        <5> QED BY <5>1 DEF Lag
      <4>3. Device(v)[req[v].device_len] = New[i].token
        BY <3>1, <3>3 DEF RowOK
      <4> QED BY <4>1, <4>2, <4>3
    <3> QED BY <1>3, <3>1, <3>2, <3>3 DEF RowOK
  <2> QED BY <1>1, <1>2, <2>1 DEF StreamInv, DeviceOK, Holders, Held
<1> QED BY <1>7, <1>8, <1>9, <1>10, <1>11 DEF StreamInv

(* The stream invariant holds of the initial states. *)
LEMMA InitStream ==
  ASSUME Init
  PROVE  StreamInv
<1>1. /\ pc = "idle" /\ reply = <<>> /\ pending_list = <<>> /\ req = [u \in Uids |-> NoReq]
      /\ token_pool = [t \in Tables |-> EmptyRow]
      /\ out = [tokens   |-> [u \in Uids |-> <<>>],
                admitted |-> [u \in Uids |-> 0],
                finished |-> {}, error |-> {}, acked |-> {}, rebuilds |-> 0]
  BY DEF Init
<1>2. \A u \in Uids : /\ req[u].n = 0 /\ ~req[u].chunked /\ req[u].table_idx = NoTable
                      /\ req[u].device_len = 0 /\ req[u].cached_len = 0
  BY <1>1 DEF NoReq
<1>3. ASSUME NEW u \in Uids
      PROVE  Sent(u) = <<>>
  <2>1. new_tokens(u) = <<>>
    BY <1>1, NewTokens DEF Distinct
  <2> QED BY <1>1, <2>1 DEF Sent
<1>4. BudgetsOK
  BY <1>1, <1>2 DEF BudgetsOK, Planning
<1>5. ChunksOK
  BY <1>2, <1>3 DEF ChunksOK
<1>6. Holders = {}
  BY <1>2 DEF Holders, Held
<1>7. HostOK
  BY <1>6 DEF HostOK
<1>8. EndsOK
  BY <1>1, <1>3 DEF EndsOK, Ending
<1>9. DeviceOK
  BY <1>1, <1>6 DEF DeviceOK, EmptyRow
<1> QED BY <1>4, <1>5, <1>7, <1>8, <1>9 DEF StreamInv

(* Every step of the scheduler keeps the stream invariant. *)
LEMMA NextStream ==
  ASSUME ControlInv, ContractInv, StreamInv, [Next]_vars
  PROVE  StreamInv'
<1>1. CASE Receive
  <2>1. CASE \E u \in Uids : AbortUnheld(u) \/ AbortInFlight(u) \/ AbortHeld(u)
    BY <2>1, AbortStream
  <2>2. CASE \/ \E u \in Uids : UserAborted(u) \/ UserTooLong(u) \/ UserQueued(u)
             \/ \E n \in RebuildSizes : RebuildReceived(n)
    BY <2>2, ReceiveStream
  <2> QED BY <1>1, <2>1, <2>2 DEF Receive
<1>2. CASE Loop
  <2>1. CASE EndReceive \/ RebuildRejected
    BY <2>1, ReceiveStream
  <2>2. CASE RebuildDone
    BY <2>2, RebuildDoneStream
  <2>3. CASE AdmitContinuation \/ AdmitFresh
    BY <2>3, AdmitStream
  <2>4. CASE ChunkMultimodal \/ NoLaunch
    BY <2>4, NoLaunchStream
  <2>5. CASE Launch
    BY <2>5, LaunchStream
  <2>6. CASE DrainChunk \/ DrainAborted \/ DrainStale
    BY <2>6, SilentVisitStream
  <2>7. CASE DrainFinished \/ DrainPrefilled \/ DrainDecoded
    BY <2>7, DrainStream
  <2>8. CASE EndIteration
    BY <2>8, EndIterationStream
  <2> QED BY <1>2, <2>1, <2>2, <2>3, <2>4, <2>5, <2>6, <2>7, <2>8 DEF Loop
<1>3. CASE Quiescent \/ UNCHANGED vars
  BY <1>3, NoLaunchStream DEF Quiescent
<1> QED BY <1>1, <1>2, <1>3 DEF Next

\* Through chunks, launches, drains, aborts and rebuilds, scheduler.py keeps the
\* row of token_pool, the host's copy and the stream sent in step.
THEOREM StreamInvariant == Spec => []StreamInv
<1>1. Init => StreamInv
  BY InitStream
<1>2. ControlInv /\ ContractInv /\ StreamInv /\ [Next]_vars => StreamInv'
  BY NextStream
<1> QED BY <1>1, <1>2, ControlInvariant, ContractInvariant, PTL DEF Spec

\* A request's host copy is a prefix of the row the device writes, one token
\* behind for each launched batch, and the client's stream is exactly its tail:
\* append_host and _make_write_tuple agree on every position.
THEOREM HostNeverDiverges == Spec => []HostFollowsDevice
<1>1. ControlInv /\ ContractInv /\ StreamInv => HostFollowsDevice
  <2> SUFFICES ASSUME ControlInv, ContractInv, StreamInv, NEW u \in Uids, Held(u)
               PROVE  /\ req[u].input_ids = Prefix(token_pool[req[u].table_idx], Len(req[u].input_ids))
                      /\ ~req[u].chunked => req[u].input_ids = Prompt[u] \o out.tokens[u] \o new_tokens(u)
    BY DEF HostFollowsDevice, Holders
  <2> DEFINE ids == req[u].input_ids
             row == token_pool[req[u].table_idx]
  <2>1. /\ ids \in Seq(Vocab) /\ Len(ids) \in Nat /\ ConfigMaxSeqLen \in Nat /\ req[u] \in Reqs
        /\ Prompt[u] \in Seq(Vocab) /\ Len(Prompt[u]) \in Nat /\ req[u].output_len \in Nat
        /\ req[u].n \in Nat
    <3>1. req[u] \in Reqs
      BY ContractTypes
    <3>2. /\ req[u].output_len \in 0 .. ConfigMaxSeqLen /\ ids \in Seq(Vocab) /\ req[u].n \in Nat
      BY <3>1 DEF Reqs
    <3> QED BY <3>1, <3>2, LenProperties, SchedulerAssumption
  <2>2. row \in [1 .. ConfigMaxSeqLen -> Vocab \cup {0}]
    BY <2>1, StreamTypes DEF Held, Reqs
  <2>3. \A k \in 1 .. Len(ids) : row[k] = ids[k]
    BY DEF StreamInv, DeviceOK, Holders, RowOK, Device
  <2>4. Len(ids) <= ConfigMaxSeqLen
    <3>1. req[u].n # 0
      BY <2>1 DEF ControlInv, UnbornOK
    <3>2. max_device_len(u) <= ConfigMaxSeqLen /\ max_device_len(u) = Len(Prompt[u]) + req[u].output_len
      BY <3>1 DEF StreamInv, BudgetsOK, max_device_len
    <3>3. Len(ids) < max_device_len(u) \/ Len(ids) < Len(Prompt[u])
      BY DEF StreamInv, HostOK, ChunksOK, Holders
    <3> HIDE DEF ids
    <3> QED BY ONLY <2>1, <3>2, <3>3
  <2>5. ids = Prefix(row, Len(ids))
    <3> HIDE DEF ids, row
    <3>1. Prefix(row, Len(ids)) = [k \in 1 .. Len(ids) |-> row[k]]
      BY ONLY <2>1, <2>2, <2>4 DEF Prefix
    <3>2. ids = [k \in 1 .. Len(ids) |-> ids[k]]
      BY ONLY <2>1
    <3> QED BY ONLY <2>3, <3>1, <3>2
  <2>6. ~req[u].chunked => ids = Prompt[u] \o out.tokens[u] \o new_tokens(u)
    <3>1. ~req[u].chunked => ids = Prompt[u] \o (out.tokens[u] \o new_tokens(u))
      BY DEF StreamInv, HostOK, Holders, Sent
    <3>2. (Prompt[u] \o out.tokens[u]) \o new_tokens(u) = Prompt[u] \o (out.tokens[u] \o new_tokens(u))
      <4>1. out.tokens[u] \in Seq(Vocab) /\ new_tokens(u) \in Seq(Vocab)
        BY SentType
      <4>2. PICK a \in Seq(Vocab), b \in Seq(Vocab), c \in Seq(Vocab) :
              a = Prompt[u] /\ b = out.tokens[u] /\ c = new_tokens(u)
        BY <2>1, <4>1
      <4>3. (a \o b) \o c = a \o (b \o c)
        BY ONLY ConcatAssociative, a \in Seq(Vocab), b \in Seq(Vocab), c \in Seq(Vocab)
      <4> QED BY <4>2, <4>3
    <3> QED BY <3>1, <3>2
  <2> QED BY <2>5, <2>6
<1> QED BY <1>1, ControlInvariant, ContractInvariant, StreamInvariant, PTL

\* No stream goes on after an EOS or beyond its budget, and one reported
\* finished ends with either: the overlapped step launched before the end was
\* seen adds nothing to it.
THEOREM StreamsStopExactly == Spec => []StopsExactly
<1>1. ControlInv /\ ContractInv /\ StreamInv => StopsExactly
  <2> SUFFICES ASSUME ControlInv, ContractInv, StreamInv, NEW u \in Uids
               PROVE  /\ \A i \in 1 .. Len(out.tokens[u]) - 1 : out.tokens[u][i] # Eos
                      /\ u \in out.finished =>
                           \/ Last(out.tokens[u]) = Eos
                           \/ Len(Prompt[u]) + Len(out.tokens[u]) = max_device_len(u)
    BY DEF StopsExactly
  <2>1. /\ \A k \in 1 .. Len(Sent(u)) - 1 : Sent(u)[k] # Eos
        /\ u \in out.finished => Complete(u)
    BY DEF StreamInv, EndsOK, Ending
  <2>2. CASE \A i \in 1 .. Len(reply) : reply[i].uid # u
    <3>1. Sent(u) = out.tokens[u]
      BY <2>2, SentType
    <3> QED BY <2>1, <3>1 DEF Complete
  <2>3. CASE \E i \in 1 .. Len(reply) : reply[i].uid = u
    <3>1. u \notin out.finished
      BY <2>3 DEF ContractInv, RepliesOK
    <3>2. out.tokens[u] \in Seq(Vocab) /\ new_tokens(u) \in Seq(Vocab)
      BY SentType
    <3>3. Len(new_tokens(u)) = 1
      <4>1. PICK i \in 1 .. Len(reply) : reply[i].uid = u
        BY <2>3
      <4>2. new_tokens(u) = <<reply[i].token>>
        <5>1. Distinct(reply) /\ Len(reply) \in Nat
          BY ContractTypes DEF ContractInv, RepliesOK
        <5> QED BY ONLY <4>1, <5>1, NewTokens
      <4> QED BY <4>2
    <3> DEFINE n == Len(out.tokens[u])
    <3>4. /\ n \in Nat /\ Len(Sent(u)) = n + 1
          /\ \A i \in 1 .. n : Sent(u)[i] = out.tokens[u][i]
      <4>1. Len(out.tokens[u] \o new_tokens(u)) = n + Len(new_tokens(u))
            /\ \A i \in 1 .. n + Len(new_tokens(u)) :
                 (out.tokens[u] \o new_tokens(u))[i] =
                   IF i <= n THEN out.tokens[u][i] ELSE new_tokens(u)[i - n]
        BY ONLY <3>2, ConcatProperties
      <4>2. n \in Nat
        BY <3>2, LenProperties
      <4> HIDE DEF n
      <4>3. \A i \in 1 .. n : i \in 1 .. n + 1 /\ i <= n
        BY ONLY <4>2
      <4> QED BY <3>3, <4>1, <4>2, <4>3 DEF Sent
    <3>5. \A i \in 1 .. n - 1 : i \in 1 .. n /\ i \in 1 .. Len(Sent(u)) - 1
      <4> HIDE DEF n
      <4> QED BY ONLY <3>4
    <3> QED BY <2>1, <3>1, <3>4, <3>5
  <2> QED BY <2>2, <2>3
<1> QED BY <1>1, ControlInvariant, ContractInvariant, StreamInvariant, PTL

\* No object runs past the row of token_pool, whatever the engine's pool size.
LengthsFit == \A u \in Uids : req[u].cached_len <= ConfigMaxSeqLen /\ req[u].device_len <= ConfigMaxSeqLen

(* An object's lengths are within its row, from the budget it was given. *)
LEMMA LengthsBound ==
  ASSUME ControlInv, StreamInv
  PROVE  LengthsFit
<1> SUFFICES ASSUME NEW u \in Uids
             PROVE  req[u].cached_len <= ConfigMaxSeqLen /\ req[u].device_len <= ConfigMaxSeqLen
  BY DEF LengthsFit
<1>1. /\ req[u].cached_len \in Nat /\ req[u].device_len \in Nat /\ ConfigMaxSeqLen \in Nat
      /\ req[u].output_len \in Nat /\ Len(Prompt[u]) \in Nat
  <2>1. Prompt[u] \in Seq(Vocab) /\ ConfigMaxSeqLen \in Nat
    BY SchedulerAssumption
  <2>2. req[u] \in Reqs
    BY DEF ControlInv, ControlTypes
  <2>3. /\ req[u].cached_len \in Nat /\ req[u].device_len \in Nat
        /\ req[u].output_len \in 0 .. ConfigMaxSeqLen
    BY ONLY <2>2 DEF Reqs
  <2> QED BY ONLY <2>1, <2>3
<1>2. max_device_len(u) = Len(Prompt[u]) + req[u].output_len
  BY DEF max_device_len
<1>3. IF req[u].n = 0 THEN req[u].device_len = 0 /\ req[u].cached_len = 0
      ELSE /\ req[u].cached_len <= req[u].device_len
           /\ req[u].device_len <= max_device_len(u)
           /\ req[u].output_len > 0 /\ max_device_len(u) <= ConfigMaxSeqLen
  BY DEF StreamInv, BudgetsOK
<1> QED BY ONLY <1>1, <1>2, <1>3

(* The clamp of the output budget on receipt (_process_one_msg) is enough: no
   chunk, overlapped launch, abort or rebuild takes an object past its row. *)
THEOREM LengthsNeverOverrun == Spec => []LengthsFit
<1>1. ControlInv /\ StreamInv => LengthsFit
  BY LengthsBound
<1> QED BY <1>1, ControlInvariant, StreamInvariant, PTL
==============================================================================
