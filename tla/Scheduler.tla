------------------------------ MODULE Scheduler ------------------------------
(***************************************************************************)
(* The scheduler process of scheduler/scheduler.py with the managers it    *)
(* drives: PrefillManager and PrefillAdder (prefill.py), DecodeManager     *)
(* (decode.py), TableManager (table.py), CacheManager over the plain radix *)
(* cache (cache.py, RadixTree) and the engine's forward (engine.py).       *)
(*                                                                         *)
(* One iteration of overlap_loop / normal_loop is the phases               *)
(*                                                                         *)
(*   idle  blocked in receive_msg, after run_when_idle's integrity check   *)
(*   recv  taking the messages that have arrived                           *)
(*   plan  PrefillManager.schedule_next_batch, one pending request a step  *)
(*   drain _process_last_data, one batch entry a step                      *)
(*                                                                         *)
(* and raise_multimodal, where an exception ends it.  The device runs the   *)
(* forwards in launch order (both loops order the two CUDA streams     *)
(* with wait_stream), so a forward's writes take effect at its launch and  *)
(* only its sampled tokens reach the host later, at the drain.             *)
(***************************************************************************)
EXTENDS RadixTree

CONSTANTS
    Uids,            \* requests; natural numbers, for decode batches are sorted by uid
    Prompt,          \* Prompt[u]: the request's input_ids
    MaxTokens,       \* MaxTokens[u]: the sampling parameters' max_tokens
    Multimodal,      \* the requests that carry mm_embeds
    Vocab,           \* the tokens the sampler may return; zero is the token pool's filler
    Eos,             \* a token that ends generation (an EOS id, or one completing a stop string)
    NumPages,        \* pages of the KV pool at startup
    RebuildSizes,    \* pool sizes a runtime rebuild may ask for
    RebuildLimit,    \* bound on the rebuild requests of one behaviour
    ConfigMaxSeqLen, \* config.max_seq_len
    MaxRunningReqs,  \* rows of the page table
    PrefillBudget,   \* config.max_extend_tokens
    Overlap          \* overlap_loop, or normal_loop (DISABLE_OVERLAP_SCHEDULING)

ASSUME SchedulerAssumption ==
    /\ Uids \subseteq Nat
    /\ Vocab \subseteq Nat \ {0}
    /\ Eos \in Vocab
    /\ Prompt \in [Uids -> Seq(Vocab)]
    /\ \A u \in Uids : Len(Prompt[u]) > 0
    /\ MaxTokens \in [Uids -> Nat \ {0}]
    /\ Multimodal \subseteq Uids
    /\ NumPages \in Nat \ {0}
    /\ RebuildSizes \subseteq Nat \ {0} /\ IsFiniteSet(RebuildSizes)
    /\ RebuildLimit \in Nat
    /\ ConfigMaxSeqLen \in Nat \ {0}
    /\ MaxRunningReqs \in Nat \ {0}
    /\ PrefillBudget \in Nat \ {0}
    /\ Overlap \in BOOLEAN

Tables == 0 .. MaxRunningReqs - 1
Pages == 0 .. Max({NumPages} \cup RebuildSizes) - 1

VARIABLES
    pc,                 \* the phase of the scheduler loop
    pending_list,       \* PrefillManager.pending_list
    running_reqs,       \* DecodeManager.running_reqs
    req,                \* the newest Req object of each request
    adder,              \* PrefillAdder and the locals of schedule_next_batch
    last_data,          \* the batch launched by the previous iteration (overlap)
    ongoing,            \* the batch this iteration launched
    drain,              \* entries of the batch that _process_last_data has still to visit
    reply,              \* its DetokenizeMsg list
    finished_reqs,
    new_finished_reqs,
    tombstones,         \* _abort_tombstones
    pending_abort_acks,
    pending_rebuild,    \* page count of the queued CacheRebuildBackendMsg, or NoRebuild
    num_pages,          \* engine.num_pages
    free_slots,         \* CacheManager.free_slots
    lazy_free_list,     \* pages freed inside lazy_free_region
    tree,               \* the prefix cache
    table_free,         \* TableManager._free_slots
    page_table,         \* page_table[t]: pages of the live row t
    token_pool,         \* token_pool[t]: the device's copy of the row's tokens
    kv,                 \* what each KV slot holds: the token sequence it was computed from
    inbox,              \* messages not yet received: user, abort, and rebuild requests made
    out                 \* what has been sent for each request, and rebuild replies

device == <<free_slots, tree, table_free, page_table, token_pool, kv>>
batches == <<last_data, ongoing, drain, reply, finished_reqs, new_finished_reqs, lazy_free_list>>
vars == <<pc, pending_list, running_reqs, req, adder, batches, tombstones, pending_abort_acks,
          pending_rebuild, num_pages, device, inbox, out>>

NoRebuild == 0 - 1
NoTable == 0 - 1
NoBatch == [phase |-> "none", reqs |-> <<>>]
NoAdder == [token_budget |-> 0, reserved_size |-> 0, reqs |-> <<>>, chunked_list |-> <<>>,
            rest |-> <<>>]
NoReq == [n |-> 0, table_idx |-> NoTable, cached_len |-> 0, device_len |-> 0, output_len |-> 0,
          input_ids |-> <<>>, handle |-> <<>>, chunked |-> FALSE, aborted |-> FALSE]
EmptyKV == [o \in 0 .. PageSize - 1 |-> <<>>]
EmptyRow == [i \in 1 .. ConfigMaxSeqLen |-> 0]
AllPages(n) == [i \in 1 .. n |-> i - 1]

Init ==
    /\ pc = "idle"
    /\ pending_list = <<>>
    /\ running_reqs = {}
    /\ req = [u \in Uids |-> NoReq]
    /\ adder = NoAdder
    /\ last_data = NoBatch
    /\ ongoing = NoBatch
    /\ drain = <<>>
    /\ reply = <<>>
    /\ finished_reqs = {}
    /\ new_finished_reqs = {}
    /\ tombstones = {}
    /\ pending_abort_acks = {}
    /\ pending_rebuild = NoRebuild
    /\ num_pages = NumPages
    /\ free_slots = AllPages(NumPages)
    /\ lazy_free_list = <<>>
    /\ tree = EmptyTree
    /\ table_free = AllPages(MaxRunningReqs)
    /\ page_table = [t \in Tables |-> <<>>]
    /\ token_pool = [t \in Tables |-> EmptyRow]
    /\ kv = [p \in Pages |-> EmptyKV]
    /\ inbox = [user |-> Uids, abort |-> Uids, rebuilds |-> 0]
    /\ out = [tokens   |-> [u \in Uids |-> <<>>],
              admitted |-> [u \in Uids |-> 0],
              finished |-> {}, error |-> {}, acked |-> {}, rebuilds |-> 0]

-----------------------------------------------------------------------------
(* Req (core.py) and the sizes the managers compute from it.               *)

max_device_len(u) == Len(Prompt[u]) + req[u].output_len
remain_len(u) == max_device_len(u) - req[u].device_len
can_decode_late(r, u) == ~r.chunked /\ r.device_len <= Len(Prompt[u]) + r.output_len
can_decode(r, u) == ~r.chunked /\ r.device_len < Len(Prompt[u]) + r.output_len
max_seq_len_configured == ConfigMaxSeqLen
max_seq_len == Min({ConfigMaxSeqLen, num_pages * PageSize})

\* The sum of the remain_len, counted one by one, and (page_size - 1) for each.
inflight_tokens ==
    Cardinality(UNION {{u} \X (1 .. remain_len(u)) : u \in running_reqs})
      + (PageSize - 1) * Cardinality(running_reqs)
kv_reservation_size(total, cached) == (CeilPages(total) - CeilPages(cached)) * PageSize

prefill_runnable == pending_list # <<>>
decode_runnable == running_reqs # {}
runnable == prefill_runnable \/ decode_runnable

InNoBatch(u, batch) == FALSE
\* Is the request's newest object an entry of the batch?
InBatch(u, batch) ==
    \E i \in 1 .. Len(batch.reqs) : batch.reqs[i].uid = u /\ batch.reqs[i].n = req[u].n

-----------------------------------------------------------------------------
(* CacheManager.cache_req and Scheduler._free_req_resources.               *)

\* The pages of row that hold positions [from, to), the padding of the last
\* page included.
SliceUnpadded(row, from, to) == SubSeq(row, from \div PageSize + 1, to \div PageSize)
Slice(row, from, to) == SubSeq(row, from \div PageSize + 1, CeilPages(to))

\* The row with the pages of [from, to) replaced by the tree's.
NotRepointed(row, canonical, from, to) == row
Repointed(row, canonical, from, to) ==
    [i \in DOMAIN row |->
        IF i \in from \div PageSize + 1 .. to \div PageSize THEN canonical[i] ELSE row[i]]

\* A prompt whose token ids say all there is about its KV.
Shareable(u) == u \notin Multimodal

\* The tokens of the object whose KV is computed, as far as the host knows them.
HostIds(r) == r.input_ids
ComputedIds(r) == Prefix(r.input_ids, Min({Len(r.input_ids), r.cached_len}))

\* cache_req on the object r, whose row is page_table[r.table_idx]: commit what
\* is computed to the tree, unlock the old handle, and free the duplicates; a
\* finished request also frees its tail, a running one is re-pointed at the
\* tree's pages and locks its new handle.
cache_req(u, r, finished) ==
    LET row  == page_table[r.table_idx]
        old  == Len(r.handle)
        ins  == insert_prefix(tree, ComputedIds(r), row)
        dup  == IF ins.cached_len > old THEN Slice(row, old, ins.cached_len) ELSE <<>>
        canonical == get_matched_indices(ins.tree, ins.path)
    IN  CASE ~Shareable(u) ->
               [tree |-> unlock(tree, r.handle), row |-> row, handle |-> r.handle,
                freed |-> IF finished THEN Slice(row, old, r.cached_len) ELSE <<>>]
          [] Shareable(u) /\ finished ->
               [tree |-> unlock(ins.tree, r.handle), row |-> row, handle |-> r.handle,
                freed |-> dup \o Slice(row, Len(ins.path), r.cached_len)]
          [] OTHER ->
               [tree |-> lock(unlock(ins.tree, r.handle), ins.path),
                row |-> Repointed(row, canonical, old, ins.cached_len),
                handle |-> ins.path,
                freed |-> dup]

\* Blank what freed pages held: nothing may rely on it again.
Scrub(pages) == [p \in Pages |-> IF p \in ToSet(pages) THEN EmptyKV ELSE kv[p]]

\* _free_req_resources on an object that still has its row (r), the caller
\* saying what becomes of the freed pages.
FreeRowKept(u, r, commit) ==
    /\ tree' = commit.tree
    /\ table_free' = table_free
    /\ page_table' = [page_table EXCEPT ![r.table_idx] = <<>>]
    /\ token_pool' = [token_pool EXCEPT ![r.table_idx] = EmptyRow]
    /\ req' = [req EXCEPT ![u] = [r EXCEPT !.table_idx = NoTable]]
FreeRow(u, r, commit) ==
    /\ tree' = commit.tree
    /\ table_free' = Append(table_free, r.table_idx)
    /\ page_table' = [page_table EXCEPT ![r.table_idx] = <<>>]
    /\ token_pool' = [token_pool EXCEPT ![r.table_idx] = EmptyRow]
    /\ req' = [req EXCEPT ![u] = [r EXCEPT !.table_idx = NoTable]]

-----------------------------------------------------------------------------
(* Receiving.  receive_msg blocks only in phase idle; one message a step.  *)

Receiving == pc \in {"idle", "recv"} /\ pc' = "recv"

\* A UserMsg whose abort overtook it is dropped with its tombstone.
UserAborted(u) ==
    /\ Receiving
    /\ u \in inbox.user /\ u \in tombstones
    /\ inbox' = [inbox EXCEPT !.user = @ \ {u}]
    /\ tombstones' = tombstones \ {u}
    /\ UNCHANGED <<pending_list, running_reqs, req, adder, batches, pending_abort_acks,
                   pending_rebuild, num_pages, device, out>>

UserTooLong(u) ==
    /\ Receiving
    /\ u \in inbox.user /\ u \notin tombstones
    /\ max_seq_len - Len(Prompt[u]) <= 0
    /\ inbox' = [inbox EXCEPT !.user = @ \ {u}]
    /\ out' = [out EXCEPT !.error = @ \cup {u}]
    /\ UNCHANGED <<pending_list, running_reqs, req, adder, batches, tombstones,
                   pending_abort_acks, pending_rebuild, num_pages, device>>

UserQueued(u) ==
    /\ Receiving
    /\ u \in inbox.user /\ u \notin tombstones
    /\ max_seq_len - Len(Prompt[u]) > 0
    /\ inbox' = [inbox EXCEPT !.user = @ \ {u}]
    /\ pending_list' =
         Append(pending_list,
                [uid |-> u, chunked |-> FALSE,
                 output_len |-> Min({MaxTokens[u], max_seq_len - Len(Prompt[u])})])
    /\ UNCHANGED <<running_reqs, req, adder, batches, tombstones, pending_abort_acks,
                   pending_rebuild, num_pages, device, out>>

\* What prefill_manager.abort_req or decode_manager.abort_req hands back.
AbortTarget(u) ==
    \/ \E i \in 1 .. Len(pending_list) : pending_list[i].uid = u /\ pending_list[i].chunked
    \/ u \in running_reqs

\* PrefillManager.abort_req pops the request's entry.
PopPending(u) ==
    IF \E i \in 1 .. Len(pending_list) : pending_list[i].uid = u
    THEN \E i \in 1 .. Len(pending_list) :
            pending_list[i].uid = u /\ pending_list' = RemoveAt(pending_list, i)
    ELSE UNCHANGED pending_list

AbortReceived(u) ==
    /\ Receiving
    /\ u \in inbox.abort
    /\ inbox' = [inbox EXCEPT !.abort = @ \ {u}]
    /\ tombstones' = tombstones \cup {u}
    /\ pending_abort_acks' = pending_abort_acks \cup {u}
    /\ PopPending(u)
    /\ running_reqs' = running_reqs \ {u}
    /\ UNCHANGED <<adder, batches, pending_rebuild, num_pages, out>>

\* Nothing is held for the request: unknown, only queued, or already finished.
AbortUnheld(u) ==
    /\ AbortReceived(u)
    /\ ~AbortTarget(u)
    /\ UNCHANGED <<req, device>>

\* Its forward is launched and not drained: only mark it.
AbortInFlight(u) ==
    /\ AbortReceived(u)
    /\ AbortTarget(u) /\ InBatch(u, last_data)
    /\ req' = [req EXCEPT ![u].aborted = TRUE]
    /\ UNCHANGED device

AbortHeld(u) ==
    /\ AbortReceived(u)
    /\ AbortTarget(u) /\ ~InBatch(u, last_data)
    /\ IF req[u].table_idx = NoTable
       THEN UNCHANGED <<req, device>>
       ELSE LET commit == cache_req(u, req[u], TRUE)
            IN  /\ FreeRow(u, req[u], commit)
                /\ free_slots' = free_slots \o commit.freed
                /\ kv' = Scrub(commit.freed)

\* The frontend keeps at most one rebuild outstanding (_active_rebuild_id).
RebuildReceived(n) ==
    /\ Receiving
    /\ inbox.rebuilds < RebuildLimit /\ inbox.rebuilds = out.rebuilds
    /\ inbox' = [inbox EXCEPT !.rebuilds = @ + 1]
    /\ IF runnable
       THEN /\ out' = [out EXCEPT !.rebuilds = @ + 1]
            /\ UNCHANGED pending_rebuild
       ELSE /\ pending_rebuild' = n
            /\ UNCHANGED out
    /\ UNCHANGED <<pending_list, running_reqs, req, adder, batches, tombstones,
                   pending_abort_acks, num_pages, device>>

-----------------------------------------------------------------------------
(* From the end of receive_msg to the start of _schedule_next_batch.       *)

StartPlan ==
    /\ pc' = "plan"
    /\ adder' = [token_budget |-> PrefillBudget, reserved_size |-> inflight_tokens,
                 reqs |-> <<>>, chunked_list |-> <<>>, rest |-> pending_list]

RebuildDueInFlight == pending_rebuild # NoRebuild /\ ~runnable
RebuildDueGated ==
    pending_rebuild # NoRebuild /\ last_data = NoBatch /\ ~runnable /\ finished_reqs = {}
RebuildDue == pending_rebuild # NoRebuild /\ last_data = NoBatch /\ ~runnable

EndReceive ==
    /\ pc = "recv" /\ ~RebuildDue
    /\ StartPlan
    /\ UNCHANGED <<pending_list, running_reqs, req, batches, tombstones, pending_abort_acks,
                   pending_rebuild, num_pages, device, inbox, out>>

\* _execute_pending_rebuild, for a resize the engine validated ...
RebuildDone ==
    /\ pc = "recv" /\ RebuildDue
    /\ StartPlan
    /\ num_pages' = pending_rebuild
    /\ free_slots' = AllPages(pending_rebuild)
    /\ tree' = EmptyTree
    /\ table_free' = AllPages(MaxRunningReqs)
    /\ page_table' = [t \in Tables |-> <<>>]
    /\ token_pool' = [t \in Tables |-> EmptyRow]
    /\ kv' = [p \in Pages |-> EmptyKV]
    /\ pending_rebuild' = NoRebuild
    /\ out' = [out EXCEPT !.rebuilds = @ + 1]
    /\ UNCHANGED <<pending_list, running_reqs, req, batches, tombstones, pending_abort_acks, inbox>>

\* ... and for one it rejects before any teardown (CacheRebuildRejected).
RebuildRejected ==
    /\ pc = "recv" /\ RebuildDue
    /\ StartPlan
    /\ pending_rebuild' = NoRebuild
    /\ out' = [out EXCEPT !.rebuilds = @ + 1]
    /\ UNCHANGED <<pending_list, running_reqs, req, batches, tombstones, pending_abort_acks,
                   num_pages, device, inbox>>

-----------------------------------------------------------------------------
(* PrefillManager.schedule_next_batch: try_add_one on adder.rest's head.   *)

candidate == Head(adder.rest)
is_continuation == candidate.chunked
CanTry == pc = "plan" /\ adder.rest # <<>> /\ adder.token_budget > 0

\* The length of the head's next chunk, and whether prompt is left after it.
chunk_size(cached) == Min({adder.token_budget, Len(Prompt[candidate.uid]) - cached})
is_chunked(cached) == chunk_size(cached) < Len(Prompt[candidate.uid]) - cached

\* _add_one_req for the head, whose first `cached` tokens are computed and
\* whose row is t, holding tokens.
AddOne(cached, t, handle, reserved, tokens) ==
    LET u     == candidate.uid
        upto  == cached + chunk_size(cached)
    IN  /\ token_pool' = [token_pool EXCEPT ![t] =
               [i \in 1 .. ConfigMaxSeqLen |->
                  IF i \in cached + 1 .. upto THEN Prompt[u][i] ELSE tokens[i]]]
        /\ req' = [req EXCEPT ![u] =
               [n |-> req[u].n + 1, table_idx |-> t, cached_len |-> cached, device_len |-> upto,
                output_len |-> candidate.output_len, input_ids |-> Prefix(Prompt[u], upto),
                handle |-> handle, chunked |-> is_chunked(cached), aborted |-> FALSE]]
        /\ adder' =
               [token_budget |-> adder.token_budget - chunk_size(cached),
                reserved_size |-> adder.reserved_size + reserved,
                reqs |-> Append(adder.reqs,
                                [uid |-> u, n |-> req[u].n + 1, chunked |-> is_chunked(cached),
                                 token |-> 0, fresh |-> ~is_continuation]),
                chunked_list |-> IF is_chunked(cached)
                                 THEN Append(adder.chunked_list,
                                             [candidate EXCEPT !.chunked = TRUE])
                                 ELSE adder.chunked_list,
                rest |-> Tail(adder.rest)]

match_req_by_ids(u) == match_prefix(tree, Front(Prompt[u]))
\* match_req leaves the last prompt token to be computed.
match_req(u) ==
    match_prefix(tree, IF Shareable(u) THEN Front(Prompt[u]) ELSE <<>>)

estimated_size(cached) ==
    kv_reservation_size(Len(Prompt[candidate.uid]) + candidate.output_len, cached)

Available(t, reserve) == EvictableSize(t) + Len(free_slots) * PageSize >= reserve

AdmitContinuation ==
    /\ CanTry /\ candidate.chunked
    /\ LET r == req[candidate.uid]
       IN  AddOne(r.cached_len, r.table_idx, r.handle,
                  estimated_size(r.cached_len), token_pool[r.table_idx])
    /\ UNCHANGED <<pc, pending_list, running_reqs, batches, tombstones, pending_abort_acks,
                   pending_rebuild, num_pages, free_slots, tree, table_free, page_table, kv,
                   inbox, out>>

\* What the availability check looks at: the tree with the match locked.
MatchUnlocked(mr) == mr.tree
MatchLocked(mr) == lock(mr.tree, mr.path)

\* _try_allocate_one: a row, and pages enough with the matched prefix locked.
Fits ==
    /\ CanTry /\ ~candidate.chunked
    /\ table_free # <<>>
    /\ LET mr == match_req(candidate.uid)
       IN  Available(MatchLocked(mr),
                     estimated_size(Len(mr.path)) + adder.reserved_size)

AdmitFresh ==
    /\ Fits
    /\ LET mr     == match_req(candidate.uid)
           cached == Len(mr.path)
           t      == Last(table_free)
       IN  /\ ~(candidate.uid \in Multimodal /\ is_chunked(cached))
           /\ tree' = lock(mr.tree, mr.path)
           /\ table_free' = Front(table_free)
           /\ page_table' = [page_table EXCEPT ![t] = get_matched_indices(mr.tree, mr.path)]
           /\ AddOne(cached, t, mr.path, estimated_size(cached),
                     [i \in 1 .. ConfigMaxSeqLen |->
                        IF i <= cached THEN Prompt[candidate.uid][i] ELSE token_pool[t][i]])
    /\ UNCHANGED <<pc, pending_list, running_reqs, batches, tombstones, pending_abort_acks,
                   pending_rebuild, num_pages, free_slots, kv, inbox, out>>

\* A multimodal prompt cannot be chunked: _add_one_req raises, and the
\* exception ends the scheduler process.
ChunkMultimodal ==
    /\ Fits /\ candidate.uid \in Multimodal /\ is_chunked(0)
    /\ pc' = "raise_multimodal"
    /\ UNCHANGED <<pending_list, running_reqs, req, adder, batches, tombstones,
                   pending_abort_acks, pending_rebuild, num_pages, device, inbox, out>>

\* try_add_one refuses the head, or there is none.
Refused == pc = "plan" /\ ~Fits /\ ~(CanTry /\ candidate.chunked)

\* A refused head has still been matched, and the walk may have split a node.
tree_after_plan ==
    IF \/ adder.rest = <<>> \/ adder.token_budget <= 0 \/ table_free = <<>>
       \/ candidate.chunked
    THEN tree
    ELSE match_req(candidate.uid).tree

-----------------------------------------------------------------------------
(* _prepare_batch (allocate_paged) and _forward.                           *)

new_pages(u) == CeilPages(req[u].device_len) - CeilPages(req[u].cached_len)
\* How many pages the entries before the i-th take, counted one by one.
PagesBefore(rs, i) == Cardinality(UNION {{j} \X (1 .. new_pages(rs[j].uid)) : j \in 1 .. i - 1})

\* allocate_paged: each entry's row grows by its new pages, in batch order.
RowAfter(rs, i, allocated) ==
    LET u == rs[i].uid
    IN  Prefix(page_table[req[u].table_idx], CeilPages(req[u].cached_len))
          \o SubSeq(allocated, PagesBefore(rs, i) + 1, PagesBefore(rs, i) + new_pages(u))

\* What a token turns into before attention sees it: an image placeholder of
\* one request is not that of another, whatever the token ids.
Embedded(u, ids) ==
    [i \in DOMAIN ids |-> <<IF u \in Multimodal THEN {u} ELSE {}, ids[i]>>]

\* What the forward computes at position pos (from 0) of u's row: attention
\* reads the KV before it, the input is the row of token_pool.
Computed(u, row, pos) ==
    LET cached == req[u].cached_len
        before == IF cached = 0 THEN <<>>
                  ELSE kv[row[(cached - 1) \div PageSize + 1]][(cached - 1) % PageSize]
    IN  before \o Embedded(u, SubSeq(token_pool[req[u].table_idx], cached + 1, pos + 1))

\* _make_write_tuple: the (1-based) column of the row that takes the sampled
\* token; an object that cannot decode writes to the last one.
write_position_early(u) == IF can_decode(req[u], u) THEN req[u].device_len ELSE ConfigMaxSeqLen
write_position(u) == IF can_decode(req[u], u) THEN req[u].device_len + 1 ELSE ConfigMaxSeqLen

\* The batch _schedule_next_batch forms: what was admitted, or else every
\* running request in uid order.
phase == IF adder.reqs # <<>> THEN "prefill" ELSE "decode"
DecodeOrders ==
    {s \in [1 .. Cardinality(running_reqs) -> running_reqs] :
        \A i, j \in DOMAIN s : i < j => s[i] < s[j]}
Planned ==
    IF adder.reqs # <<>> THEN {adder.reqs}
    ELSE {[i \in DOMAIN s |-> [uid |-> s[i], n |-> req[s[i]].n, chunked |-> FALSE,
                               token |-> 0, fresh |-> FALSE]] : s \in DecodeOrders}

missing_pages(rs) == PagesBefore(rs, Len(rs) + 1) - Len(free_slots)

\* allocate_paged, then the forward and complete_one for each entry, then
\* filter_reqs.
Forward(rs, evicted, sampled) ==
    LET victims   == SetToSeq(PagesOf(tree_after_plan, evicted))
        short     == PagesBefore(rs, Len(rs) + 1)
        slots     == free_slots \o victims
        allocated == SubSeq(slots, 1, short)
        At(t)     == CHOOSE i \in 1 .. Len(rs) : req[rs[i].uid].table_idx = t
        InIt(t)   == \E i \in 1 .. Len(rs) : req[rs[i].uid].table_idx = t
        rows      == [t \in Tables |-> IF InIt(t) THEN RowAfter(rs, At(t), allocated)
                                       ELSE page_table[t]]
        Writes(u) == {pos \in req[u].cached_len .. req[u].device_len - 1 : TRUE}
        Slot(u, pos) == <<rows[req[u].table_idx][pos \div PageSize + 1], pos % PageSize>>
        Us        == {rs[i].uid : i \in 1 .. Len(rs)}
        after     == [u \in Uids |->
                        IF u \in Us THEN [req[u] EXCEPT !.cached_len = req[u].device_len,
                                                        !.device_len = @ + 1]
                        ELSE req[u]]
        scrubbed  == Scrub(victims)
    IN  /\ tree' = RemoveNodes(tree_after_plan, evicted)
        /\ free_slots' = SubSeq(slots, short + 1, Len(slots))
        /\ page_table' = rows
        /\ kv' = [p \in Pages |-> [o \in 0 .. PageSize - 1 |->
                    IF \E u \in Us : \E pos \in Writes(u) : Slot(u, pos) = <<p, o>>
                    THEN LET u   == CHOOSE u \in Us : \E pos \in Writes(u) : Slot(u, pos) = <<p, o>>
                             pos == CHOOSE pos \in Writes(u) : Slot(u, pos) = <<p, o>>
                         IN  Computed(u, rows[req[u].table_idx], pos)
                    ELSE scrubbed[p][o]]]
        /\ token_pool' = [t \in Tables |->
                IF ~InIt(t) THEN token_pool[t]
                ELSE LET u == rs[At(t)].uid
                     IN  [token_pool[t] EXCEPT ![write_position(u)] = sampled[u]]]
        /\ req' = after
        /\ running_reqs' = {u \in running_reqs \cup Us : can_decode(after[u], u)}
        /\ ongoing' = [phase |-> phase,
                       reqs |-> [i \in 1 .. Len(rs) |->
                                   [uid |-> rs[i].uid, n |-> rs[i].n, chunked |-> rs[i].chunked,
                                    token |-> sampled[rs[i].uid]]]]

\* What the sampler may return: a chunk's token is never looked at.
Samples(rs) ==
    LET Chunked == {rs[i].uid : i \in {j \in 1 .. Len(rs) : rs[j].chunked}}
        Us      == {rs[i].uid : i \in 1 .. Len(rs)}
    IN  {s \in [Us -> Vocab] : \A u \in Chunked : s[u] = Eos}

pending_after_plan ==
    IF adder.reqs = <<>> THEN pending_list
    ELSE adder.chunked_list \o SubSeq(pending_list, Len(adder.reqs) + 1, Len(pending_list))

StartDrain ==
    /\ pc' = "drain"
    /\ adder' = NoAdder
    /\ drain' = IF Overlap THEN last_data.reqs ELSE ongoing'.reqs

Launch ==
    /\ Refused
    /\ adder.reqs # <<>> \/ decode_runnable
    /\ \E rs \in Planned :
         \E evicted \in IF missing_pages(rs) > 0
                        THEN Evictions(tree_after_plan, missing_pages(rs) * PageSize) ELSE {{}} :
           \E sampled \in Samples(rs) : Forward(rs, evicted, sampled)
    /\ pending_list' = pending_after_plan
    /\ out' = [out EXCEPT !.admitted = [u \in Uids |->
                 IF \E i \in 1 .. Len(adder.reqs) : adder.reqs[i].uid = u /\ adder.reqs[i].fresh
                 THEN @[u] + 1 ELSE @[u]]]
    /\ StartDrain
    /\ UNCHANGED <<last_data, reply, finished_reqs, new_finished_reqs, lazy_free_list,
                   tombstones, pending_abort_acks, pending_rebuild, num_pages, table_free, inbox>>

NoLaunch ==
    /\ Refused
    /\ adder.reqs = <<>> /\ ~decode_runnable
    /\ tree' = tree_after_plan
    /\ ongoing' = NoBatch
    /\ StartDrain
    /\ UNCHANGED <<pending_list, running_reqs, req, last_data, reply, finished_reqs,
                   new_finished_reqs, lazy_free_list, tombstones, pending_abort_acks,
                   pending_rebuild, num_pages, free_slots, table_free, page_table, token_pool,
                   kv, inbox, out>>

-----------------------------------------------------------------------------
(* _process_last_data, one entry of the batch a step, inside               *)
(* lazy_free_region: freed pages reach free_slots only when it exits.      *)

entry == Head(drain)
drained_batch == IF Overlap THEN last_data ELSE ongoing
object == req[entry.uid]
EntryNeverAborted == FALSE
EntryAborted == object.n = entry.n /\ object.aborted

Visit ==
    /\ pc = "drain" /\ drain # <<>>
    /\ drain' = Tail(drain)
    /\ UNCHANGED <<pc, pending_list, adder, last_data, ongoing, finished_reqs, tombstones,
                   pending_abort_acks, pending_rebuild, num_pages, free_slots, kv, inbox, out>>

NeverSeenFinished == FALSE
SeenFinished == entry.uid \in finished_reqs

\* _free_req_resources(r) in the region: a freed object is left alone.
FreeLazily(u, r) ==
    IF r.table_idx = NoTable
    THEN /\ req' = [req EXCEPT ![u] = r]
         /\ UNCHANGED <<tree, table_free, page_table, token_pool, lazy_free_list>>
    ELSE LET commit == cache_req(u, r, TRUE)
         IN  /\ FreeRow(u, r, commit)
             /\ lazy_free_list' = lazy_free_list \o commit.freed

DrainChunk ==
    /\ Visit
    /\ entry.chunked
    /\ IF EntryAborted
       THEN FreeLazily(entry.uid, object)
       ELSE UNCHANGED <<req, tree, table_free, page_table, token_pool, lazy_free_list>>
    /\ UNCHANGED <<running_reqs, reply, new_finished_reqs>>

DrainAborted ==
    /\ Visit
    /\ ~entry.chunked /\ EntryAborted
    /\ running_reqs' = running_reqs \ {entry.uid}
    /\ FreeLazily(entry.uid, object)
    /\ new_finished_reqs' = new_finished_reqs \cup {entry.uid}
    /\ UNCHANGED reply

\* One more step was launched before the request was seen to have ended.
DrainStale ==
    /\ Visit
    /\ ~entry.chunked /\ ~EntryAborted /\ SeenFinished
    /\ UNCHANGED <<running_reqs, req, reply, new_finished_reqs, tree, table_free, page_table,
                   token_pool, lazy_free_list>>

\* append_host, and the two ways a request ends.
appended == [object EXCEPT !.input_ids = Append(@, entry.token)]
ends_on_device == object.device_len >= max_device_len(entry.uid) \/ entry.token = Eos
ends == Len(appended.input_ids) >= max_device_len(entry.uid) \/ entry.token = Eos

Sampled ==
    /\ Visit
    /\ ~entry.chunked /\ ~EntryAborted /\ ~SeenFinished
    /\ reply' = Append(reply, [uid |-> entry.uid, token |-> entry.token, finished |-> ends])

DrainFinished ==
    /\ Sampled
    /\ ends
    /\ running_reqs' = running_reqs \ {entry.uid}
    /\ FreeLazily(entry.uid, appended)
    /\ new_finished_reqs' = new_finished_reqs \cup {entry.uid}

\* The whole prompt is computed: commit it to the prefix cache.
DrainPrefilled ==
    /\ Sampled
    /\ ~ends /\ drained_batch.phase = "prefill" /\ object.table_idx # NoTable
    /\ LET commit == cache_req(entry.uid, appended, FALSE)
       IN  /\ tree' = commit.tree
           /\ page_table' = [page_table EXCEPT ![object.table_idx] = commit.row]
           /\ lazy_free_list' = lazy_free_list \o commit.freed
           /\ req' = [req EXCEPT ![entry.uid] = [appended EXCEPT !.handle = commit.handle]]
    /\ UNCHANGED <<running_reqs, new_finished_reqs, table_free, token_pool>>

DrainDecoded ==
    /\ Sampled
    /\ ~ends /\ ~(drained_batch.phase = "prefill" /\ object.table_idx # NoTable)
    /\ req' = [req EXCEPT ![entry.uid] = appended]
    /\ UNCHANGED <<running_reqs, new_finished_reqs, tree, table_free, page_table, token_pool,
                   lazy_free_list>>

\* The tokens of the replies to u, in the order of the list.
TokensIn(replies, u) ==
    LET mine == {i \in 1 .. Len(replies) : replies[i].uid = u}
        nth  == CHOOSE s \in [1 .. Cardinality(mine) -> mine] :
                  \A i, j \in DOMAIN s : i < j => s[i] < s[j]
    IN  [k \in 1 .. Cardinality(mine) |-> replies[nth[k]].token]
new_tokens(u) == TokensIn(reply, u)

\* The region exits, the replies go out, _flush_abort_acks follows, and the
\* next iteration decides whether receive_msg blocks.
EndIteration ==
    /\ pc = "drain" /\ drain = <<>>
    /\ free_slots' = free_slots \o lazy_free_list
    /\ kv' = Scrub(lazy_free_list)
    /\ lazy_free_list' = <<>>
    /\ finished_reqs' = IF drained_batch = NoBatch THEN finished_reqs ELSE new_finished_reqs
    /\ new_finished_reqs' = {}
    /\ reply' = <<>>
    /\ out' = [out EXCEPT
                 !.tokens = [u \in Uids |-> @[u] \o new_tokens(u)],
                 !.finished = @ \cup {reply[i].uid : i \in {j \in DOMAIN reply : reply[j].finished}},
                 !.acked = @ \cup pending_abort_acks]
    /\ pending_abort_acks' = {}
    /\ last_data' = IF Overlap THEN ongoing ELSE NoBatch
    /\ ongoing' = NoBatch
    /\ pc' = IF last_data' # NoBatch \/ runnable \/ pending_rebuild # NoRebuild
             THEN "recv" ELSE "idle"
    /\ UNCHANGED <<pending_list, running_reqs, req, adder, drain, tombstones, pending_rebuild,
                   num_pages, tree, table_free, page_table, token_pool, inbox>>

\* Blocked in receive_msg with nothing left to arrive, or ended.
Quiescent ==
    /\ \/ pc = "raise_multimodal"
       \/ pc = "idle" /\ inbox.user = {} /\ inbox.abort = {} /\ inbox.rebuilds = RebuildLimit
    /\ UNCHANGED vars

-----------------------------------------------------------------------------
Receive ==
    \/ \E u \in Uids :
         \/ UserAborted(u) \/ UserTooLong(u) \/ UserQueued(u)
         \/ AbortUnheld(u) \/ AbortInFlight(u) \/ AbortHeld(u)
    \/ \E n \in RebuildSizes : RebuildReceived(n)

\* What the scheduler does without a message: none of it waits for anyone.
Loop ==
    \/ EndReceive \/ RebuildDone \/ RebuildRejected
    \/ AdmitContinuation \/ AdmitFresh \/ ChunkMultimodal \/ Launch \/ NoLaunch
    \/ DrainChunk \/ DrainAborted \/ DrainStale
    \/ DrainFinished \/ DrainPrefilled \/ DrainDecoded \/ EndIteration

Next == Receive \/ Loop \/ Quiescent

Spec == Init /\ [][Next]_vars
FairSpec == Spec /\ WF_vars(Loop)

-----------------------------------------------------------------------------
(* Properties.                                                             *)

Held(u) == req[u].table_idx # NoTable
Holders == {u \in Uids : Held(u)}
Row(u) == page_table[req[u].table_idx]
Private(u) == Slice(Row(u), Len(req[u].handle), PageSize * Len(Row(u)))
TreePages == {tree.page[b] : b \in Blocks(tree)}

Phases == {"idle", "recv", "plan", "drain", "raise_multimodal"}
PendingReqs == [uid : Uids, chunked : BOOLEAN, output_len : 1 .. ConfigMaxSeqLen]
Reqs == [n : Nat, table_idx : Tables \cup {NoTable}, cached_len : Nat, device_len : Nat,
         output_len : 0 .. ConfigMaxSeqLen, input_ids : Seq(Vocab), handle : Seq(Vocab),
         chunked : BOOLEAN, aborted : BOOLEAN]
Entries == [uid : Uids, n : Nat, chunked : BOOLEAN, token : Vocab]
Batches == [phase : {"none", "prefill", "decode"}, reqs : Seq(Entries)]
Replies == [uid : Uids, token : Vocab, finished : BOOLEAN]

\* Types of what the scheduler decides with ...
ControlTypes ==
    /\ pc \in Phases
    /\ pending_list \in Seq(PendingReqs)
    /\ running_reqs \subseteq Uids
    /\ req \in [Uids -> Reqs]
    /\ last_data \in Batches /\ ongoing \in Batches /\ drain \in Seq(Entries)
    /\ reply \in Seq(Replies)
    /\ finished_reqs \cup new_finished_reqs \cup tombstones \cup pending_abort_acks \subseteq Uids
    /\ pending_rebuild \in RebuildSizes \cup {NoRebuild}
    /\ num_pages \in {NumPages} \cup RebuildSizes
    /\ table_free \in Seq(Tables)
    /\ inbox \in [user : SUBSET Uids, abort : SUBSET Uids, rebuilds : Nat]
    /\ DOMAIN out = {"tokens", "admitted", "finished", "error", "acked", "rebuilds"}
    /\ out.finished \cup out.error \cup out.acked \subseteq Uids /\ out.rebuilds \in Nat

\* ... and of the memory it hands out, which no request outgrows.
MemoryTypes ==
    /\ \A u \in Uids :
         req[u].cached_len <= ConfigMaxSeqLen /\ req[u].device_len <= ConfigMaxSeqLen
    /\ free_slots \in Seq(Pages) /\ lazy_free_list \in Seq(Pages)
    /\ tree.page \in [Blocks(tree) -> Pages] /\ tree.ref \in [Nodes(tree) -> Nat]
    /\ \A t \in Tables : page_table[t] \in Seq(Pages)
    /\ token_pool \in [Tables -> [1 .. ConfigMaxSeqLen -> Vocab \cup {0}]]
    /\ out.tokens \in [Uids -> Seq(Vocab)] /\ out.admitted \in [Uids -> Nat]

\* Every variable has its type, and no request runs past max_seq_len
\* (Req.can_decode stops it; the row of token_pool has no more room).
TypeOK == ControlTypes /\ MemoryTypes

\* Every page has exactly one owner at every step: the free list, the list a
\* lazy_free_region will return, one block of the tree, or one request's own
\* part of its row.  The free, commit, evict and rebuild paths all move pages.
PagesConserved ==
    LET free   == ToSet(free_slots)
        lazy   == ToSet(lazy_free_list)
        own(u) == ToSet(Private(u))
    IN  /\ IsInjective(free_slots) /\ IsInjective(lazy_free_list) /\ IsInjective(tree.page)
        /\ \A u \in Holders : IsInjective(Private(u))
        /\ free \cap lazy = {} /\ (free \cup lazy) \cap TreePages = {}
        /\ \A u \in Holders :
             /\ own(u) \cap (free \cup lazy \cup TreePages) = {}
             /\ \A v \in Holders \ {u} : own(u) \cap own(v) = {}
        /\ free \cup lazy \cup TreePages \cup UNION {own(u) : u \in Holders} = 0 .. num_pages - 1

\* A request that holds a row reads, at every position already computed, KV
\* computed from exactly its own tokens: a page recycled, re-pointed or shared
\* wrongly shows up here.
RowsHoldOwnKV ==
    \A u \in Holders : \A pos \in 0 .. req[u].cached_len - 1 :
        kv[Row(u)[pos \div PageSize + 1]][pos % PageSize]
          = Embedded(u, Prefix(token_pool[req[u].table_idx], pos + 1))

\* What the prefix cache would serve to a later prompt is KV of that prefix.
TreeHoldsPrefixKV ==
    \A b \in Blocks(tree) : \A o \in 0 .. PageSize - 1 :
        LET ids == Prefix(b, Len(b) - PageSize + o + 1)
        IN  kv[tree.page[b]][o] = [i \in DOMAIN ids |-> <<{}, ids[i]>>]

\* The host's copy of a request's tokens trails the device's and never differs
\* from it, and the client has been sent, or is about to be, exactly its tail.
HostFollowsDevice ==
    \A u \in Holders :
        /\ req[u].input_ids = Prefix(token_pool[req[u].table_idx], Len(req[u].input_ids))
        /\ ~req[u].chunked => req[u].input_ids = Prompt[u] \o out.tokens[u] \o new_tokens(u)

\* allocate_paged always finds its pages: what the adder let in, and what the
\* running requests were reserved, fits in the free and evictable pages.
AllocationSucceeds ==
    Refused => \A rs \in Planned :
        missing_pages(rs) * PageSize <= EvictableSize(tree_after_plan)

\* A node's ref_count is the number of requests whose handle is at or below it.
RefCountsExact ==
    \A n \in Nodes(tree) :
        tree.ref[n] = Cardinality({u \in Holders : IsPrefix(n, req[u].handle)})

\* A page-table row has exactly one owner: the free list or one request.
TablesOwnedOnce ==
    pc # "raise_multimodal" =>
        /\ \A i, j \in 1 .. Len(table_free) : table_free[i] = table_free[j] => i = j
        /\ \A u, v \in Holders : req[u].table_idx = req[v].table_idx => u = v
        /\ \A u \in Holders : req[u].table_idx \notin ToSet(table_free)
        /\ \A t \in Tables : t \in ToSet(table_free) \/ \E u \in Holders : req[u].table_idx = t

\* A request in a launched batch whose results are not processed yet keeps its
\* row and pages, unless its last token has been seen: then the set the drain
\* will consult says so.
InFlightHolds ==
    /\ pc # "drain" =>
         \A i \in 1 .. Len(last_data.reqs) :
            Held(last_data.reqs[i].uid) \/ last_data.reqs[i].uid \in finished_reqs
    /\ pc = "drain" =>
         \A i \in 1 .. Len(drain) : Held(drain[i].uid) \/ drain[i].uid \in finished_reqs
    /\ pc = "drain" /\ Overlap =>
         \A i \in 1 .. Len(ongoing.reqs) :
            Held(ongoing.reqs[i].uid) \/ ongoing.reqs[i].uid \in new_finished_reqs

\* After the abort is acknowledged the request holds nothing and is queued
\* nowhere, and its late UserMsg will meet a tombstone.
AckedIsGone ==
    \A u \in out.acked :
        /\ ~Held(u) /\ u \notin running_reqs
        /\ \A i \in 1 .. Len(pending_list) : pending_list[i].uid # u
        /\ u \in inbox.user => u \in tombstones

\* run_when_idle finds every page free or cached; stronger, no request holds
\* a row, pages or a lock when the scheduler blocks.
IdleIntegrity ==
    pc = "idle" =>
        /\ Len(free_slots) + Cardinality(Blocks(tree)) = num_pages
        /\ Holders = {} /\ ProtectedSize(tree) = 0

\* A multimodal prompt no longer than max_extend_tokens "fits in a single
\* prefill chunk" (prefill.py:190), so it never raises.
MultimodalFits ==
    pc = "raise_multimodal" => Len(Prompt[candidate.uid]) > PrefillBudget

\* The cache is only rebuilt when no request holds a row and nothing is in flight.
RebuildOnlyIdle ==
    [][(RebuildDone \/ RebuildRejected) => Holders = {} /\ last_data = NoBatch]_vars

\* A reply stream goes on after no EOS, and gets its terminal reply, if it was not
\* aborted, only with an EOS or with the whole output budget.  That it gets one is
\* RequestsEnd.
StopsExactly ==
    \A u \in Uids :
        /\ \A i \in 1 .. Len(out.tokens[u]) - 1 : out.tokens[u][i] # Eos
        /\ u \in out.finished =>
             \/ Last(out.tokens[u]) = Eos
             \/ Len(Prompt[u]) + Len(out.tokens[u]) = max_device_len(u)

Terminal(u) == u \in out.finished \cup out.error \cup out.acked

\* Every request received reaches a terminal message.
RequestsEnd == \A u \in Uids : u \notin inbox.user ~> Terminal(u)

\* Every rebuild request is answered.
RebuildsAnswered == \A k \in 1 .. RebuildLimit : inbox.rebuilds >= k ~> out.rebuilds >= k
==============================================================================
