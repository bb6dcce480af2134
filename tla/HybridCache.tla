----------------------------- MODULE HybridCache -----------------------------
(***************************************************************************)
(* The cache of a hybrid model (full attention + linear-state layers):     *)
(* kvcache/hybrid_radix_cache.py, the slots of linear_state_pool.py, and   *)
(* the scheduler's overlap loop as far as it drives them (prefill.py's     *)
(* admission, attention/linear.py's tracking, cache.py's hybrid commit).   *)
(*                                                                         *)
(* A linear layer folds the whole prefix into ONE recurrent state, so a    *)
(* cached prefix can be resumed only where a state was frozen.  Each       *)
(* request holds three slots of the pool: its live state and two ping-pong *)
(* slots that the forward freezes a prefix into; commits donate a frozen   *)
(* or live slot to the tree instead of copying it.  The tree is RadixTree's*)
(* with two more fields over the nodes that bear a snapshot:               *)
(*                                                                         *)
(*   snap : node -> mamba_value, its state slot                            *)
(*   mref : node -> mamba_ref_count                                        *)
(*                                                                         *)
(* An iteration of the loop is recv, plan (one pending request a step),    *)
(* launch, drain (one batch entry a step).  The device runs the forwards   *)
(* in launch order.  The order among eviction candidates is left open.     *)
(***************************************************************************)
EXTENDS RadixTree

CONSTANTS
    Uids,           \* requests
    Prompt,         \* Prompt[u]: input_ids
    OutputLen,      \* OutputLen[u]: the output budget
    Vocab,          \* tokens the sampler may return
    Eos,            \* the one that ends generation
    Anchor,         \* toolcall_anchor_id
    CHUNK_SIZE,     \* tokens between two states the kernel can freeze
    NumPages,       \* KV pages
    NumSlots,       \* state slots without the padding slot
    MaxRunningReqs, \* rows of the page table
    PrefillBudget,  \* token budget of one prefill batch
    Abortable       \* requests the client may abort

ASSUME HybridAssumption ==
    /\ {Eos, Anchor} \subseteq Vocab
    /\ CHUNK_SIZE % PageSize = 0
    /\ NumSlots >= 4 * MaxRunningReqs     \* _linear_pool_min_slots - 1

None == 0
Pages == 1 .. NumPages
Slots == 1 .. NumSlots

VARIABLES
    pc,       \* the phase of the loop
    fresh,    \* requests that have not arrived
    pending,  \* PrefillManager.pending_list
    adder,    \* PrefillAdder and the locals of schedule_next_batch
    running,  \* DecodeManager.running_reqs
    req,      \* the newest Req of each request
    last,     \* the batch launched by the previous iteration
    ongoing,  \* the batch this iteration launched
    finished, \* finished_reqs and new_finished_reqs
    cache,    \* [tree, pages, slots]: the tree and the two free lists
    kv,       \* what each page holds: the tokens its newest entry was computed from
    state     \* what each state slot has absorbed: a token sequence

vars == <<pc, fresh, pending, adder, running, req, last, ongoing, finished, cache, kv, state>>

NoBatch == [prefill |-> FALSE, reqs |-> <<>>, chunked |-> {}]
NoAdder == [budget |-> 0, reserved |-> 0, reqs |-> <<>>, chunked |-> <<>>, rest |-> <<>>]
NoReq == [toks |-> <<>>, n |-> 0, cached_len |-> 0, device_len |-> 0, table |-> FALSE,
          handle |-> <<>>, row |-> <<>>, live |-> None, ping_pong |-> <<>>, next |-> 1,
          last_track |-> None, restore |-> None, anchor |-> None, chunked |-> FALSE,
          aborted |-> FALSE]

Init ==
    /\ pc = "recv"
    /\ fresh = Uids
    /\ pending = <<>>
    /\ adder = NoAdder
    /\ running = {}
    /\ req = [u \in Uids |-> NoReq]
    /\ last = NoBatch /\ ongoing = NoBatch
    /\ finished = [old |-> {}, new |-> {}]
    /\ cache = [tree  |-> EmptyTree @@ [snap |-> [n \in {} |-> 0], mref |-> [n \in {} |-> 0]],
                pages |-> Pages, slots |-> Slots]
    /\ kv = [p \in Pages |-> <<>>]
    /\ state = [s \in Slots |-> <<>>]

-----------------------------------------------------------------------------
(* HybridRadixCache                                                        *)

Snapshots(tree) == DOMAIN tree.snap

\* match_prefix: the walk splits where it stops; the match is cut back to the
\* deepest node on the path that still owns a snapshot.
Resumable(tree, ids) ==
    Prefix(ids, Max({0} \cup {n \in 1 .. Len(ids) : Prefix(ids, n) \in Snapshots(tree)}))
Deepest(tree, ids) == Prefix(ids, MatchLen(tree, ids))
Matched(tree, ids) == [tree |-> SplitAt(tree, Deepest(tree, ids)), path |-> Resumable(tree, ids)]

\* insert: taken tells whether the node took the slot (not mamba_exist).
Insert(tree, ids, row, slot) ==
    LET ins   == insert_prefix(tree, ids, row)
        grown == ins.tree @@ tree
        taken == ins.path # <<>> /\ ins.path \notin Snapshots(tree)
    IN  [prefix_len |-> ins.cached_len,
         taken |-> taken,
         tree |-> IF ~taken THEN grown
                  ELSE [grown EXCEPT !.snap = (ins.path :> slot) @@ @,
                                     !.mref = (ins.path :> 0) @@ @]]

inc_lock(tree, path) ==
    LET up == lock(tree, path)
    IN  IF path \in Snapshots(tree) THEN [up EXCEPT !.mref[path] = @ + 1] ELSE up
dec_lock(tree, path) ==
    LET up == unlock(tree, path)
    IN  IF path \in Snapshots(tree) /\ tree.mref[path] > 0
        THEN [up EXCEPT !.mref[path] = @ - 1] ELSE up

\* Frees the snapshots of the nodes in V and removes the nodes in E.
Without(c, V, E) ==
    LET t    == c.tree
        kept == Snapshots(t) \ V
    IN  [tree  |-> RemoveNodes(t, E) @@ [snap |-> [n \in kept |-> t.snap[n]],
                                         mref |-> [n \in kept |-> t.mref[n]]],
         pages |-> c.pages \cup PagesOf(t, E),
         slots |-> c.slots \cup {t.snap[n] : n \in V}]

AtOrBelow(tree, n) == {m \in Nodes(tree) : IsPrefix(n, m)}
IsLeaf(tree, n) == Children(tree, n) = {}

\* evict_mamba over the victims V: an internal victim becomes a tombstone, a
\* leaf goes with its pages, and the tombstones left without children follow.
UnlinkedLeaves(tree, V) ==
    {n \in V : tree.ref[n] = 0 /\ IsLeaf(tree, n)}
Unlinked(tree, V) ==
    {n \in Nodes(tree) :
        /\ tree.ref[n] = 0
        /\ \A m \in AtOrBelow(tree, n) : IsLeaf(tree, m) \/ m \in Snapshots(tree) => m \in V}
Unlocked(tree) == {n \in Snapshots(tree) : tree.mref[n] = 0}
evict_mamba(c, num) ==
    LET cands == Unlocked(c.tree)
    IN  {Without(c, V, Unlinked(c.tree, V)) : V \in kSubset(Min({num, Cardinality(cands)}), cands)}

\* evict_full: unlocked leaves, each with the tombstones it leaves behind,
\* until size tokens are free.
evict_full(c, size) ==
    LET t == c.tree
        SizeOf(E) == PageSize * Cardinality(UNION {BlocksOf(t, n) : n \in E})
        Cascaded(E) == \A n \in Nodes(t) \ (E \cup Snapshots(t)) :
                          t.ref[n] = 0 /\ Children(t, n) # {} => ~(Children(t, n) \subseteq E)
        Stops(E) == \E n \in E :
                      LET with == {m \in E : IsPrefix(m, n)}
                      IN  /\ with \cap Snapshots(t) \subseteq {n}
                          /\ SizeOf(E \ with) < size
    IN  {Without(c, E \cap Snapshots(t), E) :
            E \in {F \in SUBSET {n \in Nodes(t) : t.ref[n] = 0} :
                      /\ \A n \in F : Children(t, n) \subseteq F
                      /\ Cascaded(F) /\ SizeOf(F) >= size /\ Stops(F)}}

\* CacheManager.ensure_mamba_slots
ensure_mamba_slots(c, num) ==
    IF Cardinality(c.slots) >= num THEN {c} ELSE evict_mamba(c, num - Cardinality(c.slots))

\* The next free slots and pages; which ones the free lists give is immaterial.
InOrder(S) ==
    [i \in 1 .. Cardinality(S) |-> CHOOSE x \in S : Cardinality({y \in S : y < x}) = i - 1]
-----------------------------------------------------------------------------
(* Messages: a request arrives; a client aborts one that has.              *)

ids(r) == Prefix(r.toks, r.n)         \* Req.input_ids, the host's copy
max_device_len(u) == Len(Prompt[u]) + OutputLen[u]
remain_len(u) == max_device_len(u) - req[u].device_len
inflight_tokens == MapThenSumSet(remain_len, running) + (PageSize - 1) * Cardinality(running)
InBatch(u) == \E i \in 1 .. Len(last.reqs) : last.reqs[i] = u

Arrive(u) ==
    /\ pc = "recv" /\ u \in fresh
    /\ fresh' = fresh \ {u}
    /\ pending' = Append(pending, u)
    /\ UNCHANGED <<pc, adder, running, req, last, ongoing, finished, cache, kv, state>>

-----------------------------------------------------------------------------
(* _cache_req_hybrid and _free_req_slots                                   *)

RowPages(r, from, to) == {r.row[i] : i \in from \div PageSize + 1 .. CeilPages(to)}
Aligned(n) == AlignDown(n) = n
Max2(a, b) == Max({a, b})

\* The slot the forward froze last: next points at the other one.
frozen_next(r) == r.ping_pong[r.next]
frozen(r) == r.ping_pong[3 - r.next]

OnePingPong(r) == {r.ping_pong[1]}
PingPong(r) == ToSet(r.ping_pong)

\* A finish first donates a pending freeze, a shorter prefix than the live one.
DonateFrozen(r, c) ==
    LET L   == r.last_track
        h   == Len(r.handle)
        ins == Insert(c.tree, Prefix(ids(r), L), r.row, frozen(r))
        pp  == PingPong(r)
    IN  IF L = None \/ L > r.cached_len \/ ~Aligned(L)
        THEN [cache |-> [c EXCEPT !.slots = @ \cup pp], upto |-> h]
        ELSE [cache |-> [tree  |-> ins.tree,
                         pages |-> c.pages \cup RowPages(r, h, Max2(h, ins.prefix_len)),
                         slots |-> c.slots \cup (IF ins.taken THEN pp \ {frozen(r)} ELSE pp)],
              upto |-> Max2(h, L)]

\* Then the live slot, if cached_len is a node boundary.
DonateLive(r, d) ==
    LET c   == d.cache
        ins == Insert(c.tree, Prefix(ids(r), r.cached_len), r.row, r.live)
    IN  IF Aligned(r.cached_len)
        THEN [tree  |-> dec_lock(ins.tree, r.handle),
              pages |-> c.pages \cup RowPages(r, d.upto, Max2(d.upto, ins.prefix_len)),
              slots |-> IF ins.taken THEN c.slots ELSE c.slots \cup {r.live}]
        ELSE [tree  |-> dec_lock(c.tree, r.handle),
              pages |-> c.pages \cup RowPages(r, d.upto, r.cached_len),
              slots |-> c.slots \cup {r.live}]

\* _free_req_resources: cache_req(finished=True) and the row.
FinishedTwice(r, c) ==
    LET d == DonateLive(r, DonateFrozen(r, c)) IN [d EXCEPT !.slots = @ \cup ToSet(r.ping_pong)]
Finished(r, c) == DonateLive(r, DonateFrozen(r, c))
Released(u) == [req EXCEPT ![u] = [NoReq EXCEPT !.aborted = @, !.toks = req[u].toks]]

\* The commit after a prefill: donate the frozen slot, lock the node it went
\* to, and only then take a replacement, which may evict.
Committed(r, c) ==
    LET h    == Len(r.handle)
        L    == r.last_track
        key  == Prefix(ids(r), L)
        ins  == Insert(c.tree, key, r.row, frozen(r))
        m    == Matched(dec_lock(ins.tree, r.handle), key)
        held == [tree  |-> inc_lock(m.tree, m.path),
                 pages |-> c.pages \cup RowPages(r, h, Max2(h, ins.prefix_len)),
                 slots |-> c.slots]
        row  == [i \in DOMAIN r.row |->
                   IF i > h \div PageSize /\ i <= ins.prefix_len \div PageSize
                   THEN held.tree.page[Prefix(key, i * PageSize)] ELSE r.row[i]]
        kept == [r EXCEPT !.handle = m.path, !.row = row, !.last_track = None]
    IN  IF L = None \/ ~Aligned(L) THEN {[cache |-> c, r |-> [r EXCEPT !.last_track = None]]}
        ELSE IF ~ins.taken THEN {[cache |-> held, r |-> kept]}
        ELSE {[cache |-> [e EXCEPT !.slots = @ \ {InOrder(e.slots)[1]}],
               r |-> [kept EXCEPT !.ping_pong[3 - r.next] = InOrder(e.slots)[1]]] :
                 e \in {f \in ensure_mamba_slots(held, 1) : f.slots # {}}}

-----------------------------------------------------------------------------
\* AbortBackendMsg: a request in the batch in flight is only marked; the drain
\* frees it.
Abort(u) ==
    /\ pc = "recv" /\ u \in Abortable \ fresh /\ ~req[u].aborted
    /\ u \in ToSet(pending) \cup running
    /\ pending' = SelectSeq(pending, LAMBDA v : v # u)
    /\ running' = running \ {u}
    /\ IF ~req[u].table
       THEN UNCHANGED <<req, cache>>
       ELSE IF InBatch(u)
       THEN req' = [req EXCEPT ![u].aborted = TRUE] /\ UNCHANGED cache
       ELSE req' = Released(u) /\ cache' = Finished(req[u], cache)
    /\ UNCHANGED <<pc, fresh, adder, last, ongoing, finished, kv, state>>

-----------------------------------------------------------------------------
(* PrefillManager.schedule_next_batch                                      *)

StartPlan ==
    /\ pc = "recv"
    /\ last.reqs # <<>> \/ pending # <<>> \/ running # {}
    /\ pc' = "plan"
    /\ adder' = [NoAdder EXCEPT !.budget = PrefillBudget, !.reserved = inflight_tokens,
                                !.rest = pending]
    /\ UNCHANGED <<fresh, pending, running, req, last, ongoing, finished, cache, kv, state>>

candidate == Head(adder.rest)
available_size(c) == EvictableSize(c.tree) + PageSize * Cardinality(c.pages)
estimated_size(u, cached) ==
    (CeilPages(max_device_len(u)) - CeilPages(cached)) * PageSize
Room(u, c, cached) == estimated_size(u, cached) + adder.reserved <= available_size(c)
FreeRow == Cardinality({u \in Uids : req[u].table}) < MaxRunningReqs

\* A non-final chunk ends on a page if the budget fills one.
ChunkSize(u, cached) ==
    LET remain  == Len(Prompt[u]) - cached
        size    == Min({adder.budget, remain})
        aligned == AlignDown(cached + size) - cached
    IN  IF size < remain /\ aligned > 0 THEN aligned ELSE size

Add(u, r, cached) ==
    LET end == cached + ChunkSize(u, cached)
        chunked == end < Len(Prompt[u])
    IN  /\ req' = [req EXCEPT ![u] =
                     [r EXCEPT !.cached_len = cached, !.device_len = end, !.n = end,
                               !.chunked = chunked, !.last_track = None]]
        /\ adder' = [budget   |-> adder.budget - ChunkSize(u, cached),
                     reserved |-> adder.reserved + estimated_size(u, cached),
                     reqs     |-> Append(adder.reqs, u),
                     chunked  |-> IF chunked THEN Append(adder.chunked, u) ELSE adder.chunked,
                     rest     |-> Tail(adder.rest)]

Continue ==
    /\ pc = "plan" /\ adder.rest # <<>> /\ adder.budget > 0
    /\ req[candidate].table
    /\ Add(candidate, req[candidate], req[candidate].cached_len)
    /\ UNCHANGED <<pc, fresh, pending, running, last, ongoing, finished, cache, kv, state>>

\* _try_allocate_one: one live and two ping-pong slots, or no admission.
Match(u) == Matched(cache.tree, Prefix(Prompt[u], Len(Prompt[u]) - 1))
Locked(u) == [cache EXCEPT !.tree = inc_lock(Match(u).tree, Match(u).path)]
Fits(u) ==
    /\ FreeRow
    /\ Room(u, cache, Len(Match(u).path))
    /\ Room(u, Locked(u), Len(Match(u).path))

Admit ==
    /\ pc = "plan" /\ adder.rest # <<>> /\ adder.budget > 0
    /\ LET u == candidate
           path == Match(u).path
       IN  /\ ~req[u].table /\ Fits(u)
           /\ \E c \in ensure_mamba_slots(Locked(u), 3) :
                LET s == InOrder(c.slots)
                IN  /\ Len(s) >= 3
                    /\ cache' = [c EXCEPT !.slots = @ \ {s[1], s[2], s[3]}]
                    /\ Add(u, [NoReq EXCEPT
                                 !.table = TRUE, !.toks = Prompt[u], !.handle = path,
                                 !.row = get_matched_indices(c.tree, path),
                                 !.live = s[1], !.ping_pong = <<s[2], s[3]>>,
                                 !.restore = IF path = <<>> THEN None ELSE c.tree.snap[path]],
                           Len(path))
    /\ UNCHANGED <<pc, fresh, pending, running, last, ongoing, finished, kv, state>>

\* A refusal ends the pass; what the match split and the slot gate evicted stays.
Close ==
    /\ pc' = "launch"
    /\ pending' = IF adder.reqs = <<>> THEN pending ELSE adder.chunked \o adder.rest
    /\ UNCHANGED <<fresh, adder, running, req, last, ongoing, finished, kv, state>>

Refuse ==
    /\ pc = "plan" /\ adder.rest # <<>> /\ adder.budget > 0
    /\ LET u == candidate
           cached == Len(Match(u).path)
       IN  /\ ~req[u].table
           /\ IF ~Fits(u)
              THEN cache' = IF FreeRow THEN [cache EXCEPT !.tree = Match(u).tree] ELSE cache
              ELSE \E c \in ensure_mamba_slots(Locked(u), 3) :
                     /\ Cardinality(c.slots) < 3
                     /\ cache' = [c EXCEPT !.tree = dec_lock(c.tree, Match(u).path)]
    /\ Close

EndOfPlan ==
    /\ pc = "plan" /\ (adder.rest = <<>> \/ adder.budget <= 0)
    /\ UNCHANGED cache
    /\ Close

-----------------------------------------------------------------------------
(* _prepare_batch and _forward: pages, the freezes, the restore, the states *)

Batch == IF adder.reqs # <<>> THEN [prefill |-> TRUE, reqs |-> adder.reqs]
         ELSE [prefill |-> FALSE, reqs |-> InOrder(running)]

Needed(u) == CeilPages(req[u].device_len) - CeilPages(req[u].cached_len)
SumNeeded(us) == FoldFunction(+, 0, [i \in DOMAIN us |-> Needed(us[i])])

\* _allocate: evict_full makes up what the free pages lack.
Allocations(n) ==
    IF Cardinality(cache.pages) >= n THEN {cache}
    ELSE evict_full(cache, (n - Cardinality(cache.pages)) * PageSize)

\* _build_track_metadata: the last chunk boundary strictly inside the extend.
tracks(u) ==
    LET r == req[u] IN ((r.device_len - r.cached_len - 1) \div CHUNK_SIZE) * CHUNK_SIZE
\* snapshot_toolcall_anchor
anchored(u) ==
    LET r == req[u]
    IN  r.anchor # None /\ r.last_track = None /\ r.cached_len = r.anchor /\ Aligned(r.anchor)
Freezes(u) == IF Batch.prefill THEN tracks(u) > 0 ELSE anchored(u)
FrozenLen(u) == req[u].cached_len + (IF Batch.prefill THEN tracks(u) ELSE 0)

\* The state a forward starts from: zero, the restored snapshot, or its own.
StartState(u) ==
    IF req[u].cached_len = 0 THEN <<>>
    ELSE state[IF req[u].restore # None THEN req[u].restore ELSE req[u].live]
Absorbed(u, end) == StartState(u) \o SubSeq(req[u].toks, req[u].cached_len + 1, end)

Launched(u, row, token) ==
    LET r == req[u]
        more == IF r.chunked THEN r.toks ELSE Append(r.toks, token)
        f == [r EXCEPT !.toks = more, !.row = row, !.restore = None,
                       !.cached_len = r.device_len, !.device_len = @ + 1]
    IN  IF Freezes(u) THEN [f EXCEPT !.last_track = FrozenLen(u), !.next = 3 - @] ELSE f

Launch ==
    LET us == Batch.reqs
        who == ToSet(us)
        before(u) == SumNeeded(SubSeq(us, 1, IndexFirstSubSeq(<<u>>, us) - 1))
    IN
    /\ pc = "launch" /\ us # <<>>
    /\ \E c \in Allocations(SumNeeded(us)), token \in [who -> Vocab] :
         LET s == InOrder(c.pages)
             row(u) == req[u].row \o SubSeq(s, before(u) + 1, before(u) + Needed(u))
             Writes(u) == {i \in DOMAIN row(u) : i * PageSize > req[u].cached_len}
         IN  /\ Len(s) >= SumNeeded(us)
             /\ cache' = [c EXCEPT !.pages = @ \ ToSet(SubSeq(s, 1, SumNeeded(us)))]
             /\ req' = [u \in Uids |-> IF u \in who THEN Launched(u, row(u), token[u]) ELSE req[u]]
             /\ kv' = [p \in Pages |->
                  IF \E u \in who : \E i \in Writes(u) : row(u)[i] = p
                  THEN LET u == CHOOSE v \in who : \E i \in Writes(v) : row(v)[i] = p
                           i == CHOOSE j \in Writes(u) : row(u)[j] = p
                       IN  Prefix(req[u].toks, Min({i * PageSize, req[u].device_len}))
                  ELSE kv[p]]
             /\ running' = {u \in running \cup who :
                              ~req'[u].chunked /\ req'[u].device_len < max_device_len(u)}
    /\ state' = [s \in Slots |->
         IF \E u \in who : req[u].live = s
         THEN LET u == CHOOSE v \in who : req[v].live = s IN Absorbed(u, req[u].device_len)
         ELSE IF \E u \in who : Freezes(u) /\ req[u].ping_pong[req[u].next] = s
         THEN LET u == CHOOSE v \in who : Freezes(v) /\ req[v].ping_pong[req[v].next] = s
              IN  Absorbed(u, FrozenLen(u))
         ELSE state[s]]
    /\ ongoing' = [prefill |-> Batch.prefill, reqs |-> us,
                   chunked |-> {u \in who : req[u].chunked}]
    /\ pc' = "drain"
    /\ UNCHANGED <<fresh, pending, adder, last, finished>>

LaunchNothing ==
    /\ pc = "launch" /\ Batch.reqs = <<>>
    /\ ongoing' = NoBatch
    /\ pc' = "drain"
    /\ UNCHANGED <<fresh, pending, adder, running, req, last, finished, cache, kv, state>>
-----------------------------------------------------------------------------
(* _process_last_data                                                      *)

entry == Head(last.reqs)
chunked == entry \in last.chunked
aborted == req[entry].aborted
Visited == last' = [last EXCEPT !.reqs = Tail(@)]
Free(u, r) ==
    IF r.table THEN cache' = Finished(r, cache) /\ req' = Released(u) ELSE UNCHANGED <<cache, req>>

DrainChunk ==
    /\ pc = "drain" /\ last.reqs # <<>> /\ chunked
    /\ IF aborted THEN Free(entry, req[entry]) ELSE UNCHANGED <<cache, req>>
    /\ Visited
    /\ UNCHANGED <<pc, fresh, pending, adder, running, ongoing, finished, kv, state>>

DrainAborted ==
    /\ pc = "drain" /\ last.reqs # <<>> /\ ~chunked /\ aborted
    /\ Free(entry, req[entry])
    /\ running' = running \ {entry}
    /\ finished' = [finished EXCEPT !.new = @ \cup {entry}]
    /\ Visited
    /\ UNCHANGED <<pc, fresh, pending, adder, ongoing, kv, state>>

\* The step that overlap launched before the request's end was known.
DrainSeen ==
    /\ pc = "drain" /\ last.reqs # <<>> /\ ~chunked /\ ~aborted
    /\ entry \in finished.old
    /\ Visited
    /\ UNCHANGED <<pc, fresh, pending, adder, running, req, ongoing, finished, cache, kv, state>>

token == req[entry].toks[req[entry].n + 1]
ends == req[entry].n + 1 >= max_device_len(entry) \/ token = Eos
\* append_host, and the anchor a tool call sets once.
Appended ==
    LET r == req[entry]
        n == r.n + 1
    IN  [r EXCEPT !.n = n,
                  !.anchor = IF token = Anchor /\ @ = None /\ ~ends THEN n ELSE @]

DrainToken ==
    /\ pc = "drain" /\ last.reqs # <<>> /\ ~chunked /\ ~aborted
    /\ entry \notin finished.old
    /\ IF ends
       THEN /\ running' = running \ {entry}
            /\ Free(entry, Appended)
            /\ finished' = [finished EXCEPT !.new = @ \cup {entry}]
       ELSE /\ UNCHANGED <<running, finished>>
            /\ IF last.prefill
               THEN \E d \in Committed(Appended, cache) :
                      cache' = d.cache /\ req' = [req EXCEPT ![entry] = d.r]
               ELSE req' = [req EXCEPT ![entry] = Appended] /\ UNCHANGED cache
    /\ Visited
    /\ UNCHANGED <<pc, fresh, pending, adder, ongoing, kv, state>>

EndDrain ==
    /\ pc = "drain" /\ last.reqs = <<>>
    /\ last' = ongoing
    /\ ongoing' = NoBatch
    /\ finished' = [old |-> finished.new, new |-> {}]
    /\ adder' = NoAdder
    /\ pc' = "recv"
    /\ UNCHANGED <<fresh, pending, running, req, cache, kv, state>>

\* Blocked in receive_msg with nothing left to arrive.
Idle ==
    /\ pc = "recv" /\ last.reqs = <<>> /\ pending = <<>> /\ running = {} /\ fresh = {}
    /\ UNCHANGED vars

Next ==
    \/ \E u \in Uids : Arrive(u) \/ Abort(u)
    \/ StartPlan \/ Continue \/ Admit \/ Refuse \/ EndOfPlan
    \/ Launch \/ LaunchNothing
    \/ DrainChunk \/ DrainAborted \/ DrainSeen \/ DrainToken \/ EndDrain
    \/ Idle

Spec == Init /\ [][Next]_vars

-----------------------------------------------------------------------------
(* Properties                                                              *)

Seated == {u \in Uids : req[u].table}
SlotsOf(u) == {req[u].live} \cup ToSet(req[u].ping_pong)
OwnPages(u) == {req[u].row[i] : i \in Len(req[u].handle) \div PageSize + 1 .. Len(req[u].row)}

Partition(S, parts) ==
    /\ UNION ToSet(parts) = S
    /\ FoldFunction(LAMBDA a, b : Cardinality(a) + b, 0, parts) = Cardinality(S)

\* Every state slot and every KV page belongs to exactly one of the free list,
\* one seated request and one tree node: a slot donated is given up by its
\* request, a duplicate is freed once (_cache_req_hybrid, _free_req_slots,
\* CacheManager.check_integrity, whose bound on the slots is weaker).
PoolsConserved ==
    LET seats == InOrder(Seated)
        own(F(_)) == [i \in DOMAIN seats |-> F(seats[i])]
        t == cache.tree
    IN  /\ Partition(Slots, <<cache.slots, Range(t.snap)>> \o own(SlotsOf))
        /\ Cardinality(Range(t.snap)) = Cardinality(Snapshots(t))
        /\ \A u \in Seated : Cardinality(SlotsOf(u)) = 3
        /\ Partition(Pages, <<cache.pages, Range(t.page)>> \o own(OwnPages))
        /\ Cardinality(Range(t.page)) = Cardinality(Blocks(t))

\* A snapshot has absorbed exactly the prefix its node stands for, and a
\* request's next forward starts from exactly the prefix it takes as cached,
\* in its state and in its KV pages: neither a restore, a freeze, a dedup nor
\* an eviction resumes the recurrence from the wrong place.
StatesMatchPrefixes ==
    /\ \A n \in Snapshots(cache.tree) : state[cache.tree.snap[n]] = n
    /\ \A u \in Seated :
         LET r == req[u]
         IN  /\ StartState(u) = Prefix(r.toks, r.cached_len)
             /\ r.last_track # None => state[frozen(r)] = Prefix(r.toks, r.last_track)
             /\ \A i \in 1 .. CeilPages(r.cached_len) :
                  kv[r.row[i]] = Prefix(r.toks, Min({i * PageSize, r.cached_len}))

\* The locks are exact, and a leaf always bears a snapshot: KV that no state
\* can resume is never kept, and what a seated request resumed from stays.
LeavesResume ==
    LET t == cache.tree
        Holders(n) == {u \in Seated : IsPrefix(n, req[u].handle)}
    IN  /\ \A n \in Nodes(t) : t.ref[n] = Cardinality(Holders(n))
        /\ \A n \in Snapshots(t) : t.mref[n] = Cardinality({u \in Seated : req[u].handle = n})
        /\ \A n \in Nodes(t) : IsLeaf(t, n) => n \in Snapshots(t)
        /\ \A u \in Seated : req[u].handle = <<>> \/ req[u].handle \in Snapshots(t)

\* _linear_pool_min_slots: four slots a request are enough.  Whenever a row is
\* free, three slots are free or evictable, so the admission gate never
\* refuses for want of them; that a commit always finds its replacement is
\* the absence of deadlock.
SlotsSuffice ==
    pc \in {"recv", "plan"} /\ FreeRow
        => Cardinality(cache.slots) + Cardinality(Unlocked(cache.tree)) >= 3
==============================================================================
