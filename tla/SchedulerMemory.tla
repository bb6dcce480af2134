--------------------------- MODULE SchedulerMemory ---------------------------
(***************************************************************************)
(* Who owns what of the KV cache, and what its pages hold: the inductive   *)
(* invariants behind PagesConserved, RefCountsExact and IdleIntegrity, and *)
(* behind RowsHoldOwnKV and TreeHoldsPrefixKV, over ControlInv,            *)
(* ContractInv and StreamInv.  Last, what the admitted requests have been  *)
(* promised: behind AllocationSucceeds.                                    *)
(***************************************************************************)
EXTENDS SchedulerStreams

PoolPages == 0 .. num_pages - 1
Handles == [u \in Uids |-> req[u].handle]
Shared(u) == Len(req[u].handle) \div PageSize

\* The tree is one, over the pages of the pool, each in it once.
TreeOK ==
    /\ tree = [page |-> tree.page, ref |-> tree.ref]
    /\ Blocks(tree) \subseteq Seq(Vocab) /\ WellFormed(tree)
    /\ tree.page \in [Blocks(tree) -> PoolPages] /\ tree.ref \in [Nodes(tree) -> Nat]
    /\ \A b, c \in Blocks(tree) : tree.page[b] = tree.page[c] => b = c

\* A handle is a node of it, or the root, on the request's computed tokens; a
\* multimodal prompt has none.
HandleOK(u) ==
    /\ req[u].handle \in Nodes(tree) \cup {<<>>}
    /\ IsPrefix(req[u].handle, req[u].input_ids)
    /\ Len(req[u].handle) <= req[u].cached_len
    /\ ~Shareable(u) => req[u].handle = <<>>
HandlesOK == \A u \in Holders : HandleOK(u)

\* A row has a page for every token computed, and of its own those after the
\* handle's, each once.
RowPaged(u) ==
    /\ Len(Row(u)) = CeilPages(req[u].cached_len)
    /\ \A i, j \in Shared(u) + 1 .. Len(Row(u)) : Row(u)[i] = Row(u)[j] => i = j
RowsOK ==
    /\ page_table \in [Tables -> Seq(PoolPages)]
    /\ \A u \in Holders : RowPaged(u)

Own(u) == {Row(u)[i] : i \in Shared(u) + 1 .. Len(Row(u))}

\* The free lists hold a page once; only a drain has a lazy one.
FreeOK ==
    /\ free_slots \in Seq(PoolPages) /\ lazy_free_list \in Seq(PoolPages)
    /\ \A i, j \in 1 .. Len(free_slots) : free_slots[i] = free_slots[j] => i = j
    /\ \A i, j \in 1 .. Len(lazy_free_list) : lazy_free_list[i] = lazy_free_list[j] => i = j
    /\ pc # "drain" => lazy_free_list = <<>>

\* F, L and T, and own[u] for u in H, have the pages of N among them.
Partition(F, L, T, own, H, N) ==
    /\ F \cap L = {} /\ F \cap T = {} /\ L \cap T = {}
    /\ \A u \in H : own[u] \cap F = {} /\ own[u] \cap L = {} /\ own[u] \cap T = {}
    /\ \A u, v \in H : u # v => own[u] \cap own[v] = {}
    /\ F \cup L \cup T \cup UNION {own[u] : u \in H} = N

PagesOK ==
    Partition({free_slots[i] : i \in 1 .. Len(free_slots)},
              {lazy_free_list[i] : i \in 1 .. Len(lazy_free_list)},
              TreePages, [u \in Uids |-> Own(u)], Holders, PoolPages)

\* Every lock of the tree is a handle.
LocksOK ==
    \A n \in Nodes(tree) : tree.ref[n] = Cardinality({u \in Holders : IsPrefix(n, req[u].handle)})

\* The scheduler blocks only with nothing queued, running or launched.
IdleOK == pc = "idle" => last_data = NoBatch /\ ~runnable

MemoryInv == TreeOK /\ HandlesOK /\ RowsOK /\ FreeOK /\ PagesOK /\ LocksOK /\ IdleOK

\* A row's pages under the handle are the tree's: what is locked is what is read.
RowsShared ==
    \A u \in Holders : \A i \in 1 .. Shared(u) :
        Row(u)[i] = tree.page[Prefix(req[u].handle, i * PageSize)]

\* What RowsHoldOwnKV and TreeHoldsPrefixKV need to be inductive, over MemoryInv.
ContentInv == RowsShared /\ RowsHoldOwnKV /\ TreeHoldsPrefixKV

-----------------------------------------------------------------------------
(* What the admitted requests have been promised: the inductive invariant  *)
(* behind AllocationSucceeds, over MemoryInv and ContentInv.               *)

\* A running request's next forward is of one token.
DecodesNext == \A u \in running_reqs : req[u].device_len = req[u].cached_len + 1

\* What no request's row leads to: free, lazily freed, or evictable.
HeldPages == UNION {{Row(u)[i] : i \in 1 .. Len(Row(u))} : u \in Holders}
Unheld == PoolPages \ HeldPages

\* A request that will allocate again: it decodes, or is in the queue with a
\* chunk of its prompt computed or just admitted.
Promised == running_reqs \cup {u \in Holders : Queued(u)}

\* The pages it may still take: a decode stops a token short of the budget.
Ending_len(u) == IF u \in running_reqs THEN max_device_len(u) - 1 ELSE max_device_len(u)
Room(u) == CeilPages(Ending_len(u)) - CeilPages(req[u].cached_len)
Needs(U) == UNION {{u} \X (1 .. Room(u)) : u \in U}

\* An entry with a chunk computed heads the queue, and keeps its budget.
ChunkFirst ==
    \A i \in 1 .. Len(pending_list) :
        /\ pending_list[i].chunked => i = 1
        /\ Held(pending_list[i].uid) =>
             pending_list[i].output_len = req[pending_list[i].uid].output_len

\* A chunk leaves nothing of the pass's budget.
PlanSpent ==
    Planning =>
        /\ adder.token_budget >= 0
        /\ adder.chunked_list # <<>> => adder.token_budget = 0 /\ Len(adder.chunked_list) = 1
        /\ \A k \in 1 .. Len(adder.chunked_list) :
             adder.chunked_list[k].output_len = req[adder.chunked_list[k].uid].output_len

\* The pass has reserved what the running requests and those admitted need ...
PlanReserved ==
    Planning =>
        /\ adder.reserved_size \in Nat
        /\ Cardinality(Needs(running_reqs \cup {u \in Uids : Processed(u)})) * PageSize
             <= adder.reserved_size

\* ... and there is a page for everything promised.
RoomForAll == Cardinality(Needs(Promised)) <= Cardinality(Unheld)

CapacityInv == DecodesNext /\ ChunkFirst /\ PlanSpent /\ PlanReserved /\ RoomForAll
==============================================================================
