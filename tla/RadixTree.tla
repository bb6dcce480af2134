------------------------------ MODULE RadixTree ------------------------------
(***************************************************************************)
(* The radix tree of kvcache/radix_cache.py, as operators on a value.      *)
(*                                                                         *)
(* A node is named by the token sequence that ends at it.  split_at keeps  *)
(* the original node object as the SUFFIX half, so the token sequence at   *)
(* which a node ends never changes while the node lives, and a handle      *)
(* (which points at a node) is that sequence.  A tree is a record          *)
(*                                                                         *)
(*   page : token sequence -> KV page, one entry per page-sized block of   *)
(*          the nodes' keys, filed under the sequence the block completes; *)
(*   ref  : node -> its ref_count.                                         *)
(*                                                                         *)
(* The root (the empty sequence, always protected) is left implicit.       *)
(***************************************************************************)
EXTENDS Integers, FiniteSets, SequencesExt

CONSTANT PageSize       \* tokens per KV page (--page-size)

ASSUME PageSizeAssumption == PageSize \in Nat \ {0}

AlignDown(n) == (n \div PageSize) * PageSize
CeilPages(n) == (n + PageSize - 1) \div PageSize

Prefix(ids, n) == SubSeq(ids, 1, n)

EmptyTree == [page |-> [b \in {} |-> 0], ref |-> [b \in {} |-> 0]]

Blocks(tree) == DOMAIN tree.page
Nodes(tree) == DOMAIN tree.ref

\* The node whose key holds block b: the first node end at or below b.
NodeOf(tree, b) ==
    CHOOSE n \in Nodes(tree) :
        /\ IsPrefix(b, n)
        /\ \A m \in Nodes(tree) : IsPrefix(b, m) => Len(n) <= Len(m)

BlocksOf(tree, n) == {b \in Blocks(tree) : NodeOf(tree, b) = n}
Length(tree, n) == PageSize * Cardinality(BlocksOf(tree, n))
Children(tree, n) == {m \in Nodes(tree) : IsStrictPrefix(n, m)}

\* What lock_handle keeps in its two running counters.
EvictableSize(tree) ==
    PageSize * Cardinality({b \in Blocks(tree) : tree.ref[NodeOf(tree, b)] = 0})
ProtectedSize(tree) ==
    PageSize * Cardinality({b \in Blocks(tree) : tree.ref[NodeOf(tree, b)] > 0})

\* What every operator below preserves: the blocks above a block are cached with
\* it, each block is in the key of one node, and a fork is at a node's end.
WellFormed(tree) ==
    /\ IsFiniteSet(Blocks(tree)) /\ Nodes(tree) \subseteq Blocks(tree)
    /\ \A b \in Blocks(tree) :
         /\ Len(b) > 0 /\ Len(b) % PageSize = 0
         /\ \A n \in 1 .. Len(b) : n % PageSize = 0 => Prefix(b, n) \in Blocks(tree)
         /\ \E n \in Nodes(tree) :
              IsPrefix(b, n) /\ \A m \in Nodes(tree) : IsPrefix(b, m) => IsPrefix(n, m)

-----------------------------------------------------------------------------
\* _tree_walk: how far whole pages of ids are already in the tree.  The walk
\* follows page-sized keys, so a trailing partial page never matches.
MatchLen(tree, ids) ==
    Max({0} \cup {n \in 1 .. Len(ids) : Prefix(ids, n) \in Blocks(tree)})

\* split_at: the walk that stops inside a node cuts it there; the new node
\* (the prefix half) inherits the ref_count.
SplitAt(tree, b) ==
    IF b = <<>> \/ b \in Nodes(tree) THEN tree
    ELSE [tree EXCEPT !.ref = [n \in Nodes(tree) \cup {b} |-> @[NodeOf(tree, n)]]]

\* The tree after a walk along ids, and the node the walk ends at.
Walk(tree, ids) ==
    LET at == Prefix(ids, MatchLen(tree, ids))
    IN  [tree |-> SplitAt(tree, at), path |-> at]

match_prefix(tree, ids) == Walk(tree, ids)

\* insert_prefix: pages[i] is the page of the i-th block of ids.
insert_prefix(tree, ids, pages) ==
    LET n    == AlignDown(Len(ids))
        key  == Prefix(ids, n)
        old  == MatchLen(tree, key)
        walk == Walk(tree, key).tree
        new  == {Prefix(ids, i * PageSize) : i \in (old \div PageSize + 1) .. (n \div PageSize)}
    IN  [cached_len |-> old,
         path |-> key,
         tree |-> IF old = n THEN walk
                  ELSE [page |-> [b \in Blocks(walk) \cup new |->
                                    IF b \in new THEN pages[Len(b) \div PageSize]
                                    ELSE walk.page[b]],
                        ref  |-> [m \in Nodes(walk) \cup {key} |->
                                    IF m = key THEN 0 ELSE walk.ref[m]]]]

\* lock_handle walks from the handle's node to the root.
lock(tree, path) ==
    [tree EXCEPT !.ref = [n \in Nodes(tree) |-> IF IsPrefix(n, path) THEN @[n] + 1 ELSE @[n]]]
unlock_node(tree, path) ==
    [tree EXCEPT !.ref = [n \in Nodes(tree) |-> IF n = path THEN @[n] - 1 ELSE @[n]]]
unlock(tree, path) ==
    [tree EXCEPT !.ref = [n \in Nodes(tree) |-> IF IsPrefix(n, path) THEN @[n] - 1 ELSE @[n]]]

\* get_matched_indices: the pages from the root down to the handle's node.
get_matched_indices(tree, path) ==
    [i \in 1 .. Len(path) \div PageSize |-> tree.page[Prefix(path, i * PageSize)]]

-----------------------------------------------------------------------------
\* The sets of nodes evict(size) may remove.  It pops unlocked leaves, a
\* parent becoming a candidate once its last child is gone, and stops at the
\* first node that reaches size.  Which leaf goes first is the LRU order that
\* RadixCache models; here every order is allowed.
Evictions(tree, size) ==
    LET SizeOf(E) == PageSize * Cardinality(UNION {BlocksOf(tree, n) : n \in E})
    IN  {E \in SUBSET {n \in Nodes(tree) : tree.ref[n] = 0} :
            /\ \A n \in E : Children(tree, n) \subseteq E
            /\ SizeOf(E) >= size
            /\ \E n \in E :
                 /\ \A m \in E : ~IsStrictPrefix(m, n)
                 /\ SizeOf(E \ {n}) < size}

RemoveNodes(tree, E) ==
    [page |-> [b \in {c \in Blocks(tree) : NodeOf(tree, c) \notin E} |-> tree.page[b]],
     ref  |-> [n \in Nodes(tree) \ E |-> tree.ref[n]]]

PagesOf(tree, E) == {tree.page[b] : b \in UNION {BlocksOf(tree, n) : n \in E}}
==============================================================================
