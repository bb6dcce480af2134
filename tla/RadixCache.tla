------------------------------ MODULE RadixCache ------------------------------
(***************************************************************************)
(* RadixPrefixCache of kvcache/radix_cache.py as it is coded: nodes linked *)
(* by parent and children, ref_counts, the evictable and protected         *)
(* counters, and timestamps that order evictions.  Its user is the one of  *)
(* PrefixCache, which it implements.  Node 0 is the root.                  *)
(***************************************************************************)
EXTENDS Integers, FiniteSets, SequencesExt

CONSTANTS PageSize, Clients, Inputs, Pages

ASSUME RadixCacheAssumption == PageSize \in Nat \ {0} /\ Pages \subseteq Nat

VARIABLES
    node,           \* node[i]: a RadixTreeNode
    evictable_size,
    protected_size,
    handle,         \* the node of each client's locked handle, or NoNode
    free            \* pages owned by no node

vars == <<node, evictable_size, protected_size, handle, free>>

Root == 0
NoNode == 0 - 1
NodeIds == 1 .. Cardinality(Pages)

AlignDown(n) == (n \div PageSize) * PageSize

\* key_fn: a child is filed under the first page of its key.
key_fn(ids) == SubSeq(ids, 1, Min({PageSize, Len(ids)}))

Length(nd, i) == Len(nd[i].key)
is_leaf(nd, i) == DOMAIN nd[i].children = {}

Init ==
    /\ node = (Root :> [key |-> <<>>, value |-> <<>>, parent |-> NoNode,
                        children |-> [k \in {} |-> 0], ref_count |-> 1, timestamp |-> 0])
    /\ evictable_size = 0
    /\ protected_size = 0
    /\ handle = [c \in Clients |-> NoNode]
    /\ free = Pages

-----------------------------------------------------------------------------
(* The methods, on a node table nd.                                        *)

NewId(nd) == Min(NodeIds \ DOMAIN nd)

\* fast_compare_key, aligned down to whole pages.
match_len(key, ids) ==
    AlignDown(Max({n \in 0 .. Min({Len(key), Len(ids)}) : SubSeq(key, 1, n) = SubSeq(ids, 1, n)}))

\* set_parent files a split's old half under the first page of what is left.
filed_under_whole(key, pos) == key_fn(key)
filed_under(key, pos) == key_fn(SubSeq(key, pos + 1, Len(key)))

\* The new half of a split is held by whoever holds the old one.
inherits_nothing(old) == 0
inherits(old) == old.ref_count

\* split_at: the new node takes the front of the key, the old one keeps its end.
split_at(nd, i, pos) ==
    LET new  == NewId(nd)
        old  == nd[i]
        rest == SubSeq(old.key, pos + 1, Len(old.key))
    IN  (new :> [key |-> SubSeq(old.key, 1, pos), value |-> SubSeq(old.value, 1, pos \div PageSize),
                 parent |-> old.parent, children |-> (filed_under(old.key, pos) :> i),
                 ref_count |-> inherits(old), timestamp |-> old.timestamp])
        @@ [nd EXCEPT
              ![old.parent].children = (key_fn(old.key) :> new) @@ @,
              ![i] = [old EXCEPT !.key = rest, !.parent = new,
                                 !.value = SubSeq(@, pos \div PageSize + 1, Len(@))]]

\* _tree_walk from node i, prefix_len tokens in.
RECURSIVE tree_walk(_, _, _, _, _)
tree_walk(nd, i, ids, prefix_len, tic) ==
    LET rest == SubSeq(ids, prefix_len + 1, Len(ids))
        here == [node |-> nd, at |-> i, prefix_len |-> prefix_len]
    IN  IF rest = <<>> \/ key_fn(rest) \notin DOMAIN nd[i].children THEN here
        ELSE LET child == nd[i].children[key_fn(rest)]
                 len   == match_len(nd[child].key, rest)
             IN  IF len = Length(nd, child)
                 THEN tree_walk([nd EXCEPT ![child].timestamp = tic], child, ids,
                                prefix_len + len, tic)
                 ELSE LET cut == split_at(nd, child, len)
                          new == NewId(nd)
                      IN  [node |-> [cut EXCEPT ![new].timestamp = tic], at |-> new,
                           prefix_len |-> prefix_len + len]

\* time.monotonic_ns: later than every timestamp in the table.
Now(nd) == 1 + Max({nd[i].timestamp : i \in DOMAIN nd})

match_prefix(nd, ids) == tree_walk(nd, Root, ids, 0, Now(nd))

\* insert_prefix: indices[k] is the page of the k-th block of ids.
insert_prefix(nd, ids, indices) ==
    LET insert_len == AlignDown(Len(ids))
        walk == match_prefix(nd, SubSeq(ids, 1, insert_len))
        key  == SubSeq(ids, walk.prefix_len + 1, insert_len)
        new  == NewId(walk.node)
    IN  IF key = <<>> THEN walk @@ [added |-> 0]
        ELSE [node |-> (new :> [key |-> key, parent |-> walk.at,
                                value |-> SubSeq(indices, walk.prefix_len \div PageSize + 1,
                                                 insert_len \div PageSize),
                                children |-> [k \in {} |-> 0], ref_count |-> 0,
                                timestamp |-> Now(walk.node)])
                       @@ [walk.node EXCEPT ![walk.at].children = (key_fn(key) :> new) @@ @],
              at |-> new, prefix_len |-> walk.prefix_len, added |-> Len(key)]

RECURSIVE PathUp(_, _)
PathUp(nd, i) == IF i = Root THEN {} ELSE {i} \cup PathUp(nd, nd[i].parent)

SumLength(nd, S) == MapThenSumSet(LAMBDA i : Length(nd, i), S)

\* lock_handle: counts on the path to the root, and what changes class there.
locked_node(nd, i) ==
    [j \in DOMAIN nd |-> IF j = i /\ i # Root THEN [nd[j] EXCEPT !.ref_count = @ + 1] ELSE nd[j]]
locked(nd, i) ==
    [j \in DOMAIN nd |-> IF j \in PathUp(nd, i) THEN [nd[j] EXCEPT !.ref_count = @ + 1] ELSE nd[j]]
newly_locked(nd, i) == SumLength(nd, {j \in PathUp(nd, i) : nd[j].ref_count = 0})
unlocked(nd, i) ==
    [j \in DOMAIN nd |-> IF j \in PathUp(nd, i) THEN [nd[j] EXCEPT !.ref_count = @ - 1] ELSE nd[j]]
newly_unlocked(nd, i) == SumLength(nd, {j \in PathUp(nd, i) : nd[j].ref_count = 1})

RECURSIVE get_matched_indices(_, _)
get_matched_indices(nd, i) ==
    IF i = Root THEN <<>> ELSE get_matched_indices(nd, nd[i].parent) \o nd[i].value

\* evict: the unlocked leaf with the oldest timestamp goes, until size is reached.
unlocked_leaves(nd) == {i \in DOMAIN nd \ {Root} : is_leaf(nd, i) /\ nd[i].ref_count = 0}
heappop_newest(nd) ==
    CHOOSE i \in unlocked_leaves(nd) :
        \A j \in unlocked_leaves(nd) : nd[i].timestamp >= nd[j].timestamp
heappop(nd) ==
    CHOOSE i \in unlocked_leaves(nd) :
        \A j \in unlocked_leaves(nd) : nd[i].timestamp <= nd[j].timestamp

remove(nd, i) ==
    LET up == nd[i].parent
        k  == key_fn(nd[i].key)
        cut == [nd EXCEPT ![up].children = [x \in DOMAIN @ \ {k} |-> @[x]]]
    IN  [j \in DOMAIN nd \ {i} |-> cut[j]]

RECURSIVE evict(_, _, _)
evict(nd, size, pages) ==
    IF size <= 0 THEN [node |-> nd, pages |-> pages]
    ELSE LET i == heappop(nd)
         IN  evict(remove(nd, i), size - Length(nd, i), pages \cup ToSet(nd[i].value))

\* Timestamps only matter by their order: keep their ranks.
Ranked(nd) ==
    LET times == {nd[i].timestamp : i \in DOMAIN nd}
    IN  [i \in DOMAIN nd |->
           [nd[i] EXCEPT !.timestamp = Cardinality({t \in times : t < nd[i].timestamp})]]

-----------------------------------------------------------------------------
(* The user, step by step as in PrefixCache.                               *)

FirstPages(from, n) ==
    CHOOSE s \in [1 .. n -> from] :
        /\ \A i, j \in 1 .. n : i < j => s[i] < s[j]
        /\ \A p \in from \ {s[i] : i \in 1 .. n} : \A i \in 1 .. n : s[i] < p

Lookup(c, ids) ==
    /\ handle[c] = NoNode
    /\ LET m == match_prefix(node, ids)
       IN  /\ node' = Ranked(locked(m.node, m.at))
           /\ evictable_size' = evictable_size - newly_locked(m.node, m.at)
           /\ protected_size' = protected_size + newly_locked(m.node, m.at)
           /\ handle' = [handle EXCEPT ![c] = m.at]
    /\ UNCHANGED free

RECURSIVE PathIds(_, _)
PathIds(nd, i) == IF i = Root THEN <<>> ELSE PathIds(nd, nd[i].parent) \o nd[i].key

Store(c, ids) ==
    /\ handle[c] # NoNode /\ IsPrefix(PathIds(node, handle[c]), ids)
    /\ LET mine == get_matched_indices(node, handle[c])
           n    == Len(ids) \div PageSize - Len(mine)
           new  == FirstPages(free, n)
           ins  == insert_prefix(node, ids, mine \o new)
           free1 == unlocked(ins.node, handle[c])
           change == newly_unlocked(ins.node, handle[c]) - newly_locked(free1, ins.at)
       IN  /\ n <= Cardinality(free)
           /\ node' = Ranked(locked(free1, ins.at))
           /\ evictable_size' = evictable_size + ins.added + change
           /\ protected_size' = protected_size - change
           /\ handle' = [handle EXCEPT ![c] = ins.at]
           /\ free' = free \ {new[i] : i \in ins.prefix_len \div PageSize - Len(mine) + 1 .. n}

Unlock(c) ==
    /\ handle[c] # NoNode
    /\ node' = unlocked(node, handle[c])
    /\ evictable_size' = evictable_size + newly_unlocked(node, handle[c])
    /\ protected_size' = protected_size - newly_unlocked(node, handle[c])
    /\ handle' = [handle EXCEPT ![c] = NoNode]
    /\ UNCHANGED free

Evict(size) ==
    /\ size <= evictable_size
    /\ LET e == evict(node, size, {})
       IN  /\ node' = Ranked(e.node)
           /\ evictable_size' = evictable_size - PageSize * Cardinality(e.pages)
           /\ free' = free \cup e.pages
    /\ UNCHANGED <<protected_size, handle>>

Next ==
    \/ \E c \in Clients :
         \/ \E ids \in Inputs : Lookup(c, ids) \/ Store(c, ids)
         \/ Unlock(c)
    \/ \E pages \in 1 .. Cardinality(Pages) : Evict(pages * PageSize)

Spec == Init /\ [][Next]_vars

-----------------------------------------------------------------------------
(* The tree value the nodes stand for.                                     *)

Real == DOMAIN node \ {Root}
AbstractTree ==
    [page |-> [b \in UNION {{SubSeq(PathIds(node, i), 1, k * PageSize) :
                                k \in 1 .. Len(PathIds(node, i)) \div PageSize} : i \in Real}
                 |-> LET i == CHOOSE i \in Real : IsPrefix(b, PathIds(node, i))
                     IN  get_matched_indices(node, i)[Len(b) \div PageSize]],
     ref  |-> [b \in {PathIds(node, i) : i \in Real}
                 |-> node[CHOOSE i \in Real : PathIds(node, i) = b].ref_count]]

Promise == INSTANCE PrefixCache WITH
    tree <- AbstractTree,
    handle <- [c \in Clients |-> IF handle[c] = NoNode THEN <<0 - 1>> ELSE PathIds(node, handle[c])]

\* RadixPrefixCache keeps the promise of PrefixCache: each method, with its
\* splits and re-linking, is one step of it.
KeepsPromise == Promise!Spec

\* What the promise is worth to CacheManager, of the nodes as they are coded:
\* every page is free or backs one block, and what no handle covers is evictable
\* and can be evicted.
PagesAccounted == Promise!PagesAccounted

\* The links are consistent: a child is filed in its parent under the first page
\* of its key, and only there; keys are whole pages.  split_at relinks twice.
LinksConsistent ==
    \A i \in DOMAIN node :
        /\ \A k \in DOMAIN node[i].children :
             LET c == node[i].children[k]
             IN  c \in Real /\ node[c].parent = i /\ key_fn(node[c].key) = k
        /\ i # Root => /\ node[i].parent \in DOMAIN node
                       /\ \E k \in DOMAIN node[node[i].parent].children :
                            node[node[i].parent].children[k] = i
                       /\ Length(node, i) = PageSize * Len(node[i].value) /\ Length(node, i) > 0

\* The counters that admission and allocation read agree with the ref_counts.
CountersExact ==
    /\ evictable_size = SumLength(node, {i \in Real : node[i].ref_count = 0})
    /\ protected_size = SumLength(node, {i \in Real : node[i].ref_count > 0})

\* A parent is referenced at least as often as its children: evict's bottom-up
\* walk reaches everything that is counted as evictable.
RefsMonotone ==
    \A i \in Real : node[i].parent # Root => node[i].ref_count <= node[node[i].parent].ref_count

\* What the methods rely on when they walk and relink the nodes.
NodesConsistent == LinksConsistent /\ CountersExact /\ RefsMonotone

\* An eviction, the only step that removes nodes, takes nothing used more
\* recently than an unlocked leaf it leaves.
EvictsOldest ==
    [][\A i \in Real \ DOMAIN node' : \A j \in unlocked_leaves(node) \cap DOMAIN node' :
         node[i].timestamp <= node[j].timestamp]_vars
==============================================================================
