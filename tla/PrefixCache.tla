----------------------------- MODULE PrefixCache -----------------------------
(***************************************************************************)
(* What a prefix cache promises its user, CacheManager (scheduler/cache.py):*)
(* handles that keep their prefix's pages in place until they are unlocked,*)
(* commits that keep one page per block and give the duplicates back, and  *)
(* evictions that only take what no handle protects.  Which unlocked nodes *)
(* go first is left open.  The state is a value of RadixTree; RadixCache   *)
(* implements it with linked nodes, counters and timestamps.               *)
(***************************************************************************)
EXTENDS RadixTree

CONSTANTS
    Clients,    \* requests that may hold a handle
    Inputs,     \* token sequences they look up and commit
    Pages       \* KV pages, a finite set of numbers

\* A page is a slot of the pool, a token an id of the vocabulary.
PrefixCacheAssumption ==
    /\ IsFiniteSet(Clients) /\ IsFiniteSet(Pages) /\ Pages \subseteq Nat
    /\ Inputs \subseteq Seq(Nat)

VARIABLES
    tree,       \* the cached prefixes
    handle,     \* the handle each client holds locked, or NoHandle
    free        \* pages owned by no block of the tree

cacheVars == <<tree, handle, free>>

NoHandle == <<0 - 1>>      \* no token sequence

Init ==
    /\ tree = EmptyTree
    /\ handle = [c \in Clients |-> NoHandle]
    /\ free = Pages

\* The lowest n free pages: pages are interchangeable.
FirstPages(from, n) ==
    CHOOSE s \in [1 .. n -> from] :
        /\ \A i, j \in 1 .. n : i < j => s[i] < s[j]
        /\ \A p \in from \ {s[i] : i \in 1 .. n} : \A i \in 1 .. n : s[i] < p

\* match_req, then lock.
Acquire(c, ids) ==
    /\ handle[c] = NoHandle
    /\ LET m == match_prefix(tree, ids)
       IN  /\ tree' = lock(m.tree, m.path)
           /\ handle' = [handle EXCEPT ![c] = m.path]
    /\ UNCHANGED free

\* Of the new pages, those the tree takes: the rest back blocks it already had.
Taken(new, had, cached) == {new[i] : i \in (cached \div PageSize - had) + 1 .. Len(new)}

\* cache_req(finished=False): the client computed ids on the pages of its
\* handle and on new ones, inserts, unlocks the old handle, gives back the new
\* pages of blocks the tree already had, and locks the new handle.
Commit(c, ids) ==
    /\ handle[c] # NoHandle /\ IsPrefix(handle[c], ids)
    /\ LET path == handle[c]
           held == Len(path) \div PageSize
           n    == Len(ids) \div PageSize
           new  == FirstPages(free, n - held)
           ins  == insert_prefix(tree, ids, get_matched_indices(tree, path) \o new)
       IN  /\ n - held <= Cardinality(free)
           /\ tree' = lock(unlock(ins.tree, path), ins.path)
           /\ handle' = [handle EXCEPT ![c] = ins.path]
           /\ free' = free \ Taken(new, held, ins.cached_len)

Release(c) ==
    /\ handle[c] # NoHandle
    /\ tree' = unlock(tree, handle[c])
    /\ handle' = [handle EXCEPT ![c] = NoHandle]
    /\ UNCHANGED free

\* _allocate asks for no more than is evictable; whole nodes go.
Evict(size) ==
    /\ size <= EvictableSize(tree)
    /\ \E E \in Evictions(tree, size) :
         /\ tree' = RemoveNodes(tree, E)
         /\ free' = free \cup PagesOf(tree, E)
    /\ UNCHANGED handle

Next ==
    \/ \E c \in Clients :
         \/ \E ids \in Inputs : Acquire(c, ids) \/ Commit(c, ids)
         \/ Release(c)
    \/ \E pages \in 1 .. Cardinality(Pages) : Evict(pages * PageSize)

Spec == Init /\ [][Next]_cacheVars

-----------------------------------------------------------------------------
LockedBy(c) == IF handle[c] = NoHandle THEN <<>> ELSE handle[c]

\* Every page is free or backs exactly one block.
OnePagePerBlock ==
    /\ free \cup {tree.page[b] : b \in Blocks(tree)} = Pages
    /\ Cardinality(free) + Cardinality(Blocks(tree)) = Cardinality(Pages)

\* A node's ref_count counts the handles at or below it, so what is evictable is
\* exactly what no handle covers.
EvictableIsUnheld ==
    EvictableSize(tree) =
        PageSize * Cardinality({b \in Blocks(tree) : \A c \in Clients : ~IsPrefix(b, LockedBy(c))})

\* Whatever no handle covers can be evicted: evict never runs out of leaves.
EvictionPossible ==
    \A pages \in 1 .. EvictableSize(tree) \div PageSize : Evictions(tree, pages * PageSize) # {}

PagesAccounted == OnePagePerBlock /\ EvictableIsUnheld /\ EvictionPossible
==============================================================================
