----------------------------- MODULE PrefixProofs -----------------------------
(***************************************************************************)
(* Proofs about PrefixCache, for every pool, every page size and every set *)
(* of clients: each page stays accounted for, exactly what no handle covers*)
(* is evictable, and whatever is evictable can be evicted.                 *)
(***************************************************************************)
EXTENDS PrefixCache, RadixTreeProofs

Holding == {c \in Clients : handle[c] # NoHandle}

\* The tree is one, the handles are nodes of it, and its counts are theirs.
TreeInv ==
    /\ IsTree(tree, Nat, Pages)
    /\ DOMAIN handle = Clients
    /\ Points(tree, handle, Holding) /\ Counts(tree, handle, Holding)

\* No page backs two blocks, none is lost, and a free one backs nothing.
PageInv ==
    /\ IsInjective(tree.page)
    /\ free \subseteq Pages
    /\ free \cap Range(tree.page) = {} /\ free \cup Range(tree.page) = Pages

Inv == TreeInv /\ PageInv

(***************************************************************************)
(* Ranks: a finite set of integers in increasing order.                    *)
(***************************************************************************)

Rank(A, x) == Cardinality({y \in A : y < x}) + 1

\* The rank of an element is its place when the set is sorted.
LEMMA RankBounds ==
  ASSUME NEW A \in SUBSET Int, IsFiniteSet(A), NEW x \in A
  PROVE  /\ Rank(A, x) \in 1 .. Cardinality(A)
         /\ \A y \in A : x < y => Rank(A, x) < Rank(A, y)
<1>1. IsFiniteSet({z \in A : z < x}) /\ Cardinality({z \in A : z < x}) \in Nat
  BY FS_Subset, FS_CardinalityType
<1>2. ASSUME NEW T \in SUBSET A, {z \in A : z < x} \subseteq T, x \in T
      PROVE  Cardinality({z \in A : z < x}) + 1 <= Cardinality(T) /\ Cardinality(T) \in Nat
  <2>1. IsFiniteSet(T) /\ Cardinality(T) \in Nat
    BY FS_Subset, FS_CardinalityType
  <2>2. PICK L : L = {z \in A : z < x}
    OBVIOUS
  <2>3. x \notin L /\ L \cup {x} \in SUBSET T /\ IsFiniteSet(L) /\ Cardinality(L) \in Nat
    BY <1>1, <1>2, <2>2
  <2>4. Cardinality(L \cup {x}) = Cardinality(L) + 1
    BY <2>3, FS_AddElement
  <2>5. Cardinality(L \cup {x}) <= Cardinality(T)
    BY <2>1, <2>3, FS_Subset
  <2> QED BY <2>1, <2>2, <2>3, <2>4, <2>5
<1>3. Rank(A, x) \in 1 .. Cardinality(A)
  <2>1. Cardinality({z \in A : z < x}) + 1 <= Cardinality(A) /\ Cardinality(A) \in Nat
    BY <1>2
  <2> QED BY <1>1, <2>1 DEF Rank
<1>4. ASSUME NEW y \in A, x < y PROVE Rank(A, x) < Rank(A, y)
  <2>1. /\ {z \in A : z < y} \in SUBSET A /\ {z \in A : z < x} \subseteq {z \in A : z < y}
        /\ x \in {z \in A : z < y}
    <3>1. \A z \in A : z < x => z < y
      <4>1. ASSUME NEW z \in A, z < x PROVE z < y
        <5>1. z \in Int /\ x \in Int /\ y \in Int
          OBVIOUS
        <5> QED BY <1>4, <4>1, <5>1
      <4> QED BY <4>1
    <3> QED BY <1>4, <3>1
  <2>2. /\ Cardinality({z \in A : z < x}) + 1 <= Cardinality({z \in A : z < y})
        /\ Cardinality({z \in A : z < y}) \in Nat
    BY <1>2, <2>1
  <2> QED BY <1>1, <2>2 DEF Rank
<1> QED BY <1>3, <1>4

\* Every place is taken by one element.
LEMMA RankOnto ==
  ASSUME NEW A \in SUBSET Int, IsFiniteSet(A)
  PROVE  \E s \in [1 .. Cardinality(A) -> A] :
           /\ \A i \in 1 .. Cardinality(A) : Rank(A, s[i]) = i
           /\ \A x \in A : s[Rank(A, x)] = x
           /\ \A i, j \in 1 .. Cardinality(A) : i < j => s[i] < s[j]
<1>1. PICK k \in Nat : k = Cardinality(A)
  BY FS_CardinalityType
<1>2. PICK f : f = [x \in A |-> Rank(A, x)]
  OBVIOUS
<1>3. f \in [A -> 1 .. k] /\ \A x, y \in A : x < y => f[x] < f[y]
  BY <1>1, <1>2, RankBounds
<1>4. ASSUME NEW x \in A, NEW y \in A, f[x] = f[y] PROVE x = y
  <2>1. x < y \/ y < x \/ x = y
    OBVIOUS
  <2>2. f[x] \in Int
    BY <1>3
  <2> QED BY <1>3, <1>4, <2>1, <2>2
<1>5. f \in Injection(A, 1 .. k)
  BY <1>3, <1>4 DEF Injection, IsInjective
<1>6. IsFiniteSet(1 .. k) /\ Cardinality(1 .. k) = k
  <2>1. 1 \in Int /\ k \in Int
    OBVIOUS
  <2>2. IsFiniteSet(1 .. k) /\ Cardinality(1 .. k) = IF 1 > k THEN 0 ELSE k - 1 + 1
    BY <2>1, FS_Interval
  <2> QED BY <2>2
<1>7. f \in Surjection(A, 1 .. k)
  BY <1>1, <1>5, <1>6, FS_Injection
<1>8. \A i \in 1 .. k : \E x \in A : f[x] = i
  BY <1>7 DEF Surjection
<1>9. PICK s : s = [i \in 1 .. k |-> CHOOSE x \in A : f[x] = i]
  OBVIOUS
<1>10. s \in [1 .. k -> A] /\ \A i \in 1 .. k : f[s[i]] = i
  BY <1>8, <1>9
<1>11. \A x \in A : s[f[x]] = x
  BY <1>3, <1>4, <1>10
<1>12. ASSUME NEW i \in 1 .. k, NEW j \in 1 .. k, i < j PROVE s[i] < s[j]
  <2>1. s[i] \in A /\ s[j] \in A /\ f[s[i]] = i /\ f[s[j]] = j
    BY <1>10
  <2>2. s[i] # s[j]
    BY <1>12, <2>1
  <2>3. ASSUME s[j] < s[i] PROVE FALSE
    <3>1. f[s[j]] < f[s[i]]
      BY <1>3, <2>1, <2>3
    <3> QED BY <1>12, <2>1, <3>1
  <2>4. s[i] \in Int /\ s[j] \in Int
    BY <2>1
  <2> QED BY <2>2, <2>3, <2>4
<1> QED BY <1>1, <1>2, <1>3, <1>10, <1>11, <1>12

\* The pages a commit takes: as many as it asks for, free, each once.
LEMMA FirstPagesAre ==
  ASSUME NEW A \in SUBSET Nat, IsFiniteSet(A), NEW n \in Nat, n <= Cardinality(A)
  PROVE  /\ FirstPages(A, n) \in [1 .. n -> A]
         /\ \A i, j \in 1 .. n : FirstPages(A, n)[i] = FirstPages(A, n)[j] => i = j
<1>1. PICK k \in Nat : k = Cardinality(A)
  BY FS_CardinalityType
<1>2. PICK s \in [1 .. k -> A] :
        /\ \A i \in 1 .. k : Rank(A, s[i]) = i
        /\ \A x \in A : s[Rank(A, x)] = x
        /\ \A i, j \in 1 .. k : i < j => s[i] < s[j]
  BY <1>1, RankOnto
<1>3. PICK t : t = [i \in 1 .. n |-> s[i]]
  OBVIOUS
<1>4. t \in [1 .. n -> A] /\ \A i, j \in 1 .. n : i < j => t[i] < t[j]
  BY <1>1, <1>2, <1>3
<1>5. ASSUME NEW p \in A \ {t[i] : i \in 1 .. n}, NEW i \in 1 .. n PROVE t[i] < p
  <2>1. PICK r \in 1 .. k : r = Rank(A, p) /\ s[r] = p
    BY <1>1, <1>2, RankBounds
  <2>2. r \notin 1 .. n
    BY <1>3, <1>5, <2>1
  <2>3. i < r /\ i \in 1 .. k
    BY <1>1, <2>1, <2>2
  <2> QED BY <1>2, <1>3, <2>1, <2>3
<1>6. PICK g : g = FirstPages(A, n)
  OBVIOUS
<1>7. g \in [1 .. n -> A] /\ \A i, j \in 1 .. n : i < j => g[i] < g[j]
  BY <1>4, <1>5, <1>6 DEF FirstPages
<1>8. ASSUME NEW i \in 1 .. n, NEW j \in 1 .. n, g[i] = g[j] PROVE i = j
  <2>1. i < j \/ j < i \/ i = j
    OBVIOUS
  <2>2. g[i] \in Nat /\ g[j] \in Nat
    BY <1>7
  <2> QED BY <1>7, <1>8, <2>1, <2>2
<1> QED BY <1>6, <1>7, <1>8

(***************************************************************************)
(* The steps.                                                              *)
(***************************************************************************)

\* A token sequence is never taken for "no handle".
LEMMA PathIsHandle ==
  ASSUME NEW path \in Seq(Nat)
  PROVE  path # NoHandle
<1>1. ASSUME path = NoHandle PROVE FALSE
  <2>1. path = <<0 - 1>>
    BY <1>1 DEF NoHandle
  <2>2. Len(path) = 1 /\ path[1] = 0 - 1
    BY <2>1
  <2>3. path[1] \in Nat
    BY <2>2
  <2> QED BY <2>2, <2>3
<1> QED BY <1>1

\* What the invariant says of one held handle.
LEMMA HeldHandle ==
  ASSUME PrefixCacheAssumption, TreeInv
  PROVE  /\ IsFiniteSet(Holding) /\ Holding \subseteq Clients
         /\ \A c \in Holding : /\ handle[c] \in Nodes(tree) \cup {<<>>} /\ handle[c] \in Seq(Nat)
                               /\ Len(handle[c]) \in Nat /\ Len(handle[c]) % PageSize = 0
<1>1. IsFiniteSet(Holding) /\ Holding \subseteq Clients
  BY FS_Subset DEF PrefixCacheAssumption, Holding
<1>2. ASSUME NEW c \in Holding
      PROVE  /\ handle[c] \in Nodes(tree) \cup {<<>>} /\ handle[c] \in Seq(Nat)
             /\ Len(handle[c]) \in Nat /\ Len(handle[c]) % PageSize = 0
  <2>1. handle[c] \in Nodes(tree) \cup {<<>>} /\ IsTree(tree, Nat, Pages)
    BY DEF TreeInv, Points
  <2>2. CASE handle[c] \in Nodes(tree)
    <3>1. PICK b \in Blocks(tree) : b = handle[c]
      BY <2>1, <2>2, NodeOfNode
    <3> QED BY <2>1, <3>1, BlockFacts
  <2>3. CASE handle[c] = <<>>
    <3>1. Len(handle[c]) = 0 /\ handle[c] \in Seq(Nat) /\ 0 % PageSize = 0
      BY <2>3, PageSizeAssumption
    <3> QED BY <2>1, <3>1
  <2> QED BY <2>1, <2>2, <2>3
<1> QED BY <1>1, <1>2

LEMMA AcquireKeeps ==
  ASSUME PrefixCacheAssumption, Inv, NEW c \in Clients, NEW ids \in Inputs, Acquire(c, ids)
  PROVE  Inv'
<1>1. /\ IsTree(tree, Nat, Pages) /\ DOMAIN handle = Clients
      /\ Points(tree, handle, Holding) /\ Counts(tree, handle, Holding)
  BY DEF Inv, TreeInv
<1>2. PICK at, st : at = Prefix(ids, MatchLen(tree, ids)) /\ st = SplitAt(tree, at)
  OBVIOUS
<1>3. ids \in Seq(Nat)
  BY DEF PrefixCacheAssumption
<1>4. at \in Blocks(tree) \cup {<<>>}
  <2>1. /\ MatchLen(tree, ids) \in 0 .. Len(ids)
        /\ MatchLen(tree, ids) # 0 => Prefix(ids, MatchLen(tree, ids)) \in Blocks(tree)
    BY <1>1, <1>3, MatchLenIs
  <2>2. MatchLen(tree, ids) = 0 => at = <<>>
    BY <1>2, <1>3, PrefixEmpty
  <2> QED BY <1>2, <2>1, <2>2
<1>5. /\ tree' = lock(st, at) /\ handle' = [handle EXCEPT ![c] = at] /\ free' = free
      /\ handle[c] = NoHandle
  BY <1>2 DEF Acquire, match_prefix, Walk
<1>6. /\ IsTree(st, Nat, Pages) /\ st.page = tree.page
      /\ Nodes(st) = Nodes(tree) \cup ({at} \ {<<>>})
  BY <1>1, <1>2, <1>4, SplitTree
<1>7. Points(st, handle, Holding) /\ Counts(st, handle, Holding)
  BY <1>1, <1>2, <1>4, CountsSplit
<1>8. /\ IsTree(tree', Nat, Pages) /\ tree'.page = tree.page
  BY <1>5, <1>6, LockTree
<1>9. at \in Seq(Nat) /\ at # NoHandle
  <2>1. at \in Seq(Nat)
    <3>1. Blocks(tree) \subseteq Seq(Nat) /\ <<>> \in Seq(Nat)
      BY <1>1 DEF IsTree
    <3> QED BY <1>4, <3>1
  <2> QED BY <2>1, PathIsHandle
<1>10. Holding' = Holding \cup {c} /\ DOMAIN handle' = Clients
  BY <1>1, <1>5, <1>9 DEF Holding
<1>11. /\ IsFiniteSet(Holding) /\ c \notin Holding /\ at \in Nodes(st) \cup {<<>>}
       /\ handle'[c] = at /\ \A u \in Holding : handle'[u] = handle[u]
  BY <1>1, <1>5, <1>6, HeldHandle DEF Inv, Holding
<1>12. Points(tree', handle', Holding') /\ Counts(tree', handle', Holding')
  BY <1>5, <1>6, <1>7, <1>10, <1>11, CountsLock
<1>13. TreeInv'
  BY <1>8, <1>10, <1>12 DEF TreeInv
<1>14. PageInv'
  BY <1>5, <1>8 DEF Inv, PageInv
<1> QED BY <1>13, <1>14 DEF Inv

LEMMA ReleaseKeeps ==
  ASSUME PrefixCacheAssumption, Inv, NEW c \in Clients, Release(c)
  PROVE  Inv'
<1>1. /\ IsTree(tree, Nat, Pages) /\ DOMAIN handle = Clients
      /\ Points(tree, handle, Holding) /\ Counts(tree, handle, Holding)
  BY DEF Inv, TreeInv
<1>2. /\ tree' = unlock(tree, handle[c]) /\ handle' = [handle EXCEPT ![c] = NoHandle]
      /\ free' = free /\ c \in Holding
  BY DEF Release, Holding
<1>3. IsFiniteSet(Holding)
  BY HeldHandle DEF Inv
<1>4. /\ \A n \in Nodes(tree) : IsPrefix(n, handle[c]) => tree.ref[n] > 0
      /\ Points(tree', handle, Holding \ {c}) /\ Counts(tree', handle, Holding \ {c})
  BY <1>1, <1>2, <1>3, CountsUnlock
<1>5. IsTree(tree', Nat, Pages) /\ tree'.page = tree.page
  BY <1>1, <1>2, <1>4, UnlockTree
<1>6. /\ Holding' = Holding \ {c} /\ DOMAIN handle' = Clients
      /\ \A u \in Holding \ {c} : handle'[u] = handle[u]
  BY <1>1, <1>2 DEF Holding
<1>7. Points(tree', handle', Holding') /\ Counts(tree', handle', Holding')
  <2>1. Points(tree', handle', Holding')
    BY <1>4, <1>6 DEF Points
  <2>2. \A n : Covering(handle', Holding', n) = Covering(handle, Holding \ {c}, n)
    BY <1>6 DEF Covering
  <2> QED BY <1>4, <2>1, <2>2 DEF Counts
<1>8. TreeInv'
  BY <1>5, <1>6, <1>7 DEF TreeInv
<1>9. PageInv'
  BY <1>2, <1>5 DEF Inv, PageInv
<1> QED BY <1>8, <1>9 DEF Inv

LEMMA EvictKeeps ==
  ASSUME PrefixCacheAssumption, Inv, NEW size, Evict(size)
  PROVE  Inv'
<1>1. /\ IsTree(tree, Nat, Pages) /\ DOMAIN handle = Clients
      /\ Points(tree, handle, Holding) /\ Counts(tree, handle, Holding)
  BY DEF Inv, TreeInv
<1>2. PICK E \in Evictions(tree, size) :
        /\ tree' = RemoveNodes(tree, E) /\ free' = free \cup PagesOf(tree, E)
        /\ handle' = handle
  BY DEF Evict
<1>3. E \in SUBSET Nodes(tree) /\ \A n \in E : tree.ref[n] = 0 /\ Children(tree, n) \subseteq E
  BY <1>2 DEF Evictions
<1>4. /\ IsTree(tree', Nat, Pages)
      /\ Blocks(tree') = {b \in Blocks(tree) : NodeOf(tree, b) \notin E}
      /\ \A b \in Blocks(tree') : tree'.page[b] = tree.page[b]
  BY <1>1, <1>2, <1>3, RemoveTree
<1>5. Points(tree', handle, Holding) /\ Counts(tree', handle, Holding)
  <2>1. IsFiniteSet(Holding)
    BY HeldHandle DEF Inv
  <2> QED BY <1>1, <1>2, <1>3, <2>1, CountsRemove
<1>6. TreeInv'
  BY <1>1, <1>2, <1>4, <1>5 DEF TreeInv, Holding
<1>7. PagesOf(tree, E) = {tree.page[b] : b \in {d \in Blocks(tree) : NodeOf(tree, d) \in E}}
  BY DEF PagesOf, BlocksOf
<1>8. PageInv'
  <2>1. /\ \A b, d \in Blocks(tree) : tree.page[b] = tree.page[d] => b = d
        /\ Range(tree.page) = {tree.page[b] : b \in Blocks(tree)}
        /\ free \subseteq Pages /\ free \cap Range(tree.page) = {}
        /\ free \cup Range(tree.page) = Pages
    BY DEF Inv, PageInv, IsInjective, Range, Blocks
  <2>2. Range(tree'.page) = {tree.page[b] : b \in Blocks(tree')}
    BY <1>4 DEF Range, Blocks
  <2>3. IsInjective(tree'.page)
    <3>1. DOMAIN tree'.page = Blocks(tree')
      BY DEF Blocks
    <3> QED BY <1>4, <2>1, <3>1 DEF IsInjective
  <2>4. Range(tree.page) = Range(tree'.page) \cup PagesOf(tree, E)
    BY <1>4, <1>7, <2>1, <2>2
  <2>5. Range(tree'.page) \cap PagesOf(tree, E) = {}
    BY <1>4, <1>7, <2>1, <2>2
  <2>6. free' = free \cup PagesOf(tree, E)
    BY <1>2
  <2> QED BY <2>1, <2>3, <2>4, <2>5, <2>6 DEF PageInv
<1> QED BY <1>6, <1>8 DEF Inv

\* A function on 1 .. k is a sequence of length k.
LEMMA SeqOfLength ==
  ASSUME NEW T, NEW k \in Nat, NEW f \in [1 .. k -> T]
  PROVE  f \in Seq(T) /\ Len(f) = k
<1>1. f \in Seq(T) /\ DOMAIN f = 1 .. k
  OBVIOUS
<1>2. PICK m \in Nat : m = Len(f) /\ DOMAIN f = 1 .. m
  BY <1>1
<1>3. (k = 0 \/ k \in 1 .. m) /\ (m = 0 \/ m \in 1 .. k)
  BY <1>1, <1>2
<1> QED BY <1>1, <1>2, <1>3

\* What a concatenation has past its first part.
LEMMA SecondPart ==
  ASSUME NEW T, NEW k \in Nat, NEW m \in Nat, NEW g \in [1 .. k -> T], NEW f \in [1 .. m -> T]
  PROVE  \A i \in k + 1 .. k + m : (g \o f)[i] = f[i - k]
<1>1. g \in Seq(T) /\ Len(g) = k /\ f \in Seq(T) /\ Len(f) = m
  BY SeqOfLength
<1> QED BY <1>1

\* The pages of the handle, of what the tree has, and of all of ids; the new ones.
CommitSizes(c, ids, k0, k1, n, new) ==
    /\ k0 = Len(handle[c]) \div PageSize /\ n = Len(ids) \div PageSize
    /\ AlignDown(Len(ids)) = n * PageSize
    /\ MatchLen(tree, Prefix(ids, AlignDown(Len(ids)))) = k1 * PageSize
    /\ MatchLen(tree, Prefix(ids, AlignDown(Len(ids)))) \div PageSize = k1
    /\ k0 <= k1 /\ k1 <= n
    /\ new = FirstPages(free, n - k0) /\ new \in [1 .. n - k0 -> free]
    /\ \A i, j \in 1 .. n - k0 : new[i] = new[j] => i = j

\* What a commit asks for: whole pages past its handle, free and apart.
LEMMA CommitAsks ==
  ASSUME PrefixCacheAssumption, Inv, NEW c \in Clients, NEW ids \in Inputs, Commit(c, ids)
  PROVE  \E k0, k1, n \in Nat, new \in Seq(Nat) : CommitSizes(c, ids, k0, k1, n, new)
<1>1. /\ ids \in Seq(Nat) /\ Len(ids) \in Nat /\ IsTree(tree, Nat, Pages)
      /\ free \in SUBSET Nat /\ IsFiniteSet(free)
  BY FS_Subset DEF PrefixCacheAssumption, Inv, TreeInv, PageInv
<1>2. /\ c \in Holding /\ IsPrefix(handle[c], ids)
      /\ Len(ids) \div PageSize - Len(handle[c]) \div PageSize <= Cardinality(free)
  BY DEF Commit, Holding
<1>3. PICK path \in Seq(Nat) : /\ path = handle[c] /\ path \in Nodes(tree) \cup {<<>>}
                               /\ Len(path) \in Nat /\ Len(path) % PageSize = 0
  BY <1>2, HeldHandle DEF Inv
<1>4. PICK n \in Nat : n = Len(ids) \div PageSize /\ AlignDown(Len(ids)) = n * PageSize
  BY <1>1, AlignDownIs DEF AlignDown
<1>5. PICK key \in Seq(Nat) : /\ key = Prefix(ids, AlignDown(Len(ids))) /\ Len(key) = n * PageSize
                              /\ IsPrefix(key, ids)
  <2>1. AlignDown(Len(ids)) \in 0 .. Len(ids)
    BY <1>1, AlignDownBound
  <2> QED BY <1>1, <1>4, <2>1, PrefixProperties
<1>6. PICK old : old = MatchLen(tree, key)
  OBVIOUS
<1>7. old \in 0 .. Len(key) /\ old % PageSize = 0
  BY <1>1, <1>6, MatchLenIs
<1>8. PICK k1 \in Nat : old = k1 * PageSize /\ old \div PageSize = k1
  BY <1>7, MultipleOf
<1>9. PICK k0 \in Nat : Len(path) = k0 * PageSize /\ Len(path) \div PageSize = k0
  BY <1>3, MultipleOf
<1>10. Len(path) <= old
  <2>1. CASE path = <<>>
    <3>1. Len(path) = 0
      BY <2>1
    <3> QED BY <1>7, <3>1
  <2>2. CASE path \in Nodes(tree)
    <3>1. path \in Blocks(tree)
      BY <1>1, <2>2, NodeOfNode
    <3>2. Len(path) <= Len(ids)
      BY <1>1, <1>2, <1>3, PrefixLength
    <3>3. Len(path) <= AlignDown(Len(ids))
      <4>1. Len(path) \in 0 .. Len(ids)
        BY <1>1, <1>3, <3>2
      <4>2. \A q \in 0 .. Len(ids) : q % PageSize = 0 => q <= AlignDown(Len(ids))
        BY <1>1, AlignDownIs
      <4> QED BY <1>3, <4>1, <4>2
    <3>4. IsPrefix(path, key)
      BY <1>1, <1>2, <1>3, <1>4, <1>5, <3>3, PrefixChain
    <3> QED BY <1>1, <1>6, <3>1, <3>4, MatchedBlocks
  <2> QED BY <1>3, <2>1, <2>2
<1>11. k0 <= k1 /\ k1 <= n
  BY <1>5, <1>7, <1>8, <1>9, <1>10, MultipleOrder
<1>12. PICK m \in Nat : m = n - k0 /\ m <= Cardinality(free)
  BY <1>2, <1>3, <1>4, <1>9, <1>11
<1>13. PICK new : new = FirstPages(free, m)
  OBVIOUS
<1>14. new \in [1 .. m -> free] /\ \A i, j \in 1 .. m : new[i] = new[j] => i = j
  BY <1>1, <1>12, <1>13, FirstPagesAre
<1>15. new \in [1 .. n - k0 -> free] /\ new \in Seq(Nat)
  <2>1. new \in [1 .. m -> Nat]
    BY <1>1, <1>14
  <2> QED BY <1>12, <1>14, <2>1, SeqOfLength
<1>16. CommitSizes(c, ids, k0, k1, n, new)
  <2>1. k0 = Len(handle[c]) \div PageSize
    BY <1>3, <1>9
  <2>2. /\ MatchLen(tree, Prefix(ids, AlignDown(Len(ids)))) = k1 * PageSize
        /\ MatchLen(tree, Prefix(ids, AlignDown(Len(ids)))) \div PageSize = k1
    BY <1>5, <1>6, <1>8
  <2>3. new = FirstPages(free, n - k0) /\ \A i, j \in 1 .. n - k0 : new[i] = new[j] => i = j
    BY <1>12, <1>13, <1>14
  <2> QED BY <1>4, <1>11, <1>15, <2>1, <2>2, <2>3 DEF CommitSizes
<1> QED BY <1>15, <1>16

LEMMA CommitKeeps ==
  ASSUME PrefixCacheAssumption, Inv, NEW c \in Clients, NEW ids \in Inputs, Commit(c, ids)
  PROVE  Inv'
<1>1. /\ IsTree(tree, Nat, Pages) /\ DOMAIN handle = Clients
      /\ Points(tree, handle, Holding) /\ Counts(tree, handle, Holding)
      /\ ids \in Seq(Nat) /\ Len(ids) \in Nat /\ free \subseteq Pages
  BY DEF Inv, TreeInv, PageInv, PrefixCacheAssumption
<1>2. PICK k0 \in Nat, k1 \in Nat, n \in Nat, new \in Seq(Nat) :
           /\ CommitSizes(c, ids, k0, k1, n, new)
           /\ new \in [1 .. n - k0 -> free]
           /\ k0 = Len(handle[c]) \div PageSize /\ n = Len(ids) \div PageSize
           /\ AlignDown(Len(ids)) = n * PageSize
           /\ MatchLen(tree, Prefix(ids, AlignDown(Len(ids)))) = k1 * PageSize
           /\ MatchLen(tree, Prefix(ids, AlignDown(Len(ids)))) \div PageSize = k1
           /\ k0 <= k1 /\ k1 <= n
           /\ new = FirstPages(free, n - k0)
           /\ \A i, j \in 1 .. n - k0 : new[i] = new[j] => i = j
  BY CommitAsks DEF CommitSizes
<1>3. PICK m \in Nat : m = n - k0
  BY <1>2
<1>4. PICK path, pages, ins : /\ path = handle[c]
                              /\ pages = get_matched_indices(tree, path) \o new
                              /\ ins = insert_prefix(tree, ids, pages)
  OBVIOUS
<1>5. /\ c \in Holding /\ handle[c] # NoHandle
      /\ tree' = lock(unlock(ins.tree, path), ins.path)
      /\ handle' = [handle EXCEPT ![c] = ins.path]
      /\ free' = free \ Taken(new, k0, ins.cached_len)
  BY <1>2, <1>4 DEF Commit, Holding
<1>6. \A i \in k0 + 1 .. n : pages[i] = new[i - k0]
  <2>1. new \in [1 .. m -> Pages] /\ k0 + m = n
    BY <1>1, <1>2, <1>3
  <2>2. \A i \in k0 + 1 .. k0 + m : pages[i] = new[i - k0]
    <3>1. PICK g : g = get_matched_indices(tree, path)
      OBVIOUS
    <3>2. PICK T : T = Pages \cup {tree.page[Prefix(path, i * PageSize)] : i \in 1 .. k0}
      OBVIOUS
    <3>3. k0 = Len(path) \div PageSize
      BY <1>2, <1>4
    <3>4. g \in [1 .. k0 -> T]
      BY <3>1, <3>2, <3>3 DEF get_matched_indices
    <3>5. new \in [1 .. m -> T]
      BY <2>1, <3>2
    <3>6. \A i \in k0 + 1 .. k0 + m : (g \o new)[i] = new[i - k0]
      BY <3>4, <3>5, SecondPart
    <3> QED BY ONLY <1>4, <3>1, <3>6
  <2> QED BY ONLY <2>1, <2>2
<1>7. \A i \in k1 + 1 .. n : pages[i] = new[i - k0] /\ i - k0 \in 1 .. n - k0
  <2>1. k0 <= k1 /\ k1 <= n
    BY <1>2
  <2>2. ASSUME NEW i \in k1 + 1 .. n PROVE i \in k0 + 1 .. n /\ i - k0 \in 1 .. n - k0
    BY ONLY <2>1, k0 \in Nat, k1 \in Nat, n \in Nat, i \in k1 + 1 .. n
  <2> QED BY <1>6, <2>2
<1>8. \A i \in MatchLen(tree, Prefix(ids, AlignDown(Len(ids)))) \div PageSize + 1
                    .. AlignDown(Len(ids)) \div PageSize : pages[i] \in Pages
  <2>1. AlignDown(Len(ids)) \div PageSize = n
    <3>1. (n * PageSize) \div PageSize = n
      BY Multiples
    <3> QED BY <1>2, <3>1
  <2>2. \A i \in k1 + 1 .. n : pages[i] \in Pages
    BY <1>1, <1>2, <1>7
  <2>3. MatchLen(tree, Prefix(ids, AlignDown(Len(ids)))) \div PageSize = k1
    BY <1>2
  <2> QED BY ONLY <2>1, <2>2, <2>3
<1>9. /\ IsTree(ins.tree, Nat, Pages) /\ Inserted(tree, ids, pages, ins.tree)
      /\ ins.path = Prefix(ids, AlignDown(Len(ids))) /\ ins.cached_len = k1 * PageSize
  <2>1. MatchLen(tree, Prefix(ids, AlignDown(Len(ids)))) = k1 * PageSize
    BY <1>2
  <2>2. /\ IsTree(insert_prefix(tree, ids, pages).tree, Nat, Pages)
        /\ Inserted(tree, ids, pages, insert_prefix(tree, ids, pages).tree)
        /\ insert_prefix(tree, ids, pages).path = Prefix(ids, AlignDown(Len(ids)))
        /\ insert_prefix(tree, ids, pages).cached_len = MatchLen(tree, Prefix(ids, AlignDown(Len(ids))))
    BY <1>1, <1>8, InsertTree
  <2> QED BY ONLY <1>4, <2>1, <2>2
<1>10. PICK st : st = ins.tree
  OBVIOUS
<1>11. Points(st, handle, Holding) /\ Counts(st, handle, Holding)
  BY <1>1, <1>9, <1>10, CountsInsert
<1>12. IsFiniteSet(Holding)
  BY HeldHandle DEF Inv
<1>13. PICK ut : ut = unlock(st, path)
  OBVIOUS
<1>14. /\ \A x \in Nodes(st) : IsPrefix(x, path) => st.ref[x] > 0
       /\ Points(ut, handle, Holding \ {c}) /\ Counts(ut, handle, Holding \ {c})
  BY <1>4, <1>5, <1>9, <1>10, <1>11, <1>12, <1>13, CountsUnlock
<1>15. IsTree(ut, Nat, Pages) /\ ut.page = st.page /\ Nodes(ut) = Nodes(st)
  BY <1>9, <1>10, <1>13, <1>14, UnlockTree
<1>16. PICK key : key = ins.path
  OBVIOUS
<1>17. key \in Nodes(ut) \cup {<<>>} /\ key \in Seq(Nat)
  <2>1. key \in Nodes(st) \cup {<<>>}
    BY <1>9, <1>10, <1>16 DEF Inserted
  <2>2. key \in Seq(Nat)
    BY <1>1, <1>9, <1>16, AlignDownBound, PrefixType
  <2> QED BY <1>15, <2>1, <2>2
<1>18. /\ IsTree(tree', Nat, Pages) /\ tree'.page = st.page
  BY <1>5, <1>10, <1>13, <1>15, <1>16, LockTree
<1>19. /\ DOMAIN handle' = Clients /\ Holding' = (Holding \ {c}) \cup {c}
       /\ handle'[c] = key /\ \A u \in Holding \ {c} : handle'[u] = handle[u]
  <2>1. key # NoHandle
    BY <1>17, PathIsHandle
  <2> QED BY <1>1, <1>5, <1>16, <2>1 DEF Holding
<1>20. IsFiniteSet(Holding \ {c}) /\ c \notin Holding \ {c}
  BY <1>12, FS_RemoveElement
<1>21. Points(tree', handle', Holding') /\ Counts(tree', handle', Holding')
  BY <1>5, <1>10, <1>13, <1>14, <1>15, <1>16, <1>17, <1>19, <1>20, CountsLock
<1>22. TreeInv'
  BY <1>18, <1>19, <1>21 DEF TreeInv
<1>23. PageInv'
  <2>1. PICK NB : NB = NewBlocks(ids, k1 * PageSize, n * PageSize)
    OBVIOUS
  <2>2. /\ NB \cap Blocks(tree) = {} /\ Blocks(st) = Blocks(tree) \cup NB
        /\ \A b \in Blocks(tree) : st.page[b] = tree.page[b]
        /\ \A b \in NB : st.page[b] = pages[Len(b) \div PageSize]
    BY <1>2, <1>9, <1>10, <2>1 DEF Inserted
  <2>3. /\ NB = {Prefix(ids, i * PageSize) : i \in k1 + 1 .. n}
        /\ \A i \in k1 + 1 .. n : Len(Prefix(ids, i * PageSize)) \div PageSize = i
    <3>1. PICK a, d : a = k1 * PageSize /\ d = n * PageSize
      OBVIOUS
    <3>2. /\ a \div PageSize = k1 /\ d \div PageSize = n /\ a % PageSize = 0 /\ d % PageSize = 0
          /\ a \in Nat /\ d \in Nat
      BY <3>1, Multiples
    <3>3. a <= d
      BY <1>2, <3>1, MultipleOrder
    <3>4. d \in 0 .. Len(ids)
      BY <1>1, <1>2, <3>1, AlignDownBound
    <3>5. a \in 0 .. d
      BY <3>2, <3>3
    <3>6. \A i \in (a \div PageSize + 1) .. (d \div PageSize) :
              Len(Prefix(ids, i * PageSize)) \div PageSize = i
      BY <1>1, <3>2, <3>4, <3>5, NewBlocksAre
    <3>7. NB = {Prefix(ids, i * PageSize) : i \in (a \div PageSize + 1) .. (d \div PageSize)}
      BY <2>1, <3>1 DEF NewBlocks
    <3> QED BY <3>2, <3>6, <3>7
  <2>4. \A i \in k1 + 1 .. n : st.page[Prefix(ids, i * PageSize)] = new[i - k0]
    BY <1>7, <2>2, <2>3
  <2>5. \A i \in k1 + 1 .. n : i - k0 \in 1 .. n - k0 /\ new[i - k0] \in free
    BY <1>2, <1>7
  <2>6. PICK tk : tk = Taken(new, k0, ins.cached_len)
    OBVIOUS
  <2>7. tk = {new[i - k0] : i \in k1 + 1 .. n}
    <3>1. new \in [1 .. m -> free]
      BY <1>2, <1>3
    <3>2. Len(new) = m
      BY <3>1, SeqOfLength
    <3>3. ins.cached_len \div PageSize = k1
      BY <1>9, Multiples
    <3>4. tk = {new[i] : i \in k1 - k0 + 1 .. n - k0}
      BY <1>3, <2>6, <3>2, <3>3 DEF Taken
    <3>5. \A i \in k1 + 1 .. n : i - k0 \in k1 - k0 + 1 .. n - k0
      OBVIOUS
    <3>6. \A i \in k1 - k0 + 1 .. n - k0 : i + k0 \in k1 + 1 .. n /\ (i + k0) - k0 = i
      OBVIOUS
    <3>7. ASSUME NEW x \in tk PROVE x \in {new[i - k0] : i \in k1 + 1 .. n}
      <4>1. PICK i \in k1 - k0 + 1 .. n - k0 : x = new[i]
        BY <3>4, <3>7
      <4>2. PICK j \in k1 + 1 .. n : j - k0 = i
        BY <3>6
      <4> QED BY <4>1, <4>2
    <3>8. ASSUME NEW j \in k1 + 1 .. n PROVE new[j - k0] \in tk
      BY <3>4, <3>5
    <3> QED BY <3>7, <3>8
  <2>8. /\ \A b, d \in Blocks(tree) : tree.page[b] = tree.page[d] => b = d
        /\ Range(tree.page) = {tree.page[b] : b \in Blocks(tree)}
        /\ free \subseteq Pages /\ free \cap Range(tree.page) = {}
        /\ free \cup Range(tree.page) = Pages
    BY DEF Inv, PageInv, IsInjective, Range, Blocks
  <2>9. Range(st.page) = {st.page[b] : b \in Blocks(st)}
    BY DEF Range, Blocks
  <2>10. Range(st.page) = Range(tree.page) \cup tk
    <3>1. {st.page[b] : b \in NB} = tk
      BY <2>3, <2>4, <2>7
    <3> QED BY <2>2, <2>8, <2>9, <3>1
  <2>11. tk \subseteq free
    BY <2>5, <2>7
  <2>12. ASSUME NEW b \in Blocks(st), NEW d \in Blocks(st), st.page[b] = st.page[d]
         PROVE  b = d
    <3>1. CASE b \in Blocks(tree) /\ d \in Blocks(tree)
      BY <2>2, <2>8, <2>12, <3>1
    <3>2. \A x \in Blocks(tree) : \A y \in NB : st.page[x] # st.page[y]
      <4>1. ASSUME NEW x \in Blocks(tree), NEW y \in NB PROVE st.page[x] # st.page[y]
        <5>1. PICK i \in k1 + 1 .. n : y = Prefix(ids, i * PageSize)
          BY <2>3
        <5>2. st.page[y] \in free
          BY <2>4, <2>5, <5>1
        <5>3. st.page[x] \in Range(tree.page)
          BY <2>2, <2>8
        <5> QED BY <2>8, <5>2, <5>3
      <4> QED BY <4>1
    <3>3. CASE b \in NB /\ d \in NB
      <4>1. PICK i \in k1 + 1 .. n, j \in k1 + 1 .. n :
              b = Prefix(ids, i * PageSize) /\ d = Prefix(ids, j * PageSize)
        BY <2>3, <3>3
      <4>2. new[i - k0] = new[j - k0]
        BY <2>4, <2>12, <4>1
      <4>3. i - k0 = j - k0
        BY <1>2, <2>5, <4>2
      <4>4. i = j
        BY <4>3
      <4> QED BY <4>1, <4>4
    <3> QED BY <2>2, <2>12, <3>1, <3>2, <3>3
  <2>13. IsInjective(st.page)
    BY <2>12 DEF IsInjective, Blocks
  <2>14. free' = free \ tk
    BY <1>5, <2>6
  <2> QED BY <1>18, <2>8, <2>10, <2>11, <2>13, <2>14 DEF PageInv
<1> QED BY <1>22, <1>23 DEF Inv

(***************************************************************************)
(* What the invariant is worth to the user of the cache.                   *)
(***************************************************************************)

\* A nonempty set of naturals has a least element.
LEMMA LeastOf ==
  ASSUME NEW A \in SUBSET Nat, A # {}
  PROVE  \E x \in A : \A y \in A : x <= y
<1>1. PICK k \in Nat : k \in A
  OBVIOUS
<1>2. PICK D : D = {k - y : y \in {z \in A : z <= k}}
  OBVIOUS
<1>3. D \subseteq 0 .. k /\ D # {}
  <2>1. ASSUME NEW d \in D PROVE d \in 0 .. k
    <3>1. PICK y \in A : y <= k /\ d = k - y
      BY <1>2
    <3> QED BY <3>1
  <2>2. k - k \in D
    BY <1>1, <1>2
  <2> QED BY <2>1, <2>2
<1>4. Max(D) \in D /\ \A d \in D : Max(D) >= d
  BY <1>3, MaxExists
<1>5. PICK x \in A : x <= k /\ Max(D) = k - x
  BY <1>2, <1>4
<1>6. ASSUME NEW y \in A PROVE x <= y
  <2>1. CASE y <= k
    <3>1. k - y \in D
      BY <1>2, <2>1
    <3>2. k - x >= k - y
      BY <1>4, <1>5, <3>1
    <3> QED BY <3>2
  <2>2. CASE ~(y <= k)
    BY <1>5, <2>2
  <2> QED BY <2>1, <2>2
<1> QED BY <1>6

EdgesOf(tr, E) == UNION {BlocksOf(tr, n) : n \in E}
Unheld(tr) == {n \in Nodes(tr) : tr.ref[n] = 0}

\* What is evictable is on the edges of the nodes nobody holds; those below
\* such a node are as free as it is.
LEMMA UnheldNodes ==
  ASSUME PrefixCacheAssumption, TreeInv
  PROVE  /\ EdgesOf(tree, Unheld(tree)) = {b \in Blocks(tree) : tree.ref[NodeOf(tree, b)] = 0}
         /\ \A n \in Unheld(tree) : Children(tree, n) \subseteq Unheld(tree)
         /\ \A b \in Blocks(tree) :
              tree.ref[NodeOf(tree, b)] = 0 <=> \A c \in Clients : ~IsPrefix(b, LockedBy(c))
         /\ IsFiniteSet(Blocks(tree)) /\ IsFiniteSet(Nodes(tree))
<1>1. /\ IsTree(tree, Nat, Pages) /\ DOMAIN handle = Clients
      /\ Points(tree, handle, Holding) /\ Counts(tree, handle, Holding)
  BY DEF TreeInv
<1>2. /\ \A b \in Blocks(tree) : NodeOf(tree, b) \in Nodes(tree)
      /\ Nodes(tree) \subseteq Blocks(tree) /\ IsFiniteSet(Blocks(tree))
  BY <1>1, NodeOfIs DEF IsTree, WellFormed
<1>3. EdgesOf(tree, Unheld(tree)) = {b \in Blocks(tree) : tree.ref[NodeOf(tree, b)] = 0}
  BY <1>2 DEF EdgesOf, Unheld, BlocksOf
<1>4. ASSUME NEW n \in Nodes(tree)
      PROVE  tree.ref[n] = 0 <=> Covering(handle, Holding, n) = {}
  <2>1. IsFiniteSet(Covering(handle, Holding, n))
    <3>1. Covering(handle, Holding, n) \in SUBSET Clients
      BY DEF Covering, Holding
    <3> QED BY <3>1, FS_Subset DEF PrefixCacheAssumption
  <2>2. tree.ref[n] = Cardinality(Covering(handle, Holding, n))
    BY <1>1 DEF Counts
  <2> QED BY <2>1, <2>2, FS_EmptySet
<1>5. ASSUME NEW n \in Unheld(tree), NEW m \in Children(tree, n) PROVE m \in Unheld(tree)
  <2>1. n \in Nodes(tree) /\ m \in Nodes(tree) /\ IsPrefix(n, m) /\ tree.ref[n] = 0
    BY DEF Unheld, Children, IsStrictPrefix
  <2>2. n \in Seq(Nat) /\ m \in Seq(Nat)
    BY <1>1, <2>1, NodeOfNode
  <2>3. ASSUME NEW c \in Covering(handle, Holding, m) PROVE c \in Covering(handle, Holding, n)
    <3>1. c \in Holding /\ IsPrefix(m, handle[c])
      BY DEF Covering
    <3>2. handle[c] \in Seq(Nat)
      BY <3>1, HeldHandle
    <3>3. IsPrefix(n, handle[c])
      BY <2>1, <2>2, <3>1, <3>2, PrefixTrans
    <3> QED BY <3>1, <3>3 DEF Covering
  <2>4. tree.ref[m] = 0
    BY <1>4, <2>1, <2>3
  <2> QED BY <2>1, <2>4 DEF Unheld
<1>6. ASSUME NEW b \in Blocks(tree)
      PROVE  tree.ref[NodeOf(tree, b)] = 0 <=> \A c \in Clients : ~IsPrefix(b, LockedBy(c))
  <2>1. b \in Seq(Nat) /\ b # <<>>
    BY <1>1, BlockFacts
  <2>2. Covering(handle, Holding, b) = {c \in Clients : IsPrefix(b, LockedBy(c))}
    <3>1. ASSUME NEW c \in Clients, c \notin Holding PROVE ~IsPrefix(b, LockedBy(c))
      <4>1. LockedBy(c) = <<>>
        BY <3>1 DEF LockedBy, Holding
      <4> QED BY <2>1, <4>1, PrefixEmpty
    <3>2. \A c \in Holding : LockedBy(c) = handle[c] /\ c \in Clients
      BY DEF LockedBy, Holding
    <3> QED BY <3>1, <3>2 DEF Covering
  <2>3. Covering(handle, Holding, b) = Covering(handle, Holding, NodeOf(tree, b))
    BY <1>1, CoversEdge
  <2>4. tree.ref[NodeOf(tree, b)] = 0 <=> Covering(handle, Holding, b) = {}
    BY <1>2, <1>4, <2>3
  <2> QED BY <2>2, <2>4
<1>7. IsFiniteSet(Nodes(tree))
  BY <1>2, FS_Subset
<1> QED BY <1>2, <1>3, <1>5, <1>6, <1>7

\* evict finds what it is asked for among the nodes nobody holds: the smallest
\* sets of them that are large enough are what it may take.
LEMMA EvictionFound ==
  ASSUME PrefixCacheAssumption, TreeInv, NEW k \in Nat \ {0},
         k <= Cardinality(EdgesOf(tree, Unheld(tree)))
  PROVE  Evictions(tree, k * PageSize) # {}
<1>1. /\ IsTree(tree, Nat, Pages) /\ IsFiniteSet(Blocks(tree)) /\ IsFiniteSet(Nodes(tree))
      /\ \A n \in Unheld(tree) : Children(tree, n) \subseteq Unheld(tree)
  BY UnheldNodes DEF TreeInv
<1>2. \A E : IsFiniteSet(EdgesOf(tree, E)) /\ Cardinality(EdgesOf(tree, E)) \in Nat
  <2>1. \A E : EdgesOf(tree, E) \in SUBSET Blocks(tree)
    BY DEF EdgesOf, BlocksOf
  <2> QED BY <1>1, <2>1, FS_Subset, FS_CardinalityType
<1>3. PICK G : G = {E \in SUBSET Unheld(tree) :
                      /\ \A n \in E : Children(tree, n) \subseteq E
                      /\ k <= Cardinality(EdgesOf(tree, E))}
  OBVIOUS
<1>4. Unheld(tree) \in G
  BY <1>1, <1>3
<1>5. \A E \in SUBSET Unheld(tree) : IsFiniteSet(E) /\ Cardinality(E) \in Nat
  <2>1. Unheld(tree) \in SUBSET Nodes(tree)
    BY DEF Unheld
  <2> QED BY <1>1, <2>1, FS_Subset, FS_CardinalityType
<1>6. PICK E \in G : \A F \in G : Cardinality(E) <= Cardinality(F)
  <2>1. PICK A : A = {Cardinality(F) : F \in G}
    OBVIOUS
  <2>2. A \in SUBSET Nat /\ A # {}
    BY <1>3, <1>4, <1>5, <2>1
  <2>3. PICK x \in A : \A y \in A : x <= y
    BY <2>2, LeastOf
  <2> QED BY <2>1, <2>3
<1>7. /\ E \in SUBSET Unheld(tree) /\ \A n \in E : Children(tree, n) \subseteq E
      /\ k <= Cardinality(EdgesOf(tree, E))
  BY <1>3, <1>6
<1>8. E # {}
  <2>1. ASSUME E = {} PROVE FALSE
    <3>1. EdgesOf(tree, E) = {}
      BY <2>1 DEF EdgesOf
    <3>2. Cardinality(EdgesOf(tree, E)) = 0
      BY <3>1, FS_EmptySet
    <3> QED BY <1>7, <3>2
  <2> QED BY <2>1
<1>9. \A n \in E : n \in Nodes(tree) /\ n \in Seq(Nat) /\ Len(n) \in Nat
  <2>1. \A n \in E : n \in Nodes(tree)
    BY <1>7 DEF Unheld
  <2>2. \A n \in E : n \in Seq(Nat)
    BY <1>1, <2>1, NodeOfNode
  <2> QED BY <2>1, <2>2
<1>10. PICK n \in E : \A m \in E : Len(n) <= Len(m)
  <2>1. PICK A : A = {Len(m) : m \in E}
    OBVIOUS
  <2>2. A \in SUBSET Nat /\ A # {}
    BY <1>8, <1>9, <2>1
  <2>3. PICK x \in A : \A y \in A : x <= y
    BY <2>2, LeastOf
  <2> QED BY <2>1, <2>3
<1>11. \A m \in E : ~IsStrictPrefix(m, n)
  <2>1. ASSUME NEW m \in E, IsStrictPrefix(m, n) PROVE FALSE
    <3>1. IsPrefix(m, n) /\ m # n
      BY <2>1 DEF IsStrictPrefix
    <3>2. m \in Seq(Nat) /\ n \in Seq(Nat) /\ Len(n) <= Len(m)
      BY <1>9, <1>10
    <3> QED BY <3>1, <3>2, PrefixSameLength
  <2> QED BY <2>1
<1>12. Cardinality(EdgesOf(tree, E \ {n})) < k
  <2>1. ASSUME ~(Cardinality(EdgesOf(tree, E \ {n})) < k) PROVE FALSE
    <3>1. \A m \in E \ {n} : Children(tree, m) \subseteq E \ {n}
      BY <1>7, <1>11 DEF Children
    <3>2. k <= Cardinality(EdgesOf(tree, E \ {n}))
      BY <1>2, <2>1
    <3>3. E \ {n} \in SUBSET Unheld(tree)
      BY <1>7
    <3>4. E \ {n} \in G
      BY <1>3, <3>1, <3>2, <3>3
    <3>5. Cardinality(E \ {n}) = Cardinality(E) - 1 /\ Cardinality(E) \in Nat
      BY <1>5, <1>7, FS_RemoveElement
    <3> QED BY <1>6, <3>4, <3>5
  <2> QED BY <2>1
<1>13. /\ PageSize * Cardinality(EdgesOf(tree, E)) >= k * PageSize
       /\ PageSize * Cardinality(EdgesOf(tree, E \ {n})) < k * PageSize
  <2>1. PICK a \in Nat, b \in Nat : /\ a = Cardinality(EdgesOf(tree, E))
                                    /\ b = Cardinality(EdgesOf(tree, E \ {n}))
    BY <1>2
  <2>2. k <= a /\ b < k
    BY <1>7, <1>12, <2>1
  <2>3. k * PageSize <= a * PageSize /\ b * PageSize < k * PageSize
    BY <2>2, MultipleOrder
  <2>4. a * PageSize = PageSize * a /\ b * PageSize = PageSize * b
    BY PageSizeAssumption
  <2>5. a * PageSize \in Nat /\ k * PageSize \in Nat
    BY Multiples
  <2>6. PageSize * a >= k * PageSize /\ PageSize * b < k * PageSize
    BY ONLY <2>3, <2>4, <2>5
  <2> QED BY <2>1, <2>6
<1>14. E \in Evictions(tree, k * PageSize)
  <2>1. E \in SUBSET {m \in Nodes(tree) : tree.ref[m] = 0}
    BY <1>7 DEF Unheld
  <2>2. /\ PageSize * Cardinality(UNION {BlocksOf(tree, m) : m \in E}) >= k * PageSize
        /\ PageSize * Cardinality(UNION {BlocksOf(tree, m) : m \in E \ {n}}) < k * PageSize
    BY <1>13 DEF EdgesOf
  <2> QED BY <1>7, <1>10, <1>11, <2>1, <2>2 DEF Evictions
<1> QED BY <1>14

\* As many pages as blocks are in use.
LEMMA PagesCounted ==
  ASSUME PrefixCacheAssumption, Inv
  PROVE  OnePagePerBlock
<1>1. /\ \A b, d \in Blocks(tree) : tree.page[b] = tree.page[d] => b = d
      /\ Range(tree.page) = {tree.page[b] : b \in Blocks(tree)}
      /\ free \subseteq Pages /\ free \cap Range(tree.page) = {}
      /\ free \cup Range(tree.page) = Pages
  BY DEF Inv, PageInv, IsInjective, Range, Blocks
<1>2. IsFiniteSet(Blocks(tree))
  BY UnheldNodes DEF Inv
<1>3. PICK R, B : R = Range(tree.page) /\ B = Blocks(tree)
  OBVIOUS
<1>4. PICK f : f = [b \in B |-> tree.page[b]]
  OBVIOUS
<1>5. f \in Surjection(B, R) /\ f \in Injection(B, R)
  BY <1>1, <1>3, <1>4 DEF Surjection, Injection, IsInjective
<1>6. IsFiniteSet(R) /\ Cardinality(R) = Cardinality(B)
  BY <1>2, <1>3, <1>5, FS_Surjection
<1>7. IsFiniteSet(free)
  BY <1>1, FS_Subset DEF PrefixCacheAssumption
<1>8. Cardinality(free \cup R) = Cardinality(free) + Cardinality(R) - Cardinality(free \cap R)
  BY <1>6, <1>7, FS_Union
<1>9. Cardinality(free \cap R) = 0
  BY <1>1, <1>3, FS_EmptySet
<1>10. Cardinality(free) \in Nat /\ Cardinality(R) \in Nat
  BY <1>6, <1>7, FS_CardinalityType
<1>11. Cardinality(free) + Cardinality(B) = Cardinality(Pages)
  <2>1. free \cup R = Pages /\ free \cap R = {}
    BY <1>1, <1>3
  <2>2. Cardinality(Pages) = Cardinality(free) + Cardinality(R) - 0
    BY <1>8, <1>9, <2>1
  <2> QED BY <1>6, <1>10, <2>2
<1> QED BY <1>1, <1>3, <1>11 DEF OnePagePerBlock

LEMMA InvAccounts ==
  ASSUME PrefixCacheAssumption, Inv
  PROVE  PagesAccounted
<1>1. /\ EdgesOf(tree, Unheld(tree)) = {b \in Blocks(tree) : tree.ref[NodeOf(tree, b)] = 0}
      /\ \A b \in Blocks(tree) :
              tree.ref[NodeOf(tree, b)] = 0 <=> \A c \in Clients : ~IsPrefix(b, LockedBy(c))
      /\ IsFiniteSet(Blocks(tree))
  BY UnheldNodes DEF Inv
<1>2. EvictableIsUnheld
  <2>1. {b \in Blocks(tree) : tree.ref[NodeOf(tree, b)] = 0}
          = {b \in Blocks(tree) : \A c \in Clients : ~IsPrefix(b, LockedBy(c))}
    BY <1>1
  <2> QED BY <2>1 DEF EvictableIsUnheld, EvictableSize
<1>3. EvictionPossible
  <2>1. PICK a : a = Cardinality(EdgesOf(tree, Unheld(tree)))
    OBVIOUS
  <2>2. a \in Nat
    <3>1. EdgesOf(tree, Unheld(tree)) \in SUBSET Blocks(tree)
      BY <1>1
    <3> QED BY <1>1, <2>1, <3>1, FS_Subset, FS_CardinalityType
  <2>3. EvictableSize(tree) \div PageSize = a
    <3>1. EvictableSize(tree) = PageSize * a
      BY <1>1, <2>1 DEF EvictableSize
    <3>2. PageSize * a = a * PageSize
      BY <2>2, PageSizeAssumption
    <3> QED BY <2>2, <3>1, <3>2, Multiples
  <2>4. ASSUME NEW k \in 1 .. a PROVE Evictions(tree, k * PageSize) # {}
    <3>1. k \in Nat \ {0} /\ k <= Cardinality(EdgesOf(tree, Unheld(tree)))
      BY <2>1, <2>2
    <3> QED BY <3>1, EvictionFound DEF Inv
  <2> QED BY <2>3, <2>4 DEF EvictionPossible
<1> QED BY <1>2, <1>3, PagesCounted DEF PagesAccounted

(***************************************************************************)
(* The theorems.                                                           *)
(***************************************************************************)

LEMMA InitInv ==
  ASSUME PrefixCacheAssumption, Init
  PROVE  Inv
<1>1. /\ tree = EmptyTree /\ free = Pages /\ DOMAIN handle = Clients
      /\ \A c \in Clients : handle[c] = NoHandle
  BY DEF Init
<1>2. /\ Blocks(tree) = {} /\ Nodes(tree) = {} /\ tree = [page |-> tree.page, ref |-> tree.ref]
      /\ tree.page = [b \in {} |-> 0] /\ tree.ref = [b \in {} |-> 0]
  BY <1>1 DEF EmptyTree, Blocks, Nodes
<1>3. IsTree(tree, Nat, Pages)
  <2>1. WellFormed(tree)
    BY <1>2, FS_EmptySet DEF WellFormed
  <2> QED BY <1>2, <2>1 DEF IsTree
<1>4. Holding = {}
  BY <1>1 DEF Holding
<1>5. TreeInv
  BY <1>1, <1>2, <1>3, <1>4 DEF TreeInv, Points, Counts
<1>6. PageInv
  <2>1. Range(tree.page) = {} /\ IsInjective(tree.page)
    BY <1>2 DEF Range, IsInjective
  <2> QED BY <1>1, <2>1 DEF PageInv
<1> QED BY <1>5, <1>6 DEF Inv

LEMMA NextInv ==
  ASSUME PrefixCacheAssumption, Inv, [Next]_cacheVars
  PROVE  Inv'
<1>1. CASE Next
  <2>1. ASSUME NEW c \in Clients, NEW ids \in Inputs, Acquire(c, ids) PROVE Inv'
    BY <2>1, AcquireKeeps
  <2>2. ASSUME NEW c \in Clients, NEW ids \in Inputs, Commit(c, ids) PROVE Inv'
    BY <2>2, CommitKeeps
  <2>3. ASSUME NEW c \in Clients, Release(c) PROVE Inv'
    BY <2>3, ReleaseKeeps
  <2>4. ASSUME NEW k \in 1 .. Cardinality(Pages), Evict(k * PageSize) PROVE Inv'
    BY <2>4, EvictKeeps
  <2> QED BY <1>1, <2>1, <2>2, <2>3, <2>4 DEF Next
<1>2. CASE UNCHANGED cacheVars
  BY <1>2 DEF cacheVars, Inv, TreeInv, PageInv, Holding
<1> QED BY <1>1, <1>2

\* For every pool, page size, client and input: whatever sequence of lookups,
\* commits, unlocks and evictions CacheManager makes of a prefix cache that keeps
\* PrefixCache's promise, every page is free or backs one block, the evictable
\* size that admission reads is exactly what no handle covers, and an eviction
\* that asks for no more than that succeeds (radix_cache.py's evict never fails
\* its assertion for want of leaves).
THEOREM PagesAlwaysAccounted ==
  ASSUME PrefixCacheAssumption
  PROVE  Spec => []PagesAccounted
<1>1. Init => Inv
  BY InitInv
<1>2. Inv /\ [Next]_cacheVars => Inv'
  BY NextInv
<1>3. Inv => PagesAccounted
  BY InvAccounts
<1> QED BY <1>1, <1>2, <1>3, PTL DEF Spec
==============================================================================
