----------------------------- MODULE MemoryProofs -----------------------------
(***************************************************************************)
(* Proofs about the KV pages of Scheduler: every page has one owner, every *)
(* lock of the tree is a handle, and a blocked scheduler holds nothing.    *)
(* First what the drain and the messages move, then the launch.            *)
(* The tree's part is RadixTreeProofs'.                                    *)
(***************************************************************************)
EXTENDS SchedulerMemory, StreamProofs

(***************************************************************************)
(* Moving pages between owners.                                            *)
(***************************************************************************)

\* A request gives up its row: some pages go to a free list, some to the tree.
LEMMA PartitionFree ==
  ASSUME NEW F, NEW L, NEW T, NEW own, NEW H, NEW N, Partition(F, L, T, own, H, N),
         NEW u \in H, NEW A, NEW B, own[u] = A \cup B, A \cap B = {},
         NEW new, \A v \in H \ {u} : new[v] = own[v]
  PROVE  /\ Partition(F \cup A, L, T \cup B, new, H \ {u}, N)
         /\ Partition(F, L \cup A, T \cup B, new, H \ {u}, N)
<1>1. /\ F \cap L = {} /\ F \cap T = {} /\ L \cap T = {}
      /\ \A w \in H : own[w] \cap F = {} /\ own[w] \cap L = {} /\ own[w] \cap T = {}
      /\ \A w, v \in H : w # v => own[w] \cap own[v] = {}
      /\ F \cup L \cup T \cup UNION {own[w] : w \in H} = N
  BY DEF Partition
<1>2. ASSUME NEW v \in H \ {u}
      PROVE  new[v] = own[v] /\ own[v] \cap A = {} /\ own[v] \cap B = {}
  <2>1. own[v] \cap own[u] = {}
    BY <1>1
  <2> QED BY <2>1
<1>3. A \cap F = {} /\ A \cap L = {} /\ A \cap T = {} /\ B \cap F = {} /\ B \cap L = {} /\ B \cap T = {}
  BY <1>1
<1>4. UNION {own[w] : w \in H} = A \cup B \cup UNION {new[v] : v \in H \ {u}}
  <2>1. ASSUME NEW p PROVE p \in UNION {own[w] : w \in H} <=> \E w \in H : p \in own[w]
    OBVIOUS
  <2>2. ASSUME NEW p PROVE p \in UNION {new[v] : v \in H \ {u}} <=> \E v \in H \ {u} : p \in own[v]
    BY <1>2
  <2> QED BY <2>1, <2>2
<1>5. /\ F \cup A \cup L \cup (T \cup B) \cup UNION {new[v] : v \in H \ {u}} = N
      /\ F \cup (L \cup A) \cup (T \cup B) \cup UNION {new[v] : v \in H \ {u}} = N
  BY <1>1, <1>4
<1>6. \A v \in H \ {u} : /\ new[v] \cap F = {} /\ new[v] \cap L = {} /\ new[v] \cap T = {}
                         /\ new[v] \cap A = {} /\ new[v] \cap B = {}
  BY <1>1, <1>2
<1>7. \A w, v \in H \ {u} : w # v => new[w] \cap new[v] = {}
  BY <1>1, <1>2
<1>8. Partition(F \cup A, L, T \cup B, new, H \ {u}, N)
  <2>1. (F \cup A) \cap L = {} /\ (F \cup A) \cap (T \cup B) = {} /\ L \cap (T \cup B) = {}
    BY <1>1, <1>3
  <2>2. \A v \in H \ {u} : /\ new[v] \cap (F \cup A) = {} /\ new[v] \cap L = {}
                           /\ new[v] \cap (T \cup B) = {}
    BY <1>6
  <2> QED BY <1>5, <1>7, <2>1, <2>2 DEF Partition
<1>9. Partition(F, L \cup A, T \cup B, new, H \ {u}, N)
  <2>1. F \cap (L \cup A) = {} /\ F \cap (T \cup B) = {} /\ (L \cup A) \cap (T \cup B) = {}
    BY <1>1, <1>3
  <2>2. \A v \in H \ {u} : /\ new[v] \cap F = {} /\ new[v] \cap (L \cup A) = {}
                           /\ new[v] \cap (T \cup B) = {}
    BY <1>6
  <2> QED BY <1>5, <1>7, <2>1, <2>2 DEF Partition
<1> QED BY <1>8, <1>9

\* A request commits: duplicates go to the lazy list, new blocks to the tree.
LEMMA PartitionCommit ==
  ASSUME NEW F, NEW L, NEW T, NEW own, NEW H, NEW N, Partition(F, L, T, own, H, N),
         NEW u \in H, NEW A, NEW B, NEW C, own[u] = A \cup B \cup C,
         A \cap B = {}, A \cap C = {}, B \cap C = {},
         NEW new, new[u] = C, \A v \in H \ {u} : new[v] = own[v]
  PROVE  Partition(F, L \cup A, T \cup B, new, H, N)
<1>1. /\ F \cap L = {} /\ F \cap T = {} /\ L \cap T = {}
      /\ \A w \in H : own[w] \cap F = {} /\ own[w] \cap L = {} /\ own[w] \cap T = {}
      /\ \A w, v \in H : w # v => own[w] \cap own[v] = {}
      /\ F \cup L \cup T \cup UNION {own[w] : w \in H} = N
  BY DEF Partition
<1>2. ASSUME NEW v \in H \ {u}
      PROVE  /\ new[v] \cap A = {} /\ new[v] \cap B = {} /\ new[v] \cap C = {}
             /\ new[v] \cap F = {} /\ new[v] \cap L = {} /\ new[v] \cap T = {}
  <2>1. own[v] \cap own[u] = {} /\ new[v] = own[v]
    BY <1>1
  <2> QED BY <1>1, <2>1
<1>3. /\ A \cap F = {} /\ A \cap L = {} /\ A \cap T = {}
      /\ B \cap F = {} /\ B \cap L = {} /\ B \cap T = {}
      /\ C \cap F = {} /\ C \cap L = {} /\ C \cap T = {}
  BY <1>1
<1>4. UNION {own[w] : w \in H} = A \cup B \cup UNION {new[v] : v \in H}
  <2>1. ASSUME NEW p PROVE p \in UNION {own[w] : w \in H} <=> \E w \in H : p \in own[w]
    OBVIOUS
  <2>2. ASSUME NEW p PROVE p \in UNION {new[v] : v \in H} <=> \E v \in H : p \in new[v]
    OBVIOUS
  <2> QED BY <2>1, <2>2
<1>5. F \cup (L \cup A) \cup (T \cup B) \cup UNION {new[v] : v \in H} = N
  BY <1>1, <1>4
<1>6. F \cap (L \cup A) = {} /\ F \cap (T \cup B) = {} /\ (L \cup A) \cap (T \cup B) = {}
  BY <1>1, <1>3
<1>7. \A v \in H : /\ new[v] \cap F = {} /\ new[v] \cap (L \cup A) = {}
                   /\ new[v] \cap (T \cup B) = {}
  <2>1. \A v \in H \ {u} : /\ new[v] \cap F = {} /\ new[v] \cap (L \cup A) = {}
                           /\ new[v] \cap (T \cup B) = {}
    BY <1>2
  <2> QED BY <1>3, <2>1
<1>8. \A w, v \in H : w # v => new[w] \cap new[v] = {}
  <2>1. ASSUME NEW w \in H, NEW v \in H, w # v PROVE new[w] \cap new[v] = {}
    <3>1. CASE w = u
      BY <1>2, <2>1, <3>1
    <3>2. CASE v = u
      BY <1>2, <2>1, <3>2
    <3>3. CASE w # u /\ v # u
      <4>1. new[w] = own[w] /\ new[v] = own[v]
        BY <3>3
      <4> QED BY <1>1, <2>1, <4>1
    <3> QED BY <3>1, <3>2, <3>3
  <2> QED BY <2>1
<1> QED BY <1>5, <1>6, <1>7, <1>8 DEF Partition

\* A request starts, with no page of its own.
LEMMA PartitionAdmit ==
  ASSUME NEW F, NEW L, NEW T, NEW own, NEW H, NEW N, Partition(F, L, T, own, H, N),
         NEW u, u \notin H, NEW new, new[u] = {}, \A v \in H : new[v] = own[v]
  PROVE  Partition(F, L, T, new, H \cup {u}, N)
<1>1. /\ F \cap L = {} /\ F \cap T = {} /\ L \cap T = {}
      /\ \A w \in H : own[w] \cap F = {} /\ own[w] \cap L = {} /\ own[w] \cap T = {}
      /\ \A w, v \in H : w # v => own[w] \cap own[v] = {}
      /\ F \cup L \cup T \cup UNION {own[w] : w \in H} = N
  BY DEF Partition
<1>2. UNION {own[w] : w \in H} = UNION {new[v] : v \in H \cup {u}}
  <2>1. ASSUME NEW p PROVE p \in UNION {own[w] : w \in H} <=> \E w \in H : p \in own[w]
    OBVIOUS
  <2>2. ASSUME NEW p PROVE p \in UNION {new[v] : v \in H \cup {u}} <=> \E v \in H \cup {u} : p \in new[v]
    OBVIOUS
  <2> QED BY <2>1, <2>2
<1>3. \A v \in H \cup {u} : new[v] \cap F = {} /\ new[v] \cap L = {} /\ new[v] \cap T = {}
  <2>1. \A v \in H : new[v] \cap F = {} /\ new[v] \cap L = {} /\ new[v] \cap T = {}
    BY <1>1
  <2> QED BY <2>1
<1>4. \A w, v \in H \cup {u} : w # v => new[w] \cap new[v] = {}
  <2>1. \A w, v \in H : w # v => new[w] \cap new[v] = {}
    BY <1>1
  <2> QED BY <2>1
<1> QED BY <1>1, <1>2, <1>3, <1>4 DEF Partition

\* A launch: the tree gives up V of T, and some of what is free then, G, goes to
\* the rows of the batch, got[v] to v's.
Handed(F, V, T, K, G, got, H) ==
    /\ V \subseteq T /\ F \cup V = K \cup G /\ K \cap G = {}
    /\ UNION {got[v] : v \in H} = G
    /\ \A w, v \in H : w # v => got[w] \cap got[v] = {}

(* Pages leave the free list and the evicted blocks and go to the rows of the
   batch: still every page is in exactly one place. *)
LEMMA PartitionLaunch ==
  ASSUME NEW F, NEW L, NEW T, NEW own, NEW H, NEW N, Partition(F, L, T, own, H, N),
         NEW V, NEW K, NEW G, NEW got, Handed(F, V, T, K, G, got, H),
         NEW new, \A v \in H : new[v] = own[v] \cup got[v]
  PROVE  Partition(K, L, T \ V, new, H, N)
<1> USE DEF Handed
<1>1. /\ F \cap L = {} /\ F \cap T = {} /\ L \cap T = {}
      /\ \A w \in H : own[w] \cap F = {} /\ own[w] \cap L = {} /\ own[w] \cap T = {}
      /\ \A w, v \in H : w # v => own[w] \cap own[v] = {}
      /\ F \cup L \cup T \cup UNION {own[w] : w \in H} = N
  BY DEF Partition
<1>2. K \cap L = {} /\ K \cap (T \ V) = {} /\ L \cap (T \ V) = {} /\ G \cap L = {} /\ G \cap (T \ V) = {}
  BY <1>1
<1>3. ASSUME NEW v \in H PROVE got[v] \subseteq G
  OBVIOUS
<1>4. ASSUME NEW v \in H
      PROVE new[v] \cap K = {} /\ new[v] \cap L = {} /\ new[v] \cap (T \ V) = {}
  <2>1. own[v] \cap F = {} /\ own[v] \cap L = {} /\ own[v] \cap T = {} /\ got[v] \subseteq G
        /\ new[v] = own[v] \cup got[v]
    BY <1>1, <1>3
  <2> QED BY <1>2, <2>1
<1>5. ASSUME NEW w \in H, NEW v \in H, w # v PROVE new[w] \cap new[v] = {}
  <2>1. own[w] \cap own[v] = {} /\ got[w] \cap got[v] = {}
    BY <1>1, <1>5
  <2>2. own[w] \cap got[v] = {} /\ got[w] \cap own[v] = {}
    <3>1. G \subseteq F \cup T
      OBVIOUS
    <3> QED BY <1>1, <1>3, <3>1
  <2>3. new[w] = own[w] \cup got[w] /\ new[v] = own[v] \cup got[v]
    OBVIOUS
  <2> QED BY <2>1, <2>2, <2>3
<1>6. UNION {new[v] : v \in H} = G \cup UNION {own[w] : w \in H}
  <2>1. ASSUME NEW p PROVE p \in UNION {own[w] : w \in H} <=> \E w \in H : p \in own[w]
    OBVIOUS
  <2>2. ASSUME NEW p PROVE p \in UNION {new[v] : v \in H} <=> \E v \in H : p \in new[v]
    OBVIOUS
  <2>3. ASSUME NEW p PROVE p \in G <=> \E v \in H : p \in got[v]
    <3>1. p \in UNION {got[v] : v \in H} <=> \E v \in H : p \in got[v]
      OBVIOUS
    <3> QED BY <3>1
  <2>4. ASSUME NEW v \in H, NEW p PROVE p \in new[v] <=> p \in own[v] \/ p \in got[v]
    OBVIOUS
  <2> QED BY <2>1, <2>2, <2>3, <2>4
<1>7. K \cup L \cup (T \ V) \cup UNION {new[v] : v \in H} = N
  BY <1>1, <1>6
<1> QED BY <1>2, <1>4, <1>5, <1>7 DEF Partition

(***************************************************************************)
(* cache_req on the tree.                                                  *)
(***************************************************************************)

PagesIn(tr) == {tr.page[b] : b \in Blocks(tr)}
TreeOf(tr, N) ==
    /\ IsTree(tr, Vocab, N)
    /\ \A b, c \in Blocks(tr) : tr.page[b] = tr.page[c] => b = c

(* TreeOK says of the state's tree what TreeOf says of any. *)
LEMMA TreeIs == TreeOK <=> TreeOf(tree, PoolPages)
BY DEF TreeOK, TreeOf, IsTree

\* Handles at or above ids stay on pages the tree has.
LEMMA HandleMatched ==
  ASSUME NEW tr, NEW N, IsTree(tr, Vocab, N), NEW ids \in Seq(Vocab),
         NEW handle \in Nodes(tr) \cup {<<>>}, IsPrefix(handle, ids)
  PROVE  /\ handle \in Seq(Vocab) /\ Len(handle) \in Nat /\ Len(handle) % PageSize = 0
         /\ Len(handle) <= MatchLen(tr, Prefix(ids, AlignDown(Len(ids))))
<1>1. PICK n \in 0 .. Len(ids) :
        /\ n = AlignDown(Len(ids))
        /\ \A m \in 0 .. Len(ids) : m % PageSize = 0 => m <= n
  BY AlignDownIs
<1>2. PICK key \in Seq(Vocab) : key = Prefix(ids, n) /\ Len(key) = n /\ IsPrefix(key, ids)
  BY PrefixProperties
<1>3. PICK k \in Nat : k = MatchLen(tr, key)
  BY <1>2, MatchLenIs
<1>4. CASE handle = <<>>
  <2>1. Len(handle) = 0 /\ handle \in Seq(Vocab) /\ 0 % PageSize = 0
    BY <1>4, PageSizeAssumption
  <2> QED BY <1>1, <1>2, <1>3, <2>1
<1>5. CASE handle \in Nodes(tr)
  <2>1. handle \in Blocks(tr) /\ handle \in Seq(Vocab)
    BY <1>5, NodeOfNode
  <2>2. Len(handle) \in Nat /\ Len(handle) % PageSize = 0
    BY <2>1, BlockFacts
  <2>3. Len(handle) \in 0 .. Len(ids)
    BY <2>1, <2>2, PrefixLength
  <2>4. Len(handle) <= Len(key)
    BY <1>1, <1>2, <2>2, <2>3
  <2>5. IsPrefix(handle, key)
    BY <1>2, <2>1, <2>4, PrefixChain
  <2>6. Len(handle) <= MatchLen(tr, key)
    BY <1>2, <2>1, <2>5, MatchedBlocks
  <2> QED BY <1>1, <1>2, <2>1, <2>2, <2>6
<1> QED BY <1>4, <1>5

\* The blocks insert_prefix adds are on the caller's pages, block by block.
NewSlots(tr, ids) ==
    MatchLen(tr, Prefix(ids, AlignDown(Len(ids)))) \div PageSize + 1 .. AlignDown(Len(ids)) \div PageSize

(* An insertion takes into the tree exactly the pages of the slots that were
   not cached. *)
LEMMA NewPages ==
  ASSUME NEW tr, NEW N, TreeOf(tr, N), NEW ids \in Seq(Vocab), NEW row, NEW st,
         IsTree(st, Vocab, N), Inserted(tr, ids, row, st),
         \A i \in NewSlots(tr, ids) : row[i] \notin PagesIn(tr),
         \A i, j \in NewSlots(tr, ids) : row[i] = row[j] => i = j
  PROVE  /\ TreeOf(st, N)
         /\ PagesIn(st) = PagesIn(tr) \cup {row[i] : i \in NewSlots(tr, ids)}
<1>1. PICK n \in 0 .. Len(ids) : n = AlignDown(Len(ids)) /\ n % PageSize = 0
  BY AlignDownIs
<1>2. Prefix(ids, n) \in Seq(Vocab) /\ Len(Prefix(ids, n)) = n
  BY <1>1, PrefixProperties
<1>3. PICK old \in 0 .. n : old = MatchLen(tr, Prefix(ids, n)) /\ old % PageSize = 0
  <2>1. PICK key \in Seq(Vocab) : key = Prefix(ids, n) /\ Len(key) = n
    BY <1>2
  <2> QED BY <2>1, MatchLenIs DEF TreeOf
<1>4. PICK new : new = NewBlocks(ids, old, n)
  OBVIOUS
<1>10. PICK I : I = old \div PageSize + 1 .. n \div PageSize /\ I = NewSlots(tr, ids)
  BY <1>1, <1>3 DEF NewSlots
<1>5. /\ new \cap Blocks(tr) = {} /\ Blocks(st) = Blocks(tr) \cup new
      /\ \A b \in Blocks(tr) : st.page[b] = tr.page[b]
      /\ \A b \in new : st.page[b] = row[Len(b) \div PageSize]
  BY <1>1, <1>3, <1>4 DEF Inserted
<1>6. /\ \A b \in new : Len(b) \div PageSize \in I
      /\ \A b, c \in new : Len(b) \div PageSize = Len(c) \div PageSize => b = c
      /\ \A i \in I : \E b \in new : Len(b) \div PageSize = i
  <2>1. new = {Prefix(ids, i * PageSize) : i \in I}
    BY <1>4, <1>10 DEF NewBlocks
  <2>2. \A i \in I : Len(Prefix(ids, i * PageSize)) \div PageSize = i
    BY <1>1, <1>3, <1>10, NewBlocksAre
  <2>3. \A b \in new : \E i \in I : b = Prefix(ids, i * PageSize) /\ Len(b) \div PageSize = i
    BY <2>1, <2>2
  <2> QED BY <2>1, <2>2, <2>3
<1>7. ASSUME NEW b \in Blocks(st), NEW c \in Blocks(st), st.page[b] = st.page[c]
      PROVE  b = c
  <2>1. CASE b \in Blocks(tr) /\ c \in Blocks(tr)
    BY <1>5, <1>7, <2>1 DEF TreeOf
  <2>2. CASE b \in new /\ c \in new
    <3>1. row[Len(b) \div PageSize] = row[Len(c) \div PageSize]
      BY <1>5, <1>7, <2>2
    <3> QED BY <1>6, <1>10, <2>2, <3>1
  <2>3. CASE b \in new /\ c \in Blocks(tr)
    <3>1. PICK i \in I : i = Len(b) \div PageSize
      BY <1>6, <2>3
    <3>2. row[i] = tr.page[c]
      BY <1>5, <1>7, <2>3, <3>1
    <3> QED BY <1>10, <2>3, <3>1, <3>2 DEF PagesIn
  <2>4. CASE c \in new /\ b \in Blocks(tr)
    <3>1. PICK i \in I : i = Len(c) \div PageSize
      BY <1>6, <2>4
    <3>2. row[i] = tr.page[b]
      BY <1>5, <1>7, <2>4, <3>1
    <3> QED BY <1>10, <2>4, <3>1, <3>2 DEF PagesIn
  <2> QED BY <1>5, <2>1, <2>2, <2>3, <2>4
<1>8. PagesIn(st) = PagesIn(tr) \cup {row[i] : i \in I}
  <2>1. ASSUME NEW p \in PagesIn(st) PROVE p \in PagesIn(tr) \cup {row[i] : i \in I}
    <3>1. PICK b \in Blocks(st) : p = st.page[b]
      BY <2>1 DEF PagesIn
    <3>2. CASE b \in Blocks(tr)
      BY <1>5, <3>1, <3>2 DEF PagesIn
    <3>3. CASE b \in new
      BY <1>5, <1>6, <3>1, <3>3
    <3> QED BY <1>5, <3>1, <3>2, <3>3
  <2>2. ASSUME NEW p \in PagesIn(tr) PROVE p \in PagesIn(st)
    <3>1. PICK b \in Blocks(tr) : p = tr.page[b]
      BY <2>2 DEF PagesIn
    <3> QED BY <1>5, <3>1 DEF PagesIn
  <2>3. ASSUME NEW i \in I PROVE row[i] \in PagesIn(st)
    <3>1. PICK b \in new : Len(b) \div PageSize = i
      BY <1>6
    <3> QED BY <1>5, <3>1 DEF PagesIn
  <2> QED BY <2>1, <2>2, <2>3
<1> QED BY <1>7, <1>8, <1>10 DEF TreeOf

\* Locks do not move pages.
LEMMA LockedPages ==
  ASSUME NEW tr, NEW N, TreeOf(tr, N), NEW path
  PROVE  /\ TreeOf(lock(tr, path), N) /\ PagesIn(lock(tr, path)) = PagesIn(tr)
         /\ Nodes(lock(tr, path)) = Nodes(tr)
<1>1. PICK st : st = lock(tr, path)
  OBVIOUS
<1>2. IsTree(st, Vocab, N) /\ st.page = tr.page /\ Nodes(st) = Nodes(tr) /\ Blocks(st) = Blocks(tr)
  BY <1>1, LockTree DEF TreeOf
<1> QED BY <1>1, <1>2 DEF TreeOf, PagesIn

(* Unlocking a locked path keeps the tree, its nodes and its pages. *)
LEMMA UnlockedPages ==
  ASSUME NEW tr, NEW N, TreeOf(tr, N), NEW path,
         \A n \in Nodes(tr) : IsPrefix(n, path) => tr.ref[n] > 0
  PROVE  /\ TreeOf(unlock(tr, path), N) /\ PagesIn(unlock(tr, path)) = PagesIn(tr)
         /\ Nodes(unlock(tr, path)) = Nodes(tr)
<1>1. PICK st : st = unlock(tr, path)
  OBVIOUS
<1>2. IsTree(st, Vocab, N) /\ st.page = tr.page /\ Nodes(st) = Nodes(tr) /\ Blocks(st) = Blocks(tr)
  BY <1>1, UnlockTree DEF TreeOf
<1> QED BY <1>1, <1>2 DEF TreeOf, PagesIn

(* The length of a sequence from its domain. *)
LEMMA LenOfDomain ==
  ASSUME NEW N, NEW f \in Seq(N), NEW k \in Nat, DOMAIN f = 1 .. k
  PROVE  Len(f) = k
<1>1. PICK m \in Nat : m = Len(f) /\ DOMAIN f = 1 .. m
  OBVIOUS
<1>2. (k = 0 \/ k \in 1 .. m) /\ (m = 0 \/ m \in 1 .. k)
  BY <1>1
<1> QED BY <1>1, <1>2

\* The pages a handle's path is on are the pool's.
LEMMA MatchedIndices ==
  ASSUME NEW tr, NEW N, IsTree(tr, Vocab, N), NEW path \in Nodes(tr) \cup {<<>>}
  PROVE  /\ path \in Seq(Vocab) /\ Len(path) \in Nat /\ Len(path) % PageSize = 0
         /\ get_matched_indices(tr, path) \in Seq(N)
         /\ Len(get_matched_indices(tr, path)) = Len(path) \div PageSize
<1>1. path \in Seq(Vocab) /\ Len(path) \in Nat /\ Len(path) % PageSize = 0
  <2>1. CASE path = <<>>
    <3>1. Len(path) = 0 /\ path \in Seq(Vocab) /\ 0 % PageSize = 0
      BY <2>1, PageSizeAssumption
    <3> QED BY <3>1
  <2>2. CASE path \in Nodes(tr)
    BY <2>2, NodeOfNode, BlockFacts
  <2> QED BY <2>1, <2>2
<1>2. PICK k \in Nat : k = Len(path) \div PageSize /\ Len(path) = k * PageSize
  BY <1>1, MultipleOf
<1>3. ASSUME NEW i \in 1 .. k PROVE tr.page[Prefix(path, i * PageSize)] \in N
  <2>1. PICK m \in Nat : m = i * PageSize /\ m % PageSize = 0
    BY Multiples
  <2>2. 1 <= m /\ m <= Len(path)
    <3>1. 0 * PageSize < i * PageSize /\ i * PageSize <= k * PageSize
      BY MultipleOrder
    <3>2. 0 * PageSize = 0
      BY PageSizeAssumption
    <3> QED BY <1>2, <2>1, <3>1, <3>2
  <2>3. path \in Nodes(tr)
    <3>1. path # <<>>
      BY <2>1, <2>2
    <3> QED BY <3>1
  <2>4. path \in Blocks(tr)
    BY <2>3, NodeOfNode
  <2>5. Prefix(path, m) \in Blocks(tr)
    BY <1>1, <2>1, <2>2, <2>4, BlockFacts
  <2>6. PICK b \in Blocks(tr) : b = Prefix(path, i * PageSize)
    BY <2>1, <2>5
  <2>7. tr.page[b] \in N
    BY <2>6, BlockFacts
  <2> QED BY <2>6, <2>7
<1>4. get_matched_indices(tr, path) = [i \in 1 .. k |-> tr.page[Prefix(path, i * PageSize)]]
  BY <1>2 DEF get_matched_indices
<1>5. [i \in 1 .. k |-> tr.page[Prefix(path, i * PageSize)]] \in [1 .. k -> N]
  BY <1>3
<1>6. PICK f : f = get_matched_indices(tr, path) /\ f \in [1 .. k -> N]
  BY <1>4, <1>5
<1>7. f \in Seq(N) /\ Len(f) = k
  <2>1. f \in Seq(N) /\ DOMAIN f = 1 .. k
    BY <1>6, SeqDef
  <2>2. Len(f) = k
    BY <2>1, LenOfDomain
  <2> QED BY <2>1, <2>2
<1>8. get_matched_indices(tr, path) \in Seq(N)
  BY ONLY <1>6, <1>7, Zenon
<1>9. Len(get_matched_indices(tr, path)) = Len(path) \div PageSize
  BY ONLY <1>2, <1>6, <1>7, Zenon
<1> QED BY <1>1, <1>8, <1>9, Zenon

\* cache_req in the terms of its request: ids are its computed tokens, handle
\* the one it holds, row its pages.
CommitReady(tr, N, h, H, u, ids, row) ==
    /\ TreeOf(tr, N) /\ Points(tr, h, H) /\ Counts(tr, h, H) /\ IsFiniteSet(H) /\ u \in H
    /\ ids \in Seq(Vocab) /\ IsPrefix(h[u], ids)
    /\ row \in Seq(N) /\ Len(ids) \div PageSize <= Len(row)
    /\ \A i \in Len(h[u]) \div PageSize + 1 .. Len(row) : row[i] \notin PagesIn(tr)
    /\ \A i, j \in Len(h[u]) \div PageSize + 1 .. Len(row) : row[i] = row[j] => i = j

\* The lengths cache_req cuts the row at: the old handle, what the tree had, and
\* what is in the tree now.
Cuts(tr, handle, ids, row, k0, k1, k2) ==
    LET ins == insert_prefix(tr, ids, row)
    IN  /\ Len(handle) = k0 * PageSize /\ Len(handle) \div PageSize = k0
        /\ ins.cached_len = k1 * PageSize /\ ins.cached_len \div PageSize = k1
        /\ Len(ins.path) = k2 * PageSize /\ Len(ins.path) \div PageSize = k2
        /\ k0 <= k1 /\ k1 <= k2 /\ k2 <= Len(row)
        /\ ins.path \in Seq(Vocab) /\ IsPrefix(ins.path, ids) /\ Len(ins.path) <= Len(ids)
        /\ \A i \in 1 .. k2 : get_matched_indices(ins.tree, ins.path)[i] \in PagesIn(ins.tree)

CommitResult(tr, N, h, H, u, ids, row) ==
    LET ins == insert_prefix(tr, ids, row)
    IN  /\ \E k0, k1, k2 \in Nat :
             /\ Cuts(tr, h[u], ids, row, k0, k1, k2)
             /\ PagesIn(ins.tree) = PagesIn(tr) \cup {row[i] : i \in k1 + 1 .. k2}
        /\ TreeOf(ins.tree, N) /\ Points(ins.tree, h, H) /\ Counts(ins.tree, h, H)
        /\ ins.path \in Nodes(ins.tree) \cup {<<>>} /\ Nodes(tr) \subseteq Nodes(ins.tree)

(* The insert of a commit cuts the owner's row in three: the part the tree
   already had, the part it takes now, the tail the owner keeps. *)
LEMMA CommitCuts ==
  ASSUME NEW tr, NEW N, NEW h, NEW H, NEW u, NEW ids, NEW row,
         CommitReady(tr, N, h, H, u, ids, row)
  PROVE  CommitResult(tr, N, h, H, u, ids, row)
<1>1. /\ TreeOf(tr, N) /\ Points(tr, h, H) /\ Counts(tr, h, H) /\ IsFiniteSet(H) /\ u \in H
      /\ ids \in Seq(Vocab) /\ IsPrefix(h[u], ids)
      /\ row \in Seq(N) /\ Len(ids) \div PageSize <= Len(row)
      /\ IsTree(tr, Vocab, N)
  BY DEF CommitReady, TreeOf
<1>2. PICK handle \in Nodes(tr) \cup {<<>>} : handle = h[u]
  BY <1>1 DEF Points
<1>3. PICK n \in 0 .. Len(ids) :
        /\ n = AlignDown(Len(ids)) /\ n % PageSize = 0
        /\ n \div PageSize = Len(ids) \div PageSize
  BY <1>1, AlignDownIs
<1>4. PICK key \in Seq(Vocab) : key = Prefix(ids, n) /\ Len(key) = n /\ IsPrefix(key, ids)
  BY <1>1, PrefixProperties
<1>5. PICK old \in 0 .. n : old = MatchLen(tr, key) /\ old % PageSize = 0
  BY <1>1, <1>4, MatchLenIs
<1>6. /\ Len(handle) \in Nat /\ Len(handle) % PageSize = 0 /\ Len(handle) <= old
      /\ handle \in Seq(Vocab)
  BY <1>1, <1>2, <1>3, <1>4, <1>5, HandleMatched
<1>7. PICK k0 \in Nat : k0 = Len(handle) \div PageSize /\ Len(handle) = k0 * PageSize
  BY <1>6, MultipleOf
<1>8. PICK k1 \in Nat : k1 = old \div PageSize /\ old = k1 * PageSize
  BY <1>5, MultipleOf
<1>9. PICK k2 \in Nat : k2 = n \div PageSize /\ n = k2 * PageSize
  BY <1>3, MultipleOf
<1>10. k0 <= k1 /\ k1 <= k2 /\ k2 <= Len(row) /\ Len(row) \in Nat
  <2>1. k0 * PageSize <= k1 * PageSize /\ k1 * PageSize <= k2 * PageSize
    BY <1>5, <1>6, <1>7, <1>8, <1>9
  <2> QED BY <1>1, <1>3, <1>9, <2>1, MultipleOrder
<1>11. PICK I : I = k1 + 1 .. k2
  OBVIOUS
<1>12. /\ \A i \in I : row[i] \in N /\ row[i] \notin PagesIn(tr)
       /\ \A i, j \in I : row[i] = row[j] => i = j
  <2>1. /\ \A i \in k0 + 1 .. Len(row) : row[i] \notin PagesIn(tr)
        /\ \A i, j \in k0 + 1 .. Len(row) : row[i] = row[j] => i = j
    BY <1>2, <1>7 DEF CommitReady
  <2>2. I \subseteq k0 + 1 .. Len(row) /\ I \subseteq 1 .. Len(row)
    BY <1>10, <1>11
  <2> QED BY <1>1, <2>1, <2>2
<1>13. PICK ins : ins = insert_prefix(tr, ids, row)
  OBVIOUS
<1>14. /\ IsTree(ins.tree, Vocab, N) /\ Inserted(tr, ids, row, ins.tree)
       /\ ins.path = key /\ ins.cached_len = old
  <2>1. \A i \in MatchLen(tr, Prefix(ids, AlignDown(Len(ids)))) \div PageSize + 1
                    .. AlignDown(Len(ids)) \div PageSize : row[i] \in N
    BY <1>3, <1>4, <1>5, <1>8, <1>9, <1>11, <1>12
  <2> QED BY <1>1, <1>3, <1>4, <1>5, <1>13, <2>1, InsertTree
<1>15. PICK st : st = ins.tree
  OBVIOUS
<1>16. TreeOf(st, N) /\ PagesIn(st) = PagesIn(tr) \cup {row[i] : i \in I}
  <2>1. I = NewSlots(tr, ids)
    BY <1>3, <1>4, <1>5, <1>8, <1>9, <1>11 DEF NewSlots
  <2>2. IsTree(st, Vocab, N) /\ Inserted(tr, ids, row, st)
    BY <1>14, <1>15
  <2> QED BY <1>1, <1>12, <2>1, <2>2, NewPages
<1>17. Points(st, h, H) /\ Counts(st, h, H)
  BY <1>1, <1>14, <1>15, CountsInsert
<1>18. key \in Nodes(st) \cup {<<>>} /\ Nodes(tr) \subseteq Nodes(st)
  BY <1>3, <1>4, <1>14, <1>15 DEF Inserted
<1>19. \A i \in 1 .. k2 : get_matched_indices(st, key)[i] \in PagesIn(st)
  <2>1. ASSUME NEW i \in 1 .. k2 PROVE get_matched_indices(st, key)[i] \in PagesIn(st)
    <3>1. get_matched_indices(st, key)[i] = st.page[Prefix(key, i * PageSize)]
      BY <1>4, <1>9 DEF get_matched_indices
    <3>2. PICK m \in Nat : m = i * PageSize /\ m % PageSize = 0
      BY Multiples
    <3>3. 1 <= m /\ m <= Len(key)
      <4>1. 0 * PageSize < i * PageSize /\ i * PageSize <= k2 * PageSize
        BY MultipleOrder
      <4>2. 0 * PageSize = 0
        BY PageSizeAssumption
      <4> QED BY <1>4, <1>9, <3>2, <4>1, <4>2
    <3>4. key \in Blocks(st)
      <4>1. key # <<>>
        BY <3>2, <3>3
      <4> QED BY <1>14, <1>15, <1>18, <4>1, NodeOfNode
    <3>5. IsTree(st, Vocab, N) /\ Len(key) \in Nat
      BY <1>4, <1>14, <1>15
    <3>6. Prefix(key, m) \in Blocks(st)
      BY <3>2, <3>3, <3>4, <3>5, BlockFacts
    <3> QED BY <3>1, <3>2, <3>6 DEF PagesIn
  <2> QED BY <2>1
<1>20. Cuts(tr, handle, ids, row, k0, k1, k2)
  <2>1. Len(key) <= Len(ids)
    BY <1>3, <1>4
  <2> QED BY <1>4, <1>7, <1>8, <1>9, <1>10, <1>13, <1>14, <1>15, <1>19, <2>1 DEF Cuts
<1>21. PagesIn(ins.tree) = PagesIn(tr) \cup {row[i] : i \in k1 + 1 .. k2}
  BY <1>11, <1>15, <1>16
<1>22. /\ TreeOf(ins.tree, N) /\ Points(ins.tree, h, H) /\ Counts(ins.tree, h, H)
       /\ ins.path \in Nodes(ins.tree) \cup {<<>>} /\ Nodes(tr) \subseteq Nodes(ins.tree)
  BY <1>14, <1>15, <1>16, <1>17, <1>18
<1>23. Cuts(tr, h[u], ids, row, k0, k1, k2)
  BY <1>2, <1>20
<1> QED BY <1>13, <1>21, <1>22, <1>23 DEF CommitResult

(***************************************************************************)
(* Rows, page by page.                                                     *)
(***************************************************************************)

LEMMA CeilIs ==
  ASSUME NEW n \in Nat
  PROVE  /\ CeilPages(n) \in Nat /\ n \div PageSize \in Nat /\ n \div PageSize <= CeilPages(n)
         /\ n <= CeilPages(n) * PageSize /\ CeilPages(n) * PageSize < n + PageSize
         /\ (n \div PageSize) * PageSize <= n
<1>1. PageSize \in Nat \ {0}
  BY PageSizeAssumption
<1>2. PICK m \in Nat : m = n + PageSize - 1
  BY <1>1
<1>3. m \div PageSize \in Nat /\ (m \div PageSize) * PageSize <= m
      /\ m < (m \div PageSize) * PageSize + PageSize
  BY <1>1
<1>4. n \div PageSize \in Nat /\ (n \div PageSize) * PageSize <= n
  BY <1>1
<1>5. PICK c \in Nat, d \in Nat : c = m \div PageSize /\ d = n \div PageSize
  BY <1>3, <1>4
<1>6. c * PageSize \in Nat /\ d * PageSize \in Nat
  BY <1>1
<1>7. CeilPages(n) = c
  BY <1>2, <1>5 DEF CeilPages
<1>8. n <= c * PageSize /\ c * PageSize < n + PageSize
  BY <1>1, <1>2, <1>3, <1>5, <1>6
<1>9. d <= c
  <2>1. d * PageSize <= c * PageSize
    BY <1>4, <1>5, <1>6, <1>8
  <2> QED BY <2>1, MultipleOrder
<1> QED BY <1>4, <1>5, <1>7, <1>8, <1>9

(* CeilPages(n) is the only number of pages that holds n tokens with less than
   a page to spare. *)
LEMMA CeilUnique ==
  ASSUME NEW n \in Nat, NEW c \in Nat, n <= c * PageSize, c * PageSize < n + PageSize
  PROVE  CeilPages(n) = c
<1>1. PICK d \in Nat : d = CeilPages(n) /\ n <= d * PageSize /\ d * PageSize < n + PageSize
  BY CeilIs
<1>2. PageSize \in Nat \ {0} /\ c * PageSize \in Nat /\ d * PageSize \in Nat
  BY PageSizeAssumption
<1>3. ~(c < d)
  <2>1. SUFFICES ASSUME c < d PROVE FALSE
    OBVIOUS
  <2>2. c * PageSize + PageSize <= d * PageSize
    BY <2>1, MultipleOrder
  <2> QED BY <1>1, <1>2, <2>2
<1>4. ~(d < c)
  <2>1. SUFFICES ASSUME d < c PROVE FALSE
    OBVIOUS
  <2>2. d * PageSize + PageSize <= c * PageSize
    BY <2>1, MultipleOrder
  <2> QED BY <1>1, <1>2, <2>2
<1> QED BY <1>1, <1>3, <1>4

(* A page-aligned length needs no page more than it fills. *)
LEMMA CeilMultiple ==
  ASSUME NEW i \in Nat
  PROVE  CeilPages(i * PageSize) = i
<1>1. PICK n \in Nat : n = i * PageSize
  BY Multiples
<1>2. PageSize \in Nat \ {0}
  BY PageSizeAssumption
<1>3. CeilPages(n) = i
  BY <1>1, <1>2, CeilUnique
<1> QED BY <1>1, <1>3

(* More tokens never need fewer pages. *)
LEMMA CeilOrder ==
  ASSUME NEW m \in Nat, NEW n \in Nat, m <= n
  PROVE  CeilPages(m) <= CeilPages(n)
<1>1. PICK c \in Nat : c = CeilPages(m) /\ c * PageSize < m + PageSize
  BY CeilIs
<1>2. PICK d \in Nat : d = CeilPages(n) /\ n <= d * PageSize
  BY CeilIs
<1>3. SUFFICES ASSUME d < c PROVE FALSE
  BY <1>1, <1>2
<1>4. d * PageSize + PageSize <= c * PageSize
  BY <1>3, MultipleOrder
<1>5. PageSize \in Nat \ {0} /\ c * PageSize \in Nat /\ d * PageSize \in Nat
  BY PageSizeAssumption
<1> QED BY <1>1, <1>2, <1>4, <1>5

\* The pages of a row from the a-th, exclusive, to the b-th.
RowPages(row, a, b) == {row[i] : i \in a + 1 .. b}

(* What SubSeq cuts out of a row. *)
LEMMA SubRow ==
  ASSUME NEW N, NEW row \in Seq(N), NEW a \in Nat, NEW b \in Nat, a <= b, b <= Len(row)
  PROVE  /\ SubSeq(row, a + 1, b) \in Seq(N) /\ Len(SubSeq(row, a + 1, b)) = b - a
         /\ \A i \in 1 .. b - a : SubSeq(row, a + 1, b)[i] = row[a + i]
<1>1. \A i \in a + 1 .. b : row[i] \in N
  OBVIOUS
<1> QED BY <1>1

\* c is a and then b.
IsConcat(c, a, b, N) ==
    /\ c \in Seq(N) /\ Len(c) = Len(a) + Len(b)
    /\ \A i \in 1 .. Len(a) : c[i] = a[i]
    /\ \A i \in 1 .. Len(b) : c[Len(a) + i] = b[i]
    /\ \A i \in 1 .. Len(c) : i \in 1 .. Len(a) \/ \E j \in 1 .. Len(b) : i = Len(a) + j

(* What the concatenation of two rows is, entry by entry. *)
LEMMA ConcatTwo ==
  ASSUME NEW N, NEW a \in Seq(N), NEW b \in Seq(N)
  PROVE  IsConcat(a \o b, a, b, N)
<1>1. a \o b \in Seq(N) /\ Len(a \o b) = Len(a) + Len(b)
  OBVIOUS
<1>2. \A i \in 1 .. Len(a) : (a \o b)[i] = a[i]
  OBVIOUS
<1>3. \A i \in 1 .. Len(b) : (a \o b)[Len(a) + i] = b[i]
  OBVIOUS
<1>4. PICK m \in Nat, n \in Nat : m = Len(a) /\ n = Len(b)
  OBVIOUS
<1>5. ASSUME NEW i \in 1 .. m + n PROVE i \in 1 .. m \/ \E j \in 1 .. n : i = m + j
  <2>1. i \in 1 .. m \/ (i - m \in 1 .. n /\ i = m + (i - m))
    OBVIOUS
  <2> QED BY <2>1
<1> QED BY <1>1, <1>2, <1>3, <1>4, <1>5 DEF IsConcat

\* s has the pages of R, each once.
Once(s, R) ==
    /\ \A i, j \in 1 .. Len(s) : s[i] = s[j] => i = j
    /\ {s[i] : i \in 1 .. Len(s)} = R
\* A row has each page of its own once.
OwnOnce(row, k) == \A i, j \in k + 1 .. Len(row) : row[i] = row[j] => i = j

\* A concatenation has what its parts have.
LEMMA ConcatOnce ==
  ASSUME NEW N, NEW a \in Seq(N), NEW b \in Seq(N), NEW Q, NEW R, Once(a, Q), Once(b, R),
         Q \cap R = {}
  PROVE  a \o b \in Seq(N) /\ Once(a \o b, Q \cup R)
<1>0. /\ \A i, j \in 1 .. Len(a) : a[i] = a[j] => i = j
      /\ \A i, j \in 1 .. Len(b) : b[i] = b[j] => i = j
      /\ \A i \in 1 .. Len(a) : \A j \in 1 .. Len(b) : a[i] # b[j]
      /\ Q = {a[k] : k \in 1 .. Len(a)} /\ R = {b[k] : k \in 1 .. Len(b)}
  BY DEF Once
<1>1. PICK c : c = a \o b
  OBVIOUS
<1>2. /\ c \in Seq(N) /\ Len(c) = Len(a) + Len(b)
      /\ \A i \in 1 .. Len(a) : c[i] = a[i]
      /\ \A i \in 1 .. Len(b) : c[Len(a) + i] = b[i]
      /\ \A i \in 1 .. Len(c) : i \in 1 .. Len(a) \/ \E j \in 1 .. Len(b) : i = Len(a) + j
  <2>1. IsConcat(c, a, b, N)
    BY <1>1, ConcatTwo, Zenon
  <2> QED BY <2>1 DEF IsConcat
<1>3. ASSUME NEW i \in 1 .. Len(c), NEW j \in 1 .. Len(c), c[i] = c[j] PROVE i = j
  <2>1. CASE i \in 1 .. Len(a) /\ j \in 1 .. Len(a)
    BY <1>0, <1>2, <1>3, <2>1
  <2>2. CASE i \in 1 .. Len(a) /\ \E q \in 1 .. Len(b) : j = Len(a) + q
    BY <1>0, <1>2, <1>3, <2>2
  <2>3. CASE j \in 1 .. Len(a) /\ \E q \in 1 .. Len(b) : i = Len(a) + q
    BY <1>0, <1>2, <1>3, <2>3
  <2>4. CASE (\E q \in 1 .. Len(b) : i = Len(a) + q) /\ \E q \in 1 .. Len(b) : j = Len(a) + q
    BY <1>0, <1>2, <1>3, <2>4
  <2> QED BY <1>2, <2>1, <2>2, <2>3, <2>4
<1>4. PICK A, B : A = {a[k] : k \in 1 .. Len(a)} /\ B = {b[k] : k \in 1 .. Len(b)}
  OBVIOUS
<1>5. ASSUME NEW i \in 1 .. Len(c) PROVE c[i] \in A \cup B
  <2>1. CASE i \in 1 .. Len(a)
    BY <1>2, <1>4, <2>1
  <2>2. CASE \E j \in 1 .. Len(b) : i = Len(a) + j
    BY <1>2, <1>4, <2>2
  <2> QED BY <1>2, <2>1, <2>2
<1>6. \A i \in 1 .. Len(a) : i \in 1 .. Len(c)
  BY <1>2
<1>7. \A i \in 1 .. Len(b) : Len(a) + i \in 1 .. Len(c)
  BY <1>2
<1>8. {c[i] : i \in 1 .. Len(c)} = A \cup B
  <2>1. \A x \in A : \E i \in 1 .. Len(c) : x = c[i]
    BY <1>2, <1>4, <1>6
  <2>2. \A x \in B : \E i \in 1 .. Len(c) : x = c[i]
    BY <1>2, <1>4, <1>7
  <2> QED BY <1>5, <2>1, <2>2
<1>9. Once(c, A \cup B)
  BY <1>3, <1>8 DEF Once
<1>10. A = Q /\ B = R
  BY <1>0, <1>4
<1> QED BY <1>1, <1>2, <1>9, <1>10, Zenon

\* A slice has its part of the row, once if the row has it once.
LEMMA SliceOnce ==
  ASSUME NEW N, NEW row \in Seq(N), NEW k \in Nat, NEW a \in Nat, NEW b \in Nat,
         k <= a, a <= b, b <= Len(row), OwnOnce(row, k)
  PROVE  SubSeq(row, a + 1, b) \in Seq(N) /\ Once(SubSeq(row, a + 1, b), RowPages(row, a, b))
<1>1. PICK s : s = SubSeq(row, a + 1, b)
  OBVIOUS
<1>2. s \in Seq(N) /\ Len(s) = b - a /\ \A i \in 1 .. b - a : s[i] = row[a + i]
  BY ONLY <1>1, SubRow, row \in Seq(N), a \in Nat, b \in Nat, a <= b, b <= Len(row)
<1>3. \A i \in 1 .. b - a : a + i \in k + 1 .. Len(row) /\ a + i \in a + 1 .. b
  OBVIOUS
<1>4. \A i, j \in 1 .. b - a : s[i] = s[j] => i = j
  <2>1. ASSUME NEW i \in 1 .. b - a, NEW j \in 1 .. b - a, s[i] = s[j] PROVE i = j
    <3>1. a + i = a + j
      BY <1>2, <1>3, <2>1 DEF OwnOnce
    <3> QED BY <3>1
  <2> QED BY <2>1
<1>5. \A p \in a + 1 .. b : p - a \in 1 .. b - a /\ a + (p - a) = p
  OBVIOUS
<1>6. {s[i] : i \in 1 .. b - a} = RowPages(row, a, b)
  <2>1. \A i \in 1 .. b - a : s[i] \in RowPages(row, a, b)
    BY <1>2, <1>3 DEF RowPages
  <2>2. \A p \in a + 1 .. b : s[p - a] = row[p]
    BY <1>2, <1>5
  <2>3. \A p \in a + 1 .. b : row[p] \in {s[i] : i \in 1 .. b - a}
    <3>1. ASSUME NEW p \in a + 1 .. b PROVE row[p] \in {s[i] : i \in 1 .. b - a}
      <4>1. PICK i \in 1 .. b - a : i = p - a
        BY <1>5
      <4> QED BY <2>2, <4>1
    <3> QED BY <3>1
  <2> QED BY <2>1, <2>3 DEF RowPages
<1>7. Once(s, RowPages(row, a, b))
  BY <1>2, <1>4, <1>6 DEF Once
<1> QED BY <1>1, <1>2, <1>7, Zenon

\* The parts a row is cut into have no page in common.
CutApart(row, k0, k1, k2) ==
    /\ RowPages(row, k0, Len(row)) =
         RowPages(row, k0, k1) \cup RowPages(row, k1, k2) \cup RowPages(row, k2, Len(row))
    /\ RowPages(row, k0, k1) \cap RowPages(row, k1, k2) = {}
    /\ RowPages(row, k0, k1) \cap RowPages(row, k2, Len(row)) = {}
    /\ RowPages(row, k1, k2) \cap RowPages(row, k2, Len(row)) = {}

(* The pages of a row that holds each of its own pages once are disjoint from
   cut to cut. *)
LEMMA RowCuts ==
  ASSUME NEW N, NEW row \in Seq(N), NEW k0 \in Nat, NEW k1 \in Nat, NEW k2 \in Nat,
         k0 <= k1, k1 <= k2, k2 <= Len(row), OwnOnce(row, k0)
  PROVE  CutApart(row, k0, k1, k2)
<1>1. PICK n \in Nat : n = Len(row)
  OBVIOUS
<1>2. /\ k0 + 1 .. n = (k0 + 1 .. k1) \cup (k1 + 1 .. k2) \cup (k2 + 1 .. n)
      /\ (k0 + 1 .. k1) \cap (k1 + 1 .. k2) = {} /\ (k0 + 1 .. k1) \cap (k2 + 1 .. n) = {}
      /\ (k1 + 1 .. k2) \cap (k2 + 1 .. n) = {}
  BY <1>1
<1>3. PICK A, B, C : A = k0 + 1 .. k1 /\ B = k1 + 1 .. k2 /\ C = k2 + 1 .. n
  OBVIOUS
<1>4. /\ \A i, j \in A \cup B \cup C : row[i] = row[j] => i = j
      /\ A \cap B = {} /\ A \cap C = {} /\ B \cap C = {}
  BY <1>1, <1>2, <1>3 DEF OwnOnce
<1>5. /\ RowPages(row, k0, n) = {row[i] : i \in A \cup B \cup C}
      /\ RowPages(row, k0, k1) = {row[i] : i \in A} /\ RowPages(row, k1, k2) = {row[i] : i \in B}
      /\ RowPages(row, k2, n) = {row[i] : i \in C}
  BY <1>2, <1>3 DEF RowPages
<1>6. {row[i] : i \in A \cup B \cup C} = {row[i] : i \in A} \cup {row[i] : i \in B} \cup {row[i] : i \in C}
  OBVIOUS
<1>7. /\ {row[i] : i \in A} \cap {row[i] : i \in B} = {}
      /\ {row[i] : i \in A} \cap {row[i] : i \in C} = {}
      /\ {row[i] : i \in B} \cap {row[i] : i \in C} = {}
  BY <1>4
<1> QED BY <1>1, <1>5, <1>6, <1>7 DEF CutApart

\* What cache_req's two slices release is released once.
LEMMA SlicesFreed ==
  ASSUME NEW N, NEW row \in Seq(N), NEW k0 \in Nat, NEW k1 \in Nat, NEW k2 \in Nat,
         k0 <= k1, k1 <= k2, k2 <= Len(row), OwnOnce(row, k0)
  PROVE  /\ SubSeq(row, k0 + 1, k1) \o SubSeq(row, k2 + 1, Len(row)) \in Seq(N)
         /\ Once(SubSeq(row, k0 + 1, k1) \o SubSeq(row, k2 + 1, Len(row)),
                 RowPages(row, k0, k1) \cup RowPages(row, k2, Len(row)))
<1>1. PICK n \in Nat : n = Len(row)
  OBVIOUS
<1>2. PICK a : a = SubSeq(row, k0 + 1, k1)
  OBVIOUS
<1>3. PICK b : b = SubSeq(row, k2 + 1, n)
  OBVIOUS
<1>4. a \in Seq(N) /\ Once(a, RowPages(row, k0, k1))
  <2>1. k0 <= k0 /\ k0 <= k1 /\ k1 <= Len(row)
    OBVIOUS
  <2>2. SubSeq(row, k0 + 1, k1) \in Seq(N) /\ Once(SubSeq(row, k0 + 1, k1), RowPages(row, k0, k1))
    BY <2>1, SliceOnce, Zenon
  <2> QED BY <1>2, <2>2, Zenon
<1>5. b \in Seq(N) /\ Once(b, RowPages(row, k2, n))
  <2>1. k0 <= k2 /\ k2 <= n /\ n <= Len(row)
    BY <1>1
  <2>2. SubSeq(row, k2 + 1, n) \in Seq(N) /\ Once(SubSeq(row, k2 + 1, n), RowPages(row, k2, n))
    BY <2>1, SliceOnce, Zenon
  <2> QED BY <1>3, <2>2, Zenon
<1>6. RowPages(row, k0, k1) \cap RowPages(row, k2, n) = {}
  BY <1>1, RowCuts DEF CutApart
<1>7. a \o b \in Seq(N) /\ Once(a \o b, RowPages(row, k0, k1) \cup RowPages(row, k2, n))
  BY <1>4, <1>5, <1>6, ConcatOnce, Zenon
<1> QED BY <1>1, <1>2, <1>3, <1>7, Zenon

(***************************************************************************)
(* What MemoryInv says of one holder.                                      *)
(***************************************************************************)

LEMMA HoldersFinite ==
  ASSUME ControlInv
  PROVE  IsFiniteSet(Holders)
<1>1. IsFiniteSet(Tables)
  <2>1. MaxRunningReqs \in Nat
    BY SchedulerAssumption
  <2> QED BY <2>1, FS_Interval DEF Tables
<1>2. /\ \A u \in Holders : req[u].table_idx \in Tables
      /\ \A u, v \in Holders : req[u].table_idx = req[v].table_idx => u = v
  BY DEF ControlInv, ControlTypes, TablesOK, Holders, Held, Reqs
<1>3. PICK f : f = [u \in Holders |-> req[u].table_idx]
  OBVIOUS
<1>4. f \in Injection(Holders, Tables)
  BY <1>2, <1>3 DEF Injection, IsInjective
<1> QED BY <1>1, <1>4, FS_Injection

HolderOK(u) ==
    /\ u \in Uids /\ req[u].table_idx \in Tables /\ req[u].cached_len \in Nat
    /\ req[u].handle \in Seq(Vocab) /\ req[u].input_ids \in Seq(Vocab)
    /\ req[u].handle \in Nodes(tree) \cup {<<>>} /\ IsPrefix(req[u].handle, req[u].input_ids)
    /\ Len(req[u].handle) <= req[u].cached_len /\ Len(req[u].handle) = Shared(u) * PageSize
    /\ Shared(u) \in Nat /\ Shared(u) <= Len(Row(u))
    /\ ~Shareable(u) => req[u].handle = <<>>
    /\ Row(u) \in Seq(PoolPages) /\ Len(Row(u)) = CeilPages(req[u].cached_len)
    /\ OwnOnce(Row(u), Shared(u)) /\ Own(u) = RowPages(Row(u), Shared(u), Len(Row(u)))
    /\ Own(u) \cap PagesIn(tree) = {}

(* What the invariants say of one holder: its row, its handle and its lengths. *)
LEMMA HolderFacts ==
  ASSUME ControlInv, MemoryInv, NEW u \in Holders
  PROVE  HolderOK(u)
<1>1. u \in Uids /\ Held(u) /\ req[u] \in Reqs
  BY DEF Holders, ControlInv, ControlTypes
<1>2. /\ req[u].table_idx \in Tables /\ req[u].cached_len \in Nat
      /\ req[u].handle \in Seq(Vocab) /\ req[u].input_ids \in Seq(Vocab)
  BY <1>1 DEF Held, Reqs
<1>3. /\ req[u].handle \in Nodes(tree) \cup {<<>>}
      /\ IsPrefix(req[u].handle, req[u].input_ids)
      /\ Len(req[u].handle) <= req[u].cached_len
      /\ ~Shareable(u) => req[u].handle = <<>>
      /\ Row(u) \in Seq(PoolPages) /\ Len(Row(u)) = CeilPages(req[u].cached_len)
      /\ OwnOnce(Row(u), Shared(u))
  <2>1. HandleOK(u) /\ RowPaged(u)
    BY DEF MemoryInv, HandlesOK, RowsOK
  <2>2. Row(u) \in Seq(PoolPages)
    BY <1>2 DEF MemoryInv, RowsOK, Row
  <2> QED BY <2>1, <2>2 DEF HandleOK, RowPaged, OwnOnce
<1>4. IsTree(tree, Vocab, PoolPages)
  BY TreeIs DEF MemoryInv, TreeOf
<1>5. PICK handle \in Seq(Vocab) : handle = req[u].handle
  BY <1>2
<1>6. Len(handle) \in Nat /\ Len(handle) % PageSize = 0
  BY <1>3, <1>4, <1>5, MatchedIndices
<1>7. Shared(u) \in Nat /\ Len(handle) = Shared(u) * PageSize
  BY <1>5, <1>6, MultipleOf DEF Shared
<1>8. Shared(u) <= Len(Row(u))
  <2>1. PICK c \in Nat : c = req[u].cached_len
    BY <1>2
  <2>2. PICK k \in Nat, d \in Nat : k = Shared(u) /\ d = CeilPages(c) /\ c <= d * PageSize
    BY <1>7, CeilIs
  <2>3. k * PageSize <= d * PageSize
    <3>1. k * PageSize \in Nat /\ d * PageSize \in Nat
      BY Multiples
    <3> QED BY <1>3, <1>5, <1>7, <2>1, <2>2, <3>1
  <2> QED BY <1>3, <2>1, <2>2, <2>3, MultipleOrder
<1>9. Own(u) = RowPages(Row(u), Shared(u), Len(Row(u)))
  BY DEF Own, RowPages
<1>10. Own(u) \cap PagesIn(tree) = {}
  BY <1>1 DEF MemoryInv, PagesOK, Partition, TreePages, PagesIn
<1> QED BY <1>1, <1>2, <1>3, <1>5, <1>7, <1>8, <1>9, <1>10 DEF HolderOK

(* The invariants' account of the tree and its locks, in the form the lemmas
   of the tree take. *)
LEMMA LocksAre ==
  ASSUME ControlInv, MemoryInv
  PROVE  /\ TreeOf(tree, PoolPages) /\ IsTree(tree, Vocab, PoolPages)
         /\ Points(tree, Handles, Holders) /\ Counts(tree, Handles, Holders)
         /\ IsFiniteSet(Holders)
<1>1. TreeOf(tree, PoolPages)
  BY TreeIs DEF MemoryInv
<1>2. \A u \in Holders : Handles[u] = req[u].handle
  BY DEF Handles, Holders
<1>3. Points(tree, Handles, Holders)
  BY <1>2 DEF Points, MemoryInv, HandlesOK, HandleOK
<1>4. ASSUME NEW n \in Nodes(tree)
      PROVE  {u \in Holders : IsPrefix(n, req[u].handle)} = Covering(Handles, Holders, n)
  BY <1>2 DEF Covering
<1>5. Counts(tree, Handles, Holders)
  BY <1>4 DEF Counts, MemoryInv, LocksOK
<1> QED BY <1>1, <1>3, <1>5, HoldersFinite DEF TreeOf

\* r is u's object, or that with a token appended by the host.
SameObject(r, u) ==
    /\ r.table_idx = req[u].table_idx /\ r.cached_len = req[u].cached_len
    /\ r.handle = req[u].handle
    /\ r.input_ids \in Seq(Vocab) /\ IsPrefix(req[u].handle, r.input_ids)

\* What cache_req finds: the invariant makes the object ready to be committed.
LEMMA ReadyToCommit ==
  ASSUME ControlInv, MemoryInv, NEW u \in Holders, NEW r, SameObject(r, u)
  PROVE  /\ CommitReady(tree, PoolPages, Handles, Holders, u, ComputedIds(r), Row(u))
         /\ Handles[u] = req[u].handle
<1>1. HolderOK(u)
  BY HolderFacts
<1>2. PICK c \in Nat, ids \in Seq(Vocab), handle \in Seq(Vocab) :
        c = req[u].cached_len /\ ids = r.input_ids /\ handle = req[u].handle
  BY <1>1 DEF HolderOK, SameObject
<1>3. PICK m \in 0 .. Len(ids) : m = Min({Len(ids), c}) /\ m <= c /\ Len(handle) <= m
  <2>1. Len(ids) \in Nat
    BY <1>2
  <2>2. Min({Len(ids), c}) = IF Len(ids) <= c THEN Len(ids) ELSE c
    BY <2>1, MinOfTwo
  <2>3. Len(handle) <= Len(ids) /\ Len(handle) <= c /\ Len(handle) \in Nat
    BY <1>1, <1>2, PrefixLength DEF HolderOK, SameObject
  <2> QED BY <2>1, <2>2, <2>3
<1>4. PICK key \in Seq(Vocab) : key = Prefix(ids, m) /\ Len(key) = m /\ IsPrefix(key, ids)
  BY <1>3, PrefixProperties
<1>5. ComputedIds(r) = key
  BY <1>2, <1>3, <1>4 DEF ComputedIds, SameObject
<1>6. IsPrefix(handle, key)
  <2>1. IsPrefix(handle, ids) /\ Len(handle) <= Len(key)
    BY <1>2, <1>3, <1>4 DEF SameObject
  <2> QED BY <1>4, <2>1, PrefixChain
<1>7. PICK row \in Seq(PoolPages) : row = Row(u) /\ Len(row) = CeilPages(c)
  BY <1>1, <1>2 DEF HolderOK
<1>8. Len(key) \div PageSize <= Len(row)
  <2>1. m \in Nat
    BY <1>2
  <2>2. PICK d \in Nat : d = CeilPages(m) /\ m \div PageSize \in Nat /\ m \div PageSize <= d
    BY <2>1, CeilIs
  <2>3. PICK e \in Nat : e = CeilPages(c)
    BY CeilIs
  <2>4. d <= e
    BY <1>3, <2>1, <2>2, <2>3, CeilOrder
  <2> QED BY <1>4, <1>7, <2>2, <2>3, <2>4
<1>9. Handles[u] = handle
  BY <1>2 DEF Handles, Holders
<1>10. /\ \A i \in Len(handle) \div PageSize + 1 .. Len(row) : row[i] \notin PagesIn(tree)
       /\ \A i, j \in Len(handle) \div PageSize + 1 .. Len(row) : row[i] = row[j] => i = j
  <2>1. Shared(u) = Len(handle) \div PageSize
    BY <1>2 DEF Shared
  <2>2. /\ OwnOnce(row, Shared(u)) /\ Own(u) = RowPages(row, Shared(u), Len(row))
        /\ Own(u) \cap PagesIn(tree) = {}
    BY <1>1, <1>7 DEF HolderOK
  <2> QED BY <2>1, <2>2 DEF OwnOnce, RowPages
<1>11. CommitReady(tree, PoolPages, Handles, Holders, u, key, row)
  <2>1. /\ TreeOf(tree, PoolPages) /\ Points(tree, Handles, Holders)
        /\ Counts(tree, Handles, Holders) /\ IsFiniteSet(Holders)
    BY LocksAre
  <2> QED BY <1>4, <1>6, <1>7, <1>8, <1>9, <1>10, <2>1 DEF CommitReady
<1> QED BY <1>2, <1>5, <1>7, <1>9, <1>11, Zenon

\* The duplicates are the blocks the tree had already.
LEMMA DupIs ==
  ASSUME NEW row, NEW old, NEW new, NEW k0 \in Nat, NEW k1 \in Nat,
         old = k0 * PageSize, new = k1 * PageSize, old \div PageSize = k0, k0 <= k1
  PROVE  (IF new > old THEN Slice(row, old, new) ELSE <<>>) = SubSeq(row, k0 + 1, k1)
<1>1. CeilPages(new) = k1 /\ (k0 < k1 <=> old < new) /\ old \in Nat /\ new \in Nat
  BY CeilMultiple, MultipleOrder, Multiples
<1>2. CASE k0 < k1
  BY <1>1, <1>2 DEF Slice
<1>3. CASE k0 = k1
  <2>1. SubSeq(row, k0 + 1, k1) = <<>>
    BY <1>3
  <2> QED BY <1>1, <1>3, <2>1
<1> QED BY <1>2, <1>3

\* The pages of a row between a and b that a commit gives back.
Dup(row, a, b) == IF b > a THEN Slice(row, a, b) ELSE <<>>

(* The same, of the operator. *)
LEMMA DupCut ==
  ASSUME NEW row, NEW old, NEW new, NEW k0 \in Nat, NEW k1 \in Nat,
         old = k0 * PageSize, new = k1 * PageSize, old \div PageSize = k0, k0 <= k1
  PROVE  Dup(row, old, new) = SubSeq(row, k0 + 1, k1)
BY ONLY DupIs, k0 \in Nat, k1 \in Nat, old = k0 * PageSize, new = k1 * PageSize,
        old \div PageSize = k0, k0 <= k1, Zenon DEF Dup

(***************************************************************************)
(* cache_req on a holder's object.                                         *)
(***************************************************************************)

\* tr, freed: a request gave up its row, some pages of its own to freed, the
\* others to the tree.
Released(u, tr, freed) ==
    /\ TreeOf(tr, PoolPages) /\ Nodes(tree) \subseteq Nodes(tr)
    /\ Points(tr, Handles, Holders \ {u}) /\ Counts(tr, Handles, Holders \ {u})
    /\ freed \in Seq(PoolPages)
    /\ \E A, B : /\ Once(freed, A) /\ PagesIn(tr) = PagesIn(tree) \cup B
                 /\ Own(u) = A \cup B /\ A \cap B = {}

(* cache_req of a finished request gives every page of its row to the tree or
   to the free list, and its lock back. *)
LEMMA FinishedReleases ==
  ASSUME ControlInv, MemoryInv, NEW u \in Holders, NEW r, SameObject(r, u)
  PROVE  Released(u, cache_req(u, r, TRUE).tree, cache_req(u, r, TRUE).freed)
<1>1. HolderOK(u)
  BY HolderFacts
<1>2. PICK row, handle, c, ids :
        /\ row = Row(u) /\ handle = req[u].handle /\ c = req[u].cached_len /\ ids = ComputedIds(r)
  OBVIOUS
<1>3. page_table[r.table_idx] = row /\ r.handle = handle /\ r.cached_len = c
  BY <1>2 DEF SameObject, Row
<1>4. /\ row \in Seq(PoolPages) /\ Len(row) = CeilPages(c) /\ Len(row) \in Nat
      /\ OwnOnce(row, Shared(u)) /\ Own(u) = RowPages(row, Shared(u), Len(row))
  BY <1>1, <1>2 DEF HolderOK
<1>5. /\ CommitReady(tree, PoolPages, Handles, Holders, u, ids, row) /\ Handles[u] = handle
  BY <1>2, ReadyToCommit
<1>6. /\ TreeOf(tree, PoolPages) /\ IsTree(tree, Vocab, PoolPages)
      /\ Points(tree, Handles, Holders) /\ Counts(tree, Handles, Holders) /\ IsFiniteSet(Holders)
  BY LocksAre
<1>7. CASE ~Shareable(u)
  <2>1. handle = <<>> /\ Shared(u) = 0 /\ Len(handle) = 0
    <3>1. handle = <<>>
      BY <1>1, <1>2, <1>7 DEF HolderOK
    <3>2. Len(handle) = 0 /\ 0 \div PageSize = 0
      BY <3>1, PageSizeAssumption
    <3> QED BY <1>2, <3>1, <3>2 DEF Shared
  <2>2. cache_req(u, r, TRUE).tree = unlock(tree, handle)
        /\ cache_req(u, r, TRUE).freed = Slice(row, Len(handle), c)
    BY <1>3, <1>7 DEF cache_req
  <2>3. Slice(row, Len(handle), c) = SubSeq(row, 0 + 1, Len(row))
    <3>1. 0 \div PageSize + 1 = 0 + 1
      BY PageSizeAssumption
    <3> QED BY <1>4, <2>1, <3>1 DEF Slice
  <2>4. SubSeq(row, 0 + 1, Len(row)) \in Seq(PoolPages)
        /\ Once(SubSeq(row, 0 + 1, Len(row)), RowPages(row, 0, Len(row)))
    <3>1. 0 \in Nat /\ 0 <= 0 /\ 0 <= Len(row) /\ Len(row) <= Len(row) /\ OwnOnce(row, 0)
      BY <1>4, <2>1
    <3> QED BY <1>4, <3>1, SliceOnce, Zenon
  <2>5. PICK t1 : t1 = unlock(tree, handle)
    OBVIOUS
  <2>6. Points(t1, Handles, Holders \ {u}) /\ Counts(t1, Handles, Holders \ {u})
        /\ \A n \in Nodes(tree) : IsPrefix(n, handle) => tree.ref[n] > 0
    BY <1>5, <1>6, <2>5, CountsUnlock
  <2>7. TreeOf(t1, PoolPages) /\ PagesIn(t1) = PagesIn(tree) /\ Nodes(t1) = Nodes(tree)
    BY <1>6, <2>5, <2>6, UnlockedPages
  <2>8. PICK freed : freed = cache_req(u, r, TRUE).freed
    OBVIOUS
  <2>9. freed \in Seq(PoolPages) /\ Once(freed, Own(u))
    BY <1>4, <2>1, <2>2, <2>3, <2>4, <2>8, Zenon
  <2>10. Released(u, t1, freed)
    <3>1. PagesIn(t1) = PagesIn(tree) \cup {} /\ Own(u) = Own(u) \cup {} /\ Own(u) \cap {} = {}
      BY <2>7
    <3> QED BY <2>6, <2>7, <2>9, <3>1 DEF Released
  <2> QED BY <2>2, <2>5, <2>8, <2>10, Zenon
<1>8. CASE Shareable(u)
  <2>0. CommitResult(tree, PoolPages, Handles, Holders, u, ids, row)
    BY <1>5, CommitCuts
  <2>1. PICK ins : ins = insert_prefix(tree, ids, row)
    OBVIOUS
  <2>2. PICK k0 \in Nat, k1 \in Nat, k2 \in Nat :
          /\ Cuts(tree, handle, ids, row, k0, k1, k2)
          /\ PagesIn(ins.tree) = PagesIn(tree) \cup RowPages(row, k1, k2)
    BY <1>5, <2>1, <2>0 DEF CommitResult, RowPages
  <2>3. /\ TreeOf(ins.tree, PoolPages) /\ Points(ins.tree, Handles, Holders)
        /\ Counts(ins.tree, Handles, Holders) /\ Nodes(tree) \subseteq Nodes(ins.tree)
    BY <2>1, <2>0 DEF CommitResult
  <2>4. /\ Len(handle) = k0 * PageSize /\ Len(handle) \div PageSize = k0
        /\ ins.cached_len = k1 * PageSize /\ ins.cached_len \div PageSize = k1
        /\ Len(ins.path) = k2 * PageSize /\ Len(ins.path) \div PageSize = k2
        /\ k0 <= k1 /\ k1 <= k2 /\ k2 <= Len(row)
    BY <2>1, <2>2 DEF Cuts
  <2>5. Shared(u) = k0
    BY <1>2, <2>4 DEF Shared
  <2>6. PICK dup : dup = IF ins.cached_len > Len(handle) THEN Slice(row, Len(handle), ins.cached_len)
                         ELSE <<>>
    OBVIOUS
  <2>7. PICK freed : freed = dup \o Slice(row, Len(ins.path), c)
    OBVIOUS
  <2>8. cache_req(u, r, TRUE).tree = unlock(ins.tree, handle)
        /\ cache_req(u, r, TRUE).freed = freed
    BY <1>2, <1>3, <1>8, <2>1, <2>6, <2>7 DEF cache_req
  <2>9. dup = SubSeq(row, k0 + 1, k1)
    <3>1. PICK a, b : a = Len(handle) /\ b = ins.cached_len
      OBVIOUS
    <3>2. a = k0 * PageSize /\ b = k1 * PageSize /\ a \div PageSize = k0 /\ k0 <= k1
      BY <2>4, <3>1
    <3>3. Dup(row, a, b) = SubSeq(row, k0 + 1, k1)
      BY ONLY <3>2, DupCut, k0 \in Nat, k1 \in Nat
    <3> QED BY ONLY <2>6, <3>1, <3>3 DEF Dup
  <2>10. Slice(row, Len(ins.path), c) = SubSeq(row, k2 + 1, Len(row))
    BY <1>4, <2>4 DEF Slice
  <2>11. freed \in Seq(PoolPages)
         /\ Once(freed, RowPages(row, k0, k1) \cup RowPages(row, k2, Len(row)))
    <3>1. OwnOnce(row, k0)
      BY <1>4, <2>5
    <3>2. SubSeq(row, k0 + 1, k1) \o SubSeq(row, k2 + 1, Len(row)) \in Seq(PoolPages)
          /\ Once(SubSeq(row, k0 + 1, k1) \o SubSeq(row, k2 + 1, Len(row)),
                  RowPages(row, k0, k1) \cup RowPages(row, k2, Len(row)))
      BY <1>4, <2>4, <3>1, SlicesFreed, Zenon
    <3> QED BY <2>7, <2>9, <2>10, <3>2, Zenon
  <2>12. PICK A, B : A = RowPages(row, k0, k1) \cup RowPages(row, k2, Len(row)) /\ B = RowPages(row, k1, k2)
    OBVIOUS
  <2>13. Own(u) = A \cup B /\ A \cap B = {}
    <3>1. OwnOnce(row, k0)
      BY <1>4, <2>5
    <3>2. CutApart(row, k0, k1, k2)
      BY <1>4, <2>4, <3>1, RowCuts
    <3>3. Own(u) = RowPages(row, k0, Len(row))
      BY <1>4, <2>5
    <3> QED BY <2>12, <3>2, <3>3 DEF CutApart
  <2>14. PICK t0, t1 : t0 = ins.tree /\ t1 = unlock(ins.tree, handle)
    OBVIOUS
  <2>15. IsTree(t0, Vocab, PoolPages)
    BY <2>3, <2>14 DEF TreeOf
  <2>16. Points(t1, Handles, Holders \ {u}) /\ Counts(t1, Handles, Holders \ {u})
         /\ \A n \in Nodes(t0) : IsPrefix(n, handle) => t0.ref[n] > 0
    BY <1>5, <1>6, <2>3, <2>14, <2>15, CountsUnlock
  <2>17. TreeOf(t1, PoolPages) /\ PagesIn(t1) = PagesIn(t0) /\ Nodes(t1) = Nodes(t0)
    BY <2>3, <2>14, <2>16, UnlockedPages
  <2>18. Released(u, t1, freed)
    BY <2>2, <2>3, <2>11, <2>12, <2>13, <2>14, <2>16, <2>17 DEF Released
  <2> QED BY <2>8, <2>14, <2>18, Zenon
<1> QED BY <1>7, <1>8

(* The ids a commit inserts are a prefix of the owner's ids, never beyond what
   the device computed. *)
LEMMA ComputedAre ==
  ASSUME ControlInv, MemoryInv, NEW u \in Holders, NEW r, SameObject(r, u)
  PROVE  /\ ComputedIds(r) \in Seq(Vocab) /\ IsPrefix(ComputedIds(r), r.input_ids)
         /\ Len(ComputedIds(r)) <= req[u].cached_len
<1>1. PICK c \in Nat, ids \in Seq(Vocab) : c = req[u].cached_len /\ ids = r.input_ids
  BY HolderFacts DEF HolderOK, SameObject
<1>2. PICK m \in 0 .. Len(ids) : m = Min({Len(ids), c}) /\ m <= c
  <2>1. Len(ids) \in Nat
    BY <1>1
  <2>2. Min({Len(ids), c}) = IF Len(ids) <= c THEN Len(ids) ELSE c
    BY <2>1, MinOfTwo
  <2> QED BY <2>1, <2>2
<1>3. PICK key \in Seq(Vocab) : key = Prefix(ids, m) /\ Len(key) = m /\ IsPrefix(key, ids)
  BY <1>2, PrefixProperties
<1>4. ComputedIds(r) = key
  BY <1>1, <1>2, <1>3 DEF ComputedIds, SameObject
<1>5. Len(key) <= c
  BY <1>2, <1>3
<1> QED BY <1>1, <1>3, <1>4, <1>5, Zenon

\* tr, handle, row, freed: a request stays, its computed tokens in the tree.
Kept(u, ids, tr, handle, row, freed) ==
    LET k == Len(handle) \div PageSize
    IN  /\ TreeOf(tr, PoolPages) /\ Nodes(tree) \subseteq Nodes(tr)
        /\ handle \in Nodes(tr) \cup {<<>>} /\ IsPrefix(handle, ids)
        /\ Len(handle) <= req[u].cached_len
        /\ ~Shareable(u) => handle = <<>>
        /\ Points(tr, [Handles EXCEPT ![u] = handle], Holders)
        /\ Counts(tr, [Handles EXCEPT ![u] = handle], Holders)
        /\ row \in Seq(PoolPages) /\ Len(row) = Len(Row(u)) /\ OwnOnce(row, k)
        /\ freed \in Seq(PoolPages)
        /\ \E A, B, C : /\ Once(freed, A) /\ PagesIn(tr) = PagesIn(tree) \cup B
                        /\ Own(u) = A \cup B \cup C
                        /\ A \cap B = {} /\ A \cap C = {} /\ B \cap C = {}
                        /\ RowPages(row, k, Len(row)) = C

\* Nothing of a multimodal prompt is committed: the handle it unlocks is the root.
LEMMA UnlockRoot ==
  ASSUME NEW tr, NEW N, IsTree(tr, Vocab, N)
  PROVE  unlock(tr, <<>>) = tr
<1>1. ASSUME NEW n \in Nodes(tr) PROVE ~IsPrefix(n, <<>>)
  <2>1. n \in Blocks(tr)
    BY NodeOfNode
  <2>2. n \in Seq(Vocab) /\ n # <<>>
    BY <2>1, BlockFacts
  <2> QED BY <2>2, PrefixEmpty
<1>2. PICK rf \in [Nodes(tr) -> Nat] : rf = tr.ref /\ tr = [page |-> tr.page, ref |-> rf]
  BY DEF IsTree
<1>3. [n \in Nodes(tr) |-> IF IsPrefix(n, <<>>) THEN tr.ref[n] - 1 ELSE tr.ref[n]] = rf
  <2>1. [n \in Nodes(tr) |-> IF IsPrefix(n, <<>>) THEN rf[n] - 1 ELSE rf[n]] = [n \in Nodes(tr) |-> rf[n]]
    BY <1>1
  <2> QED BY <1>2, <2>1
<1>4. unlock(tr, <<>>) = [tr EXCEPT !.ref = rf]
  BY <1>3 DEF unlock
<1>5. [tr EXCEPT !.ref = rf] = tr
  BY <1>2
<1> QED BY <1>4, <1>5

(* cache_req of a running request with nothing shareable changes neither tree
   nor row. *)
LEMMA NothingKept ==
  ASSUME ControlInv, MemoryInv, NEW u \in Holders, NEW r, SameObject(r, u), ~Shareable(u)
  PROVE  Kept(u, r.input_ids, cache_req(u, r, FALSE).tree, cache_req(u, r, FALSE).handle,
              cache_req(u, r, FALSE).row, cache_req(u, r, FALSE).freed)
<1>1. HolderOK(u)
  BY HolderFacts
<1>2. PICK row, handle : row = Row(u) /\ handle = req[u].handle
  OBVIOUS
<1>3. /\ page_table[r.table_idx] = row /\ r.handle = handle /\ IsPrefix(handle, r.input_ids)
      /\ r.cached_len = req[u].cached_len
  BY <1>2 DEF SameObject, Row
<1>4. /\ row \in Seq(PoolPages) /\ OwnOnce(row, Len(handle) \div PageSize)
      /\ Own(u) = RowPages(row, Len(handle) \div PageSize, Len(row))
      /\ handle = <<>> /\ handle \in Nodes(tree) \cup {<<>>} /\ Len(handle) <= req[u].cached_len
  BY <1>1, <1>2 DEF HolderOK, Shared
<1>5. /\ TreeOf(tree, PoolPages) /\ IsTree(tree, Vocab, PoolPages)
      /\ Points(tree, Handles, Holders) /\ Counts(tree, Handles, Holders)
  BY LocksAre
<1>6. [Handles EXCEPT ![u] = handle] = Handles
  <2>1. u \in Uids
    BY DEF Holders
  <2> QED BY <1>2, <2>1 DEF Handles
<1>7. /\ cache_req(u, r, FALSE).tree = unlock(tree, handle)
      /\ cache_req(u, r, FALSE).row = row /\ cache_req(u, r, FALSE).handle = handle
      /\ cache_req(u, r, FALSE).freed = <<>>
  BY <1>3 DEF cache_req
<1>8. unlock(tree, handle) = tree
  BY <1>4, <1>5, UnlockRoot
<1>9. PICK freed : freed = <<>> /\ freed \in Seq(PoolPages) /\ Once(freed, {})
  <2>1. PICK freed : freed = <<>>
    OBVIOUS
  <2>2. freed \in Seq(PoolPages) /\ Len(freed) = 0
    BY <2>1
  <2>3. Once(freed, {})
    BY <2>2 DEF Once
  <2> QED BY <2>1, <2>2, <2>3
<1>10. PagesIn(tree) = PagesIn(tree) \cup {} /\ Own(u) = {} \cup {} \cup Own(u)
  OBVIOUS
<1>11. Kept(u, r.input_ids, tree, handle, row, freed)
  BY <1>2, <1>3, <1>4, <1>5, <1>6, <1>9, <1>10 DEF Kept
<1> QED BY <1>7, <1>8, <1>9, <1>11, Zenon

\* The row of a running request, re-pointed where the tree had its blocks.
LEMMA RepointedRow ==
  ASSUME NEW N, NEW row \in Seq(N), NEW k0 \in Nat, NEW k1 \in Nat, NEW k2 \in Nat,
         k0 <= k1, k1 <= k2, k2 <= Len(row), OwnOnce(row, k0),
         NEW from, NEW to, from \div PageSize = k0, to \div PageSize = k1,
         NEW canonical, \A i \in 1 .. k2 : canonical[i] \in N
  PROVE  /\ Repointed(row, canonical, from, to) \in Seq(N)
         /\ Len(Repointed(row, canonical, from, to)) = Len(row)
         /\ OwnOnce(Repointed(row, canonical, from, to), k2)
         /\ RowPages(Repointed(row, canonical, from, to), k2, Len(row)) = RowPages(row, k2, Len(row))
<1>1. PICK n \in Nat : n = Len(row) /\ DOMAIN row = 1 .. n /\ \A i \in 1 .. n : row[i] \in N
  OBVIOUS
<1>2. PICK f : f = [i \in 1 .. n |-> IF i \in k0 + 1 .. k1 THEN canonical[i] ELSE row[i]]
  OBVIOUS
<1>3. Repointed(row, canonical, from, to) = f
  BY <1>1, <1>2 DEF Repointed
<1>4. \A i \in 1 .. n : f[i] \in N
  <2>1. \A i \in k0 + 1 .. k1 : i \in 1 .. k2
    OBVIOUS
  <2> QED BY <1>1, <1>2, <2>1
<1>5. f \in Seq(N) /\ Len(f) = n
  <2>1. f \in [1 .. n -> N]
    BY <1>2, <1>4
  <2>2. f \in Seq(N) /\ DOMAIN f = 1 .. n
    BY <2>1, SeqDef
  <2>3. Len(f) = n
    BY ONLY <2>2, n \in Nat, LenOfDomain
  <2> QED BY <2>2, <2>3
<1>6. \A i \in k2 + 1 .. n : f[i] = row[i] /\ i \in k0 + 1 .. n
  <2>1. \A i \in k2 + 1 .. n : i \in 1 .. n /\ i \notin k0 + 1 .. k1 /\ i \in k0 + 1 .. n
    BY <1>1
  <2> QED BY <1>2, <2>1
<1>7. OwnOnce(f, k2)
  <2>1. ASSUME NEW i \in k2 + 1 .. n, NEW j \in k2 + 1 .. n, f[i] = f[j] PROVE i = j
    BY <1>1, <1>6, <2>1 DEF OwnOnce
  <2> QED BY <1>5, <2>1 DEF OwnOnce
<1>8. RowPages(f, k2, n) = RowPages(row, k2, n)
  BY <1>6 DEF RowPages
<1> QED BY <1>1, <1>3, <1>5, <1>7, <1>8, Zenon

(* cache_req of a running request with something shareable moves its lock to
   the committed path, frees only the duplicates, and keeps the rest of its row
   its own. *)
LEMMA CommitKeeps ==
  ASSUME ControlInv, MemoryInv, NEW u \in Holders, NEW r, SameObject(r, u), Shareable(u)
  PROVE  Kept(u, r.input_ids, cache_req(u, r, FALSE).tree, cache_req(u, r, FALSE).handle,
              cache_req(u, r, FALSE).row, cache_req(u, r, FALSE).freed)
<1>1. HolderOK(u)
  BY HolderFacts
<1>2. PICK row, handle, c, ids :
        /\ row = Row(u) /\ handle = req[u].handle /\ c = req[u].cached_len /\ ids = ComputedIds(r)
  OBVIOUS
<1>3. page_table[r.table_idx] = row /\ r.handle = handle /\ r.cached_len = c
  BY <1>2 DEF SameObject, Row
<1>4. /\ row \in Seq(PoolPages) /\ Len(row) \in Nat
      /\ OwnOnce(row, Shared(u)) /\ Own(u) = RowPages(row, Shared(u), Len(row)) /\ c \in Nat
  BY <1>1, <1>2 DEF HolderOK
<1>5. /\ CommitReady(tree, PoolPages, Handles, Holders, u, ids, row) /\ Handles[u] = handle
  BY <1>2, ReadyToCommit
<1>6. /\ TreeOf(tree, PoolPages) /\ IsTree(tree, Vocab, PoolPages)
      /\ Points(tree, Handles, Holders) /\ Counts(tree, Handles, Holders) /\ IsFiniteSet(Holders)
  BY LocksAre
<1>7. CommitResult(tree, PoolPages, Handles, Holders, u, ids, row)
  BY <1>5, CommitCuts
<1>8. PICK ins : ins = insert_prefix(tree, ids, row)
  OBVIOUS
<1>9. PICK k0 \in Nat, k1 \in Nat, k2 \in Nat :
        /\ Cuts(tree, handle, ids, row, k0, k1, k2)
        /\ PagesIn(ins.tree) = PagesIn(tree) \cup RowPages(row, k1, k2)
  BY <1>5, <1>7, <1>8 DEF CommitResult, RowPages
<1>10. /\ TreeOf(ins.tree, PoolPages) /\ Points(ins.tree, Handles, Holders)
       /\ Counts(ins.tree, Handles, Holders) /\ Nodes(tree) \subseteq Nodes(ins.tree)
       /\ ins.path \in Nodes(ins.tree) \cup {<<>>}
  BY <1>7, <1>8 DEF CommitResult
<1>11. /\ Len(handle) = k0 * PageSize /\ Len(handle) \div PageSize = k0
       /\ ins.cached_len = k1 * PageSize /\ ins.cached_len \div PageSize = k1
       /\ Len(ins.path) = k2 * PageSize /\ Len(ins.path) \div PageSize = k2
       /\ k0 <= k1 /\ k1 <= k2 /\ k2 <= Len(row)
       /\ ins.path \in Seq(Vocab) /\ IsPrefix(ins.path, ids) /\ Len(ins.path) <= Len(ids)
       /\ \A i \in 1 .. k2 : get_matched_indices(ins.tree, ins.path)[i] \in PagesIn(ins.tree)
  BY <1>8, <1>9 DEF Cuts
<1>12. OwnOnce(row, k0) /\ Own(u) = RowPages(row, k0, Len(row))
  <2>1. Shared(u) = k0
    BY <1>2, <1>11 DEF Shared
  <2> QED BY <1>4, <2>1
<1>13. PICK t0, path : t0 = ins.tree /\ path = ins.path
  OBVIOUS
<1>14. PICK canonical, freed, newrow, t1, t2 :
         /\ canonical = get_matched_indices(t0, path)
         /\ freed = IF ins.cached_len > Len(handle) THEN Slice(row, Len(handle), ins.cached_len) ELSE <<>>
         /\ newrow = Repointed(row, canonical, Len(handle), ins.cached_len)
         /\ t1 = unlock(t0, handle) /\ t2 = lock(t1, path)
  OBVIOUS
<1>15. /\ cache_req(u, r, FALSE).tree = t2 /\ cache_req(u, r, FALSE).handle = path
       /\ cache_req(u, r, FALSE).row = newrow /\ cache_req(u, r, FALSE).freed = freed
  BY <1>2, <1>3, <1>8, <1>13, <1>14 DEF cache_req
<1>16. freed = SubSeq(row, k0 + 1, k1)
  <2>1. PICK a, b : a = Len(handle) /\ b = ins.cached_len
    OBVIOUS
  <2>2. a = k0 * PageSize /\ b = k1 * PageSize /\ a \div PageSize = k0 /\ k0 <= k1
    BY <1>11, <2>1
  <2>3. Dup(row, a, b) = SubSeq(row, k0 + 1, k1)
    BY ONLY <2>2, DupCut, k0 \in Nat, k1 \in Nat
  <2> QED BY ONLY <1>14, <2>1, <2>3 DEF Dup
<1>17. freed \in Seq(PoolPages) /\ Once(freed, RowPages(row, k0, k1))
  <2>1. k0 <= k0 /\ k1 <= Len(row)
    BY <1>4, <1>11
  <2>2. SubSeq(row, k0 + 1, k1) \in Seq(PoolPages) /\ Once(SubSeq(row, k0 + 1, k1), RowPages(row, k0, k1))
    BY <1>4, <1>11, <1>12, <2>1, SliceOnce, Zenon
  <2> QED BY <1>16, <2>2, Zenon
<1>18. PagesIn(t0) \subseteq PoolPages /\ IsTree(t0, Vocab, PoolPages)
  <2>1. IsTree(t0, Vocab, PoolPages)
    BY <1>10, <1>13 DEF TreeOf
  <2> QED BY <2>1, BlockFacts DEF PagesIn
<1>19. /\ newrow \in Seq(PoolPages) /\ Len(newrow) = Len(row) /\ OwnOnce(newrow, k2)
       /\ RowPages(newrow, k2, Len(row)) = RowPages(row, k2, Len(row))
  <2>1. \A i \in 1 .. k2 : canonical[i] \in PoolPages
    BY <1>11, <1>13, <1>14, <1>18
  <2>2. PICK a, b : a = Len(handle) /\ b = ins.cached_len /\ a \div PageSize = k0 /\ b \div PageSize = k1
    BY <1>11
  <2>3. newrow = Repointed(row, canonical, a, b)
    BY <1>14, <2>2
  <2> QED BY <1>4, <1>11, <1>12, <2>1, <2>2, <2>3, RepointedRow
<1>20. /\ Points(t1, Handles, Holders \ {u}) /\ Counts(t1, Handles, Holders \ {u})
       /\ \A n \in Nodes(t0) : IsPrefix(n, handle) => t0.ref[n] > 0
  BY <1>5, <1>6, <1>10, <1>13, <1>14, <1>18, CountsUnlock
<1>21. TreeOf(t1, PoolPages) /\ PagesIn(t1) = PagesIn(t0) /\ Nodes(t1) = Nodes(t0)
  BY <1>10, <1>13, <1>14, <1>20, UnlockedPages
<1>22. TreeOf(t2, PoolPages) /\ PagesIn(t2) = PagesIn(t0) /\ Nodes(t2) = Nodes(t0)
  BY <1>14, <1>21, LockedPages
<1>23. PICK g : g = [Handles EXCEPT ![u] = path]
  OBVIOUS
<1>24. g[u] = path /\ \A v \in Holders \ {u} : g[v] = Handles[v]
  BY <1>23 DEF Handles, Holders
<1>25. Points(t2, g, Holders) /\ Counts(t2, g, Holders)
  <2>1. PICK H : H = Holders \ {u}
    OBVIOUS
  <2>2. IsFiniteSet(H) /\ u \notin H /\ H \cup {u} = Holders
    BY <1>6, <2>1, FS_Subset
  <2>3. IsTree(t1, Vocab, PoolPages) /\ path \in Nodes(t1) \cup {<<>>}
    BY <1>10, <1>13, <1>21 DEF TreeOf
  <2>4. Points(t1, Handles, H) /\ Counts(t1, Handles, H)
    BY <1>20, <2>1
  <2>5. \A v \in H : g[v] = Handles[v]
    BY <1>24, <2>1
  <2>6. Points(lock(t1, path), g, H \cup {u}) /\ Counts(lock(t1, path), g, H \cup {u})
    BY <1>24, <2>2, <2>3, <2>4, <2>5, CountsLock
  <2> QED BY <1>14, <2>2, <2>6
<1>26. IsPrefix(path, r.input_ids) /\ Len(path) <= req[u].cached_len
  <2>1. PICK key \in Seq(Vocab), all \in Seq(Vocab) :
          /\ key = ids /\ all = r.input_ids /\ IsPrefix(key, all) /\ Len(key) <= c
    BY <1>2, ComputedAre DEF SameObject
  <2>2. path \in Seq(Vocab) /\ IsPrefix(path, key) /\ Len(path) <= Len(key)
    BY <1>11, <1>13, <2>1
  <2>3. IsPrefix(path, all)
    BY <2>1, <2>2, PrefixTrans
  <2> QED BY <1>2, <1>4, <2>1, <2>2, <2>3
<1>27. PICK A, B, C : /\ A = RowPages(row, k0, k1) /\ B = RowPages(row, k1, k2)
                      /\ C = RowPages(row, k2, Len(row))
  OBVIOUS
<1>28. Own(u) = A \cup B \cup C /\ A \cap B = {} /\ A \cap C = {} /\ B \cap C = {}
  <2>1. CutApart(row, k0, k1, k2)
    BY <1>4, <1>11, <1>12, RowCuts
  <2> QED BY <1>12, <1>27, <2>1 DEF CutApart
<1>29. /\ path \in Nodes(t2) \cup {<<>>} /\ Nodes(tree) \subseteq Nodes(t2)
       /\ PagesIn(t2) = PagesIn(tree) \cup B /\ Once(freed, A)
       /\ RowPages(newrow, k2, Len(newrow)) = C /\ Len(newrow) = Len(Row(u))
       /\ Len(path) \div PageSize = k2
  BY <1>2, <1>9, <1>10, <1>11, <1>13, <1>17, <1>19, <1>22, <1>27
<1>30. Kept(u, r.input_ids, t2, path, newrow, freed)
  BY <1>17, <1>19, <1>22, <1>23, <1>25, <1>26, <1>28, <1>29 DEF Kept
<1> QED BY <1>15, <1>30, Zenon

(* Both cases of cache_req for a running request. *)
LEMMA RunningKeeps ==
  ASSUME ControlInv, MemoryInv, NEW u \in Holders, NEW r, SameObject(r, u)
  PROVE  Kept(u, r.input_ids, cache_req(u, r, FALSE).tree, cache_req(u, r, FALSE).handle,
              cache_req(u, r, FALSE).row, cache_req(u, r, FALSE).freed)
BY NothingKept, CommitKeeps

(***************************************************************************)
(* Steps.                                                                  *)
(***************************************************************************)

PoolInv == TreeOK /\ HandlesOK /\ RowsOK /\ FreeOK /\ PagesOK /\ LocksOK

\* A holder a step leaves alone.
LEMMA HolderKeeps ==
  ASSUME MemoryInv, NEW v \in Holders, req'[v] = req[v],
         page_table'[req[v].table_idx] = page_table[req[v].table_idx],
         Nodes(tree) \subseteq Nodes(tree')
  PROVE  v \in Holders' /\ HandleOK(v)' /\ RowPaged(v)' /\ Own(v)' = Own(v) /\ Handles'[v] = Handles[v]
<1>1. HandleOK(v) /\ RowPaged(v) /\ v \in Uids
  BY DEF MemoryInv, HandlesOK, RowsOK, Holders
<1>2. v \in Holders'
  BY DEF Holders, Held
<1>3. Row(v)' = Row(v) /\ Shared(v)' = Shared(v)
  BY DEF Row, Shared
<1>4. HandleOK(v)'
  BY <1>1 DEF HandleOK
<1>5. RowPaged(v)'
  BY <1>1, <1>3 DEF RowPaged
<1>6. Own(v)' = Own(v)
  BY <1>3 DEF Own
<1> QED BY <1>1, <1>2, <1>4, <1>5, <1>6 DEF Handles

(* The tree and lock parts of the invariant after a step, from what they are
   of the new tree. *)
LEMMA TreeThen ==
  ASSUME NEW nt, tree' = nt, NEW N, N = PoolPages', NEW H, H = Holders',
         TreeOf(nt, N), NEW g, \A v \in H : g[v] = req'[v].handle, Counts(nt, g, H)
  PROVE  TreeOK' /\ LocksOK' /\ TreePages' = PagesIn(nt)
<1>1. TreeOK'
  BY DEF TreeOK, TreeOf, IsTree
<1>2. ASSUME NEW n \in Nodes(nt)
      PROVE  nt.ref[n] = Cardinality({v \in H : IsPrefix(n, req'[v].handle)})
  <2>1. {v \in H : IsPrefix(n, req'[v].handle)} = Covering(g, H, n)
    BY DEF Covering
  <2> QED BY <2>1 DEF Counts
<1>3. LocksOK'
  BY <1>2 DEF LocksOK
<1> QED BY <1>1, <1>3 DEF TreePages, PagesIn

(* The page parts of the invariant after a step, from a partition of the pool. *)
LEMMA PagesThen ==
  ASSUME NEW F, NEW L, NEW T, NEW own, NEW H, NEW N, Partition(F, L, T, own, H, N),
         Once(free_slots', F), Once(lazy_free_list', L), T = TreePages', N = PoolPages',
         H = Holders', \A v \in H : own[v] = Own(v)',
         free_slots' \in Seq(N), lazy_free_list' \in Seq(N), pc' # "drain" => lazy_free_list' = <<>>
  PROVE  PagesOK' /\ FreeOK'
<1>1. /\ F \cap L = {} /\ F \cap T = {} /\ L \cap T = {}
      /\ \A w \in H : own[w] \cap F = {} /\ own[w] \cap L = {} /\ own[w] \cap T = {}
      /\ \A w, v \in H : w # v => own[w] \cap own[v] = {}
      /\ F \cup L \cup T \cup UNION {own[w] : w \in H} = N
  BY DEF Partition
<1>2. PICK new : new = [v \in Uids |-> Own(v)']
  OBVIOUS
<1>3. \A v \in H : new[v] = own[v]
  BY <1>2 DEF Holders
<1>4. UNION {own[w] : w \in H} = UNION {new[w] : w \in H}
  BY <1>3
<1>5. Partition(F, L, T, new, H, N)
  BY <1>1, <1>3, <1>4 DEF Partition
<1>6. /\ F = {free_slots'[i] : i \in 1 .. Len(free_slots')}
      /\ L = {lazy_free_list'[i] : i \in 1 .. Len(lazy_free_list')}
  BY DEF Once
<1>7. PagesOK'
  BY <1>2, <1>5, <1>6 DEF PagesOK
<1>8. FreeOK'
  BY DEF FreeOK, Once
<1> QED BY <1>7, <1>8

(* The page parts of the invariant as a partition of the pool, and back to its
   two free lists. *)
LEMMA FreeLists ==
  ASSUME MemoryInv
  PROVE  \E F, L, own :
           /\ Partition(F, L, PagesIn(tree), own, Holders, PoolPages)
           /\ Once(free_slots, F) /\ Once(lazy_free_list, L)
           /\ free_slots \in Seq(PoolPages) /\ lazy_free_list \in Seq(PoolPages)
           /\ \A v \in Holders : own[v] = Own(v)
<1>1. PICK F, L, own : /\ F = {free_slots[i] : i \in 1 .. Len(free_slots)}
                       /\ L = {lazy_free_list[i] : i \in 1 .. Len(lazy_free_list)}
                       /\ own = [u \in Uids |-> Own(u)]
  OBVIOUS
<1>2. Partition(F, L, PagesIn(tree), own, Holders, PoolPages)
  BY <1>1 DEF MemoryInv, PagesOK, TreePages, PagesIn
<1>3. Once(free_slots, F) /\ Once(lazy_free_list, L)
      /\ free_slots \in Seq(PoolPages) /\ lazy_free_list \in Seq(PoolPages)
  BY <1>1 DEF MemoryInv, FreeOK, Once
<1>4. \A v \in Holders : own[v] = Own(v)
  BY <1>1 DEF Holders
<1> QED BY <1>2, <1>3, <1>4

\* A step that moves no page and no lock.
LEMMA NothingMoves ==
  ASSUME ControlInv, MemoryInv,
         UNCHANGED <<tree, page_table, free_slots, lazy_free_list, num_pages>>,
         \A v \in Uids : /\ req'[v].table_idx = req[v].table_idx
                         /\ req'[v].handle = req[v].handle
                         /\ req'[v].cached_len = req[v].cached_len,
         \A v \in Holders : IsPrefix(req[v].handle, req'[v].input_ids),
         pc' # "drain" => lazy_free_list = <<>>
  PROVE  PoolInv'
<1>1. Holders' = Holders
  BY DEF Holders, Held
<1>2. ASSUME NEW v \in Holders
      PROVE  HandleOK(v)' /\ RowPaged(v)' /\ Own(v)' = Own(v)
  <2>1. v \in Uids /\ HandleOK(v) /\ RowPaged(v)
    BY DEF MemoryInv, HandlesOK, RowsOK, Holders
  <2>2. Row(v)' = Row(v) /\ Shared(v)' = Shared(v)
    BY <2>1 DEF Row, Shared
  <2>3. HandleOK(v)'
    BY <2>1 DEF HandleOK
  <2>4. RowPaged(v)'
    BY <2>1, <2>2 DEF RowPaged
  <2> QED BY <2>2, <2>3, <2>4 DEF Own
<1>3. PoolPages' = PoolPages
  BY DEF PoolPages
<1>4. TreeOf(tree, PoolPages) /\ Counts(tree, Handles, Holders)
  BY LocksAre
<1>5. \A v \in Holders : Handles[v] = req'[v].handle
  BY DEF Handles, Holders
<1>6. PICK nt, N, H, g : nt = tree /\ N = PoolPages /\ H = Holders /\ g = Handles
  OBVIOUS
<1>7. TreeOK' /\ LocksOK' /\ TreePages' = PagesIn(nt)
  <2>1. tree' = nt /\ N = PoolPages' /\ H = Holders' /\ TreeOf(nt, N) /\ Counts(nt, g, H)
        /\ \A v \in H : g[v] = req'[v].handle
    BY <1>1, <1>3, <1>4, <1>5, <1>6
  <2> QED BY <2>1, TreeThen
<1>8. PICK F, L, own : /\ Partition(F, L, PagesIn(nt), own, H, N)
                       /\ Once(free_slots, F) /\ Once(lazy_free_list, L)
                       /\ free_slots \in Seq(N) /\ lazy_free_list \in Seq(N)
                       /\ \A v \in H : own[v] = Own(v)
  BY <1>6, FreeLists
<1>9. PagesOK' /\ FreeOK'
  <2>1. Once(free_slots', F) /\ Once(lazy_free_list', L)
        /\ free_slots' \in Seq(N) /\ lazy_free_list' \in Seq(N)
    BY <1>8
  <2>2. \A v \in H : own[v] = Own(v)'
    BY <1>2, <1>6, <1>8
  <2>3. PagesIn(nt) = TreePages' /\ N = PoolPages' /\ H = Holders'
    BY <1>1, <1>3, <1>6, <1>7
  <2> QED BY <1>8, <2>1, <2>2, <2>3, PagesThen
<1>10. HandlesOK' /\ RowsOK'
  BY <1>1, <1>2, <1>3 DEF HandlesOK, RowsOK, MemoryInv
<1> QED BY <1>7, <1>9, <1>10 DEF PoolInv

\* A request gives up its row, inside the drain's lazy region or outside of it.
LEMMA ReleaseStep ==
  ASSUME ControlInv, MemoryInv, NEW u \in Holders, NEW r, SameObject(r, u),
         NEW tr, NEW freed, Released(u, tr, freed),
         tree' = tr, page_table' = [page_table EXCEPT ![r.table_idx] = <<>>],
         req' = [req EXCEPT ![u] = [r EXCEPT !.table_idx = NoTable]], num_pages' = num_pages,
         DOMAIN r = DOMAIN NoReq,
         \/ free_slots' = free_slots \o freed /\ lazy_free_list' = lazy_free_list
              /\ lazy_free_list = <<>>
         \/ lazy_free_list' = lazy_free_list \o freed /\ free_slots' = free_slots /\ pc' = "drain"
  PROVE  PoolInv'
<1>1. HolderOK(u)
  BY HolderFacts
<1>2. /\ TreeOf(tr, PoolPages) /\ Nodes(tree) \subseteq Nodes(tr)
      /\ Points(tr, Handles, Holders \ {u}) /\ Counts(tr, Handles, Holders \ {u})
      /\ freed \in Seq(PoolPages)
  BY DEF Released
<1>3. req \in [Uids -> Reqs] /\ u \in Uids
  BY DEF ControlInv, ControlTypes, Holders
<1>4. (\A v \in Uids \ {u} : req'[v] = req[v]) /\ req'[u].table_idx = NoTable
  <2>1. req'[u] = [r EXCEPT !.table_idx = NoTable] /\ \A v \in Uids \ {u} : req'[v] = req[v]
    BY <1>3
  <2>2. [r EXCEPT !.table_idx = NoTable].table_idx = NoTable
    BY DEF NoReq
  <2> QED BY <2>1, <2>2
<1>5. Holders' = Holders \ {u}
  BY <1>3, <1>4 DEF Holders, Held
<1>6. ASSUME NEW v \in Holders \ {u}
      PROVE  HandleOK(v)' /\ RowPaged(v)' /\ Own(v)' = Own(v) /\ req'[v] = req[v]
  <2>1. req'[v] = req[v]
    BY <1>4 DEF Holders
  <2>2. req[v].table_idx # req[u].table_idx
    BY DEF ControlInv, TablesOK
  <2>3. page_table'[req[v].table_idx] = page_table[req[v].table_idx]
    <3>1. HolderOK(v)
      BY HolderFacts
    <3>2. req[v].table_idx \in DOMAIN page_table
      BY <3>1 DEF HolderOK, MemoryInv, RowsOK
    <3> QED BY <2>2, <3>2 DEF SameObject
  <2> QED BY <1>2, <2>1, <2>3, HolderKeeps
<1>7. PoolPages' = PoolPages
  BY DEF PoolPages
<1>8. \A v \in Holders \ {u} : Handles[v] = req'[v].handle
  BY <1>6 DEF Handles, Holders
<1>9. PICK N, H, g : N = PoolPages /\ H = Holders \ {u} /\ g = Handles
  OBVIOUS
<1>10. TreeOK' /\ LocksOK' /\ TreePages' = PagesIn(tr)
  <2>1. N = PoolPages' /\ H = Holders' /\ TreeOf(tr, N) /\ Counts(tr, g, H)
        /\ \A v \in H : g[v] = req'[v].handle
    BY <1>2, <1>5, <1>7, <1>8, <1>9
  <2> QED BY <2>1, TreeThen
<1>11. PICK F, L, own : /\ Partition(F, L, PagesIn(tree), own, Holders, N)
                        /\ Once(free_slots, F) /\ Once(lazy_free_list, L)
                        /\ free_slots \in Seq(N) /\ lazy_free_list \in Seq(N)
                        /\ \A v \in Holders : own[v] = Own(v)
  BY <1>9, FreeLists
<1>12. PICK A, B : /\ Once(freed, A) /\ PagesIn(tr) = PagesIn(tree) \cup B
                   /\ own[u] = A \cup B /\ A \cap B = {}
  BY <1>11 DEF Released
<1>13. /\ Partition(F \cup A, L, PagesIn(tr), own, H, N)
       /\ Partition(F, L \cup A, PagesIn(tr), own, H, N)
  <2>1. \A v \in Holders \ {u} : own[v] = own[v]
    OBVIOUS
  <2>2. /\ Partition(F \cup A, L, PagesIn(tree) \cup B, own, Holders \ {u}, N)
        /\ Partition(F, L \cup A, PagesIn(tree) \cup B, own, Holders \ {u}, N)
    BY <1>11, <1>12, <2>1, PartitionFree
  <2> QED BY <1>9, <1>12, <2>2
<1>14. A \cap F = {} /\ A \cap L = {}
  BY <1>11, <1>12 DEF Partition
<1>15. /\ PagesIn(tr) = TreePages' /\ N = PoolPages' /\ H = Holders'
       /\ \A v \in H : own[v] = Own(v)'
  BY <1>5, <1>6, <1>7, <1>9, <1>10, <1>11
<1>16. PagesOK' /\ FreeOK'
  <2>1. CASE free_slots' = free_slots \o freed /\ lazy_free_list' = lazy_free_list
               /\ lazy_free_list = <<>>
    <3>1. free_slots \o freed \in Seq(N) /\ Once(free_slots \o freed, F \cup A)
      <4>1. F \cap A = {} /\ freed \in Seq(N)
        BY <1>2, <1>9, <1>14
      <4> QED BY <1>11, <1>12, <4>1, ConcatOnce
    <3>2. free_slots' \in Seq(N) /\ Once(free_slots', F \cup A)
          /\ lazy_free_list' \in Seq(N) /\ Once(lazy_free_list', L) /\ lazy_free_list' = <<>>
      BY <1>11, <2>1, <3>1
    <3> QED BY <1>13, <1>15, <3>2, PagesThen
  <2>2. CASE lazy_free_list' = lazy_free_list \o freed /\ free_slots' = free_slots /\ pc' = "drain"
    <3>1. lazy_free_list \o freed \in Seq(N) /\ Once(lazy_free_list \o freed, L \cup A)
      <4>1. L \cap A = {} /\ freed \in Seq(N)
        BY <1>2, <1>9, <1>14
      <4> QED BY <1>11, <1>12, <4>1, ConcatOnce
    <3>2. free_slots' \in Seq(N) /\ Once(free_slots', F)
          /\ lazy_free_list' \in Seq(N) /\ Once(lazy_free_list', L \cup A)
      BY <1>11, <2>2, <3>1
    <3> QED BY <1>13, <1>15, <2>2, <3>2, PagesThen
  <2> QED BY <2>1, <2>2
<1>17. HandlesOK' /\ RowsOK'
  <2>1. page_table' \in [Tables -> Seq(PoolPages)]
    <3>1. page_table \in [Tables -> Seq(PoolPages)] /\ <<>> \in Seq(PoolPages)
      BY DEF MemoryInv, RowsOK
    <3> QED BY <3>1
  <2> QED BY <1>5, <1>6, <1>7, <2>1 DEF HandlesOK, RowsOK
<1> QED BY <1>10, <1>16, <1>17 DEF PoolInv

\* A request's computed tokens are committed, and it goes on with the row and
\* the handle it is given.
LEMMA KeptStep ==
  ASSUME ControlInv, MemoryInv, NEW u \in Holders, NEW r, SameObject(r, u),
         NEW tr, NEW handle, NEW row, NEW freed, Kept(u, r.input_ids, tr, handle, row, freed),
         tree' = tr, page_table' = [page_table EXCEPT ![r.table_idx] = row],
         req' = [req EXCEPT ![u] = [r EXCEPT !.handle = handle]], num_pages' = num_pages,
         DOMAIN r = DOMAIN NoReq,
         lazy_free_list' = lazy_free_list \o freed, free_slots' = free_slots, pc' = "drain"
  PROVE  PoolInv'
<1>1. HolderOK(u)
  BY HolderFacts
<1>2. PICK k, g : k = Len(handle) \div PageSize /\ g = [Handles EXCEPT ![u] = handle]
  OBVIOUS
<1>3. /\ TreeOf(tr, PoolPages) /\ Nodes(tree) \subseteq Nodes(tr)
      /\ handle \in Nodes(tr) \cup {<<>>} /\ IsPrefix(handle, r.input_ids)
      /\ Len(handle) <= req[u].cached_len /\ (~Shareable(u) => handle = <<>>)
      /\ Points(tr, g, Holders) /\ Counts(tr, g, Holders)
      /\ row \in Seq(PoolPages) /\ Len(row) = Len(Row(u)) /\ OwnOnce(row, k)
      /\ freed \in Seq(PoolPages)
  BY <1>2 DEF Kept
<1>4. req \in [Uids -> Reqs] /\ u \in Uids
  BY DEF ControlInv, ControlTypes, Holders
<1>5. PICK s : s = [r EXCEPT !.handle = handle]
  OBVIOUS
<1>6. /\ s.handle = handle /\ s.table_idx = req[u].table_idx /\ s.cached_len = req[u].cached_len
      /\ s.input_ids = r.input_ids
  BY <1>5 DEF NoReq, SameObject
<1>7. (\A v \in Uids \ {u} : req'[v] = req[v]) /\ req'[u] = s
  BY <1>4, <1>5
<1>8. Holders' = Holders
  BY <1>4, <1>6, <1>7 DEF Holders, Held
<1>9. \A v \in Holders \ {u} : /\ req'[v] = req[v]
                               /\ page_table'[req[v].table_idx] = page_table[req[v].table_idx]
  <2>1. ASSUME NEW v \in Holders \ {u} PROVE page_table'[req[v].table_idx] = page_table[req[v].table_idx]
    <3>1. req[v].table_idx # req[u].table_idx
      BY DEF ControlInv, TablesOK
    <3>2. req[v].table_idx \in DOMAIN page_table
      BY HolderFacts DEF HolderOK, MemoryInv, RowsOK
    <3> QED BY <3>1, <3>2 DEF SameObject
  <2> QED BY <1>7, <2>1 DEF Holders
<1>10. \A v \in Holders \ {u} : HandleOK(v)' /\ RowPaged(v)' /\ Own(v)' = Own(v) /\ g[v] = req'[v].handle
  <2>1. ASSUME NEW v \in Holders \ {u}
        PROVE HandleOK(v)' /\ RowPaged(v)' /\ Own(v)' = Own(v) /\ g[v] = req'[v].handle
    <3>1. HandleOK(v)' /\ RowPaged(v)' /\ Own(v)' = Own(v) /\ Handles'[v] = Handles[v]
      BY <1>3, <1>9, HolderKeeps
    <3>2. g[v] = Handles[v] /\ Handles'[v] = req'[v].handle
      BY <1>2 DEF Handles, Holders
    <3> QED BY <3>1, <3>2
  <2> QED BY <2>1
<1>11. /\ Row(u)' = row /\ Shared(u)' = k /\ g[u] = handle
       /\ req'[u].handle = handle
  <2>1. page_table'[req[u].table_idx] = row
    <3>1. req[u].table_idx \in DOMAIN page_table
      BY <1>1 DEF HolderOK, MemoryInv, RowsOK
    <3> QED BY <3>1 DEF SameObject
  <2> QED BY <1>2, <1>4, <1>6, <1>7, <2>1 DEF Row, Shared, Handles
<1>12. HandleOK(u)' /\ RowPaged(u)'
  <2>1. HandleOK(u)'
    BY <1>3, <1>6, <1>7 DEF HandleOK
  <2>2. Len(row) = CeilPages(req'[u].cached_len)
    BY <1>1, <1>3, <1>6, <1>7 DEF HolderOK
  <2> QED BY <1>3, <1>11, <2>1, <2>2 DEF RowPaged, OwnOnce
<1>13. Own(u)' = RowPages(row, k, Len(row))
  BY <1>11 DEF Own, RowPages
<1>14. PoolPages' = PoolPages
  BY DEF PoolPages
<1>15. PICK N, H : N = PoolPages /\ H = Holders
  OBVIOUS
<1>16. TreeOK' /\ LocksOK' /\ TreePages' = PagesIn(tr)
  <2>1. N = PoolPages' /\ H = Holders' /\ TreeOf(tr, N) /\ Counts(tr, g, H)
        /\ \A v \in H : g[v] = req'[v].handle
    BY <1>3, <1>8, <1>10, <1>11, <1>14, <1>15
  <2> QED BY <2>1, TreeThen
<1>17. PICK F, L, own : /\ Partition(F, L, PagesIn(tree), own, H, N)
                        /\ Once(free_slots, F) /\ Once(lazy_free_list, L)
                        /\ free_slots \in Seq(N) /\ lazy_free_list \in Seq(N)
                        /\ \A v \in H : own[v] = Own(v)
  BY <1>15, FreeLists
<1>18. PICK A, B, C : /\ Once(freed, A) /\ PagesIn(tr) = PagesIn(tree) \cup B
                      /\ own[u] = A \cup B \cup C
                      /\ A \cap B = {} /\ A \cap C = {} /\ B \cap C = {}
                      /\ RowPages(row, k, Len(row)) = C
  BY <1>2, <1>15, <1>17 DEF Kept
<1>19. PICK new : new = [v \in H |-> IF v = u THEN C ELSE own[v]]
  OBVIOUS
<1>20. new[u] = C /\ \A v \in H \ {u} : new[v] = own[v]
  BY <1>15, <1>19
<1>21. Partition(F, L \cup A, PagesIn(tr), new, H, N)
  <2>1. Partition(F, L \cup A, PagesIn(tree) \cup B, new, H, N)
    <3>1. u \in H /\ \A v \in H \ {u} : new[v] = own[v]
      BY <1>15, <1>20
    <3> QED BY <1>17, <1>18, <1>20, <3>1, PartitionCommit, Zenon
  <2> QED BY <1>18, <2>1
<1>22. \A v \in H : new[v] = Own(v)'
  BY <1>10, <1>13, <1>15, <1>17, <1>18, <1>20
<1>23. PagesOK' /\ FreeOK'
  <2>1. L \cap A = {} /\ freed \in Seq(N)
    BY <1>3, <1>15, <1>17, <1>18 DEF Partition
  <2>2. lazy_free_list \o freed \in Seq(N) /\ Once(lazy_free_list \o freed, L \cup A)
    BY <1>17, <1>18, <2>1, ConcatOnce
  <2>3. /\ free_slots' \in Seq(N) /\ Once(free_slots', F)
        /\ lazy_free_list' \in Seq(N) /\ Once(lazy_free_list', L \cup A)
        /\ PagesIn(tr) = TreePages' /\ N = PoolPages' /\ H = Holders'
    BY <1>8, <1>14, <1>15, <1>16, <1>17, <2>2
  <2> QED BY <1>21, <1>22, <2>3, PagesThen
<1>24. HandlesOK' /\ RowsOK'
  <2>1. page_table' \in [Tables -> Seq(PoolPages)]
    <3>1. page_table \in [Tables -> Seq(PoolPages)]
      BY DEF MemoryInv, RowsOK
    <3> QED BY <1>3, <3>1
  <2> QED BY <1>8, <1>10, <1>12, <1>14, <2>1 DEF HandlesOK, RowsOK
<1> QED BY <1>16, <1>23, <1>24 DEF PoolInv

(* A step that leaves the memory alone keeps its invariant. *)
LEMMA QuietMemory ==
  ASSUME ControlInv, MemoryInv,
         UNCHANGED <<req, tree, page_table, free_slots, lazy_free_list, num_pages>>,
         pc # "drain" \/ pc' = "drain" \/ lazy_free_list = <<>>
  PROVE  PoolInv'
<1>1. \A v \in Holders : IsPrefix(req[v].handle, req'[v].input_ids)
  BY DEF MemoryInv, HandlesOK, HandleOK
<1>2. pc' # "drain" => lazy_free_list = <<>>
  BY DEF MemoryInv, FreeOK
<1> QED BY <1>1, <1>2, NothingMoves

\* The object as it is, and with a token appended.
LEMMA ObjectSame ==
  ASSUME ControlInv, MemoryInv, NEW u \in Holders
  PROVE  SameObject(req[u], u) /\ DOMAIN req[u] = DOMAIN NoReq
<1>1. req[u] \in Reqs
  BY DEF ControlInv, ControlTypes, Holders
<1>2. DOMAIN req[u] = DOMAIN NoReq
  BY <1>1 DEF Reqs, NoReq
<1> QED BY <1>2, HolderFacts DEF HolderOK, SameObject

(* The request an entry of the batch becomes after append_host is still the
   one in the table. *)
LEMMA AppendedSame ==
  ASSUME NEW u \in Uids, u = entry.uid, ControlInv, MemoryInv, Sampled
  PROVE  u \in Holders /\ SameObject(appended, u) /\ DOMAIN appended = DOMAIN NoReq
<1>1. Held(u) /\ appended \in Reqs
  BY SampledFacts
<1>2. u \in Holders
  BY <1>1 DEF Holders
<1>3. HolderOK(u)
  BY <1>2, HolderFacts
<1>4. PICK r \in Reqs : r = req[u]
  BY DEF ControlInv, ControlTypes
<1>5. appended = [r EXCEPT !.input_ids = Append(r.input_ids, entry.token)]
  BY <1>4 DEF appended, object
<1>6. PICK ids \in Seq(Vocab), handle \in Seq(Vocab) :
        ids = r.input_ids /\ handle = r.handle /\ IsPrefix(handle, ids)
  BY <1>3, <1>4 DEF HolderOK
<1>7. /\ appended.table_idx = r.table_idx /\ appended.cached_len = r.cached_len
      /\ appended.handle = r.handle /\ appended.input_ids = Append(ids, entry.token)
      /\ DOMAIN appended = DOMAIN NoReq
  BY <1>5, <1>6 DEF Reqs, NoReq
<1>8. PICK long \in Seq(Vocab) : long = appended.input_ids
  BY <1>1 DEF Reqs
<1>9. Len(long) = Len(ids) + 1 /\ \A i \in 1 .. Len(ids) : long[i] = ids[i]
  BY <1>6, <1>7, <1>8
<1>10. IsPrefix(handle, long)
  <2>1. Len(handle) <= Len(ids) /\ Len(ids) \in Nat /\ Len(handle) \in Nat
        /\ \A i \in 1 .. Len(handle) : handle[i] = ids[i]
    BY <1>6, IsPrefixDef, PrefixLength
  <2>2. Len(handle) <= Len(long) /\ \A i \in 1 .. Len(handle) : handle[i] = long[i]
    BY <1>9, <2>1
  <2> QED BY <2>2, IsPrefixDef
<1> QED BY <1>2, <1>4, <1>6, <1>7, <1>8, <1>10 DEF SameObject

(* Reading a message keeps the memory invariant: an abort frees its victim. *)
LEMMA ReceiveMemory ==
  ASSUME ControlInv, MemoryInv, Receive
  PROVE  PoolInv'
<1>1. ASSUME NEW u \in Uids, UserAborted(u) \/ UserTooLong(u) \/ UserQueued(u) \/ AbortUnheld(u)
      PROVE  PoolInv'
  BY <1>1, QuietMemory
     DEF UserAborted, UserTooLong, UserQueued, AbortUnheld, AbortReceived, Receiving, device, batches
<1>2. ASSUME NEW n \in RebuildSizes, RebuildReceived(n) PROVE PoolInv'
  BY <1>2, QuietMemory DEF RebuildReceived, Receiving, device, batches
<1>3. ASSUME NEW u \in Uids, AbortInFlight(u) PROVE PoolInv'
  <2>1. req' = [req EXCEPT ![u].aborted = TRUE] /\ UNCHANGED <<tree, page_table, free_slots>>
        /\ UNCHANGED <<lazy_free_list, num_pages>> /\ pc # "drain"
    BY <1>3 DEF AbortInFlight, AbortReceived, Receiving, device, batches
  <2>2. req \in [Uids -> Reqs]
    BY DEF ControlInv, ControlTypes
  <2>3. \A v \in Uids : /\ req'[v].table_idx = req[v].table_idx
                        /\ req'[v].handle = req[v].handle
                        /\ req'[v].cached_len = req[v].cached_len
                        /\ req'[v].input_ids = req[v].input_ids
    <3>1. PICK r \in Reqs : r = req[u]
      BY <2>2
    <3>2. req'[u] = [r EXCEPT !.aborted = TRUE] /\ \A v \in Uids \ {u} : req'[v] = req[v]
      BY <2>1, <2>2, <3>1
    <3>3. PICK s : s = [r EXCEPT !.aborted = TRUE]
      OBVIOUS
    <3>4. /\ s.table_idx = r.table_idx /\ s.handle = r.handle /\ s.cached_len = r.cached_len
          /\ s.input_ids = r.input_ids
      BY <3>3 DEF Reqs
    <3> QED BY <3>1, <3>2, <3>3, <3>4
  <2>4. \A v \in Holders : IsPrefix(req[v].handle, req'[v].input_ids)
    BY <2>3 DEF MemoryInv, HandlesOK, HandleOK, Holders
  <2>5. pc' # "drain" => lazy_free_list = <<>>
    BY <2>1 DEF MemoryInv, FreeOK
  <2> QED BY <2>1, <2>3, <2>4, <2>5, NothingMoves
<1>4. ASSUME NEW u \in Uids, AbortHeld(u) PROVE PoolInv'
  <2>1. pc # "drain" /\ lazy_free_list' = lazy_free_list /\ num_pages' = num_pages
    BY <1>4 DEF AbortHeld, AbortReceived, Receiving, batches
  <2>2. CASE req[u].table_idx = NoTable
    BY <1>4, <2>1, <2>2, QuietMemory DEF AbortHeld, device
  <2>3. CASE req[u].table_idx # NoTable
    <3>1. u \in Holders
      BY <2>3 DEF Holders, Held
    <3>2. PICK r : r = req[u]
      OBVIOUS
    <3>3. SameObject(r, u) /\ DOMAIN r = DOMAIN NoReq
      BY <3>1, <3>2, ObjectSame
    <3>4. PICK commit : commit = cache_req(u, r, TRUE)
      OBVIOUS
    <3>5. FreeRow(u, r, commit) /\ free_slots' = free_slots \o commit.freed
      BY <1>4, <2>3, <3>2, <3>4 DEF AbortHeld
    <3>6. PICK tr, freed : tr = commit.tree /\ freed = commit.freed
      OBVIOUS
    <3>7. Released(u, tr, freed)
      <4>1. Released(u, cache_req(u, r, TRUE).tree, cache_req(u, r, TRUE).freed)
        BY <3>1, <3>3, FinishedReleases
      <4> QED BY <3>4, <3>6, <4>1, Zenon
    <3>8. /\ tree' = tr /\ page_table' = [page_table EXCEPT ![r.table_idx] = <<>>]
          /\ req' = [req EXCEPT ![u] = [r EXCEPT !.table_idx = NoTable]]
          /\ free_slots' = free_slots \o freed
      BY <3>5, <3>6 DEF FreeRow
    <3>9. lazy_free_list = <<>>
      BY <2>1 DEF MemoryInv, FreeOK
    <3> QED BY <2>1, <3>1, <3>3, <3>7, <3>8, <3>9, ReleaseStep
  <2> QED BY <2>2, <2>3
<1> QED BY <1>1, <1>2, <1>3, <1>4 DEF Receive

\* _free_req_resources in the drain.
LEMMA FreeLazilyMemory ==
  ASSUME ControlInv, MemoryInv, Visit, NEW u \in Holders, NEW r, SameObject(r, u),
         DOMAIN r = DOMAIN NoReq, FreeLazily(u, r)
  PROVE  PoolInv'
<1>1. r.table_idx # NoTable
  BY DEF SameObject, Holders, Held
<1>2. PICK commit : commit = cache_req(u, r, TRUE)
  OBVIOUS
<1>3. FreeRow(u, r, commit) /\ lazy_free_list' = lazy_free_list \o commit.freed
  BY <1>1, <1>2 DEF FreeLazily
<1>4. PICK tr, freed : tr = commit.tree /\ freed = commit.freed
  OBVIOUS
<1>5. Released(u, tr, freed)
  <2>1. Released(u, cache_req(u, r, TRUE).tree, cache_req(u, r, TRUE).freed)
    BY FinishedReleases
  <2> QED BY <1>2, <1>4, <2>1, Zenon
<1>6. /\ tree' = tr /\ page_table' = [page_table EXCEPT ![r.table_idx] = <<>>]
      /\ req' = [req EXCEPT ![u] = [r EXCEPT !.table_idx = NoTable]]
      /\ lazy_free_list' = lazy_free_list \o freed
      /\ num_pages' = num_pages /\ free_slots' = free_slots /\ pc' = "drain"
  BY <1>3, <1>4 DEF FreeRow, Visit
<1> QED BY <1>5, <1>6, ReleaseStep

(* Every case of the result drain keeps the memory invariant. *)
LEMMA DrainMemory ==
  ASSUME ControlInv, MemoryInv,
         DrainChunk \/ DrainAborted \/ DrainStale \/ DrainFinished \/ DrainPrefilled \/ DrainDecoded
  PROVE  PoolInv'
<1>1. Visit
  BY DEF DrainChunk, DrainAborted, DrainStale, DrainFinished, DrainPrefilled, DrainDecoded, Sampled
<1>2. pc = "drain" /\ pc' = "drain" /\ num_pages' = num_pages /\ free_slots' = free_slots
  BY <1>1 DEF Visit
<1>3. PICK u \in Uids : u = entry.uid
  BY <1>1, VisitFacts
<1>4. req \in [Uids -> Reqs]
  BY DEF ControlInv, ControlTypes
<1>5. ASSUME FreeLazily(u, object) PROVE PoolInv'
  <2>1. object = req[u]
    BY <1>3 DEF object
  <2>2. CASE u \in Holders
    BY <1>1, <1>5, <2>1, <2>2, ObjectSame, FreeLazilyMemory
  <2>3. CASE u \notin Holders
    <3>1. req[u].table_idx = NoTable
      BY <2>3 DEF Holders, Held
    <3>2. req' = req /\ UNCHANGED <<tree, page_table, lazy_free_list>>
      BY <1>4, <1>5, <2>1, <3>1 DEF FreeLazily
    <3> QED BY <1>2, <3>2, QuietMemory
  <2> QED BY <2>2, <2>3
<1>6. ASSUME UNCHANGED <<req, tree, page_table, lazy_free_list>> PROVE PoolInv'
  BY <1>2, <1>6, QuietMemory
<1>7. CASE DrainChunk
  BY <1>3, <1>5, <1>6, <1>7 DEF DrainChunk
<1>8. CASE DrainAborted
  BY <1>3, <1>5, <1>8 DEF DrainAborted
<1>9. CASE DrainStale
  BY <1>6, <1>9 DEF DrainStale
<1>10. ASSUME Sampled
       PROVE  u \in Holders /\ SameObject(appended, u) /\ DOMAIN appended = DOMAIN NoReq
  BY <1>3, <1>10, AppendedSame
<1>11. PICK r : r = appended
  OBVIOUS
<1>12. CASE DrainFinished
  <2>1. Sampled /\ FreeLazily(u, r)
    BY <1>3, <1>11, <1>12 DEF DrainFinished
  <2> QED BY <1>1, <1>10, <1>11, <2>1, FreeLazilyMemory
<1>13. CASE DrainPrefilled
  <2>1. u \in Holders /\ SameObject(r, u) /\ DOMAIN r = DOMAIN NoReq
    BY <1>10, <1>11, <1>13 DEF DrainPrefilled
  <2>2. PICK commit : commit = cache_req(u, r, FALSE)
    OBVIOUS
  <2>3. /\ tree' = commit.tree
        /\ page_table' = [page_table EXCEPT ![r.table_idx] = commit.row]
        /\ lazy_free_list' = lazy_free_list \o commit.freed
        /\ req' = [req EXCEPT ![u] = [r EXCEPT !.handle = commit.handle]]
    <3>1. object.table_idx = r.table_idx
      BY <1>3, <2>1 DEF object, SameObject
    <3> QED BY <1>3, <1>11, <1>13, <2>2, <3>1 DEF DrainPrefilled
  <2>4. PICK tr, handle, row, freed : /\ tr = commit.tree /\ handle = commit.handle
                                      /\ row = commit.row /\ freed = commit.freed
    OBVIOUS
  <2>5. Kept(u, r.input_ids, tr, handle, row, freed)
    <3>1. Kept(u, r.input_ids, cache_req(u, r, FALSE).tree, cache_req(u, r, FALSE).handle,
               cache_req(u, r, FALSE).row, cache_req(u, r, FALSE).freed)
      BY <2>1, RunningKeeps
    <3> QED BY <2>2, <2>4, <3>1, Zenon
  <2>6. /\ tree' = tr /\ page_table' = [page_table EXCEPT ![r.table_idx] = row]
        /\ req' = [req EXCEPT ![u] = [r EXCEPT !.handle = handle]]
        /\ lazy_free_list' = lazy_free_list \o freed
    BY <2>3, <2>4
  <2> QED BY <1>2, <2>1, <2>5, <2>6, KeptStep
<1>14. CASE DrainDecoded
  <2>1. u \in Holders /\ SameObject(r, u) /\ req' = [req EXCEPT ![u] = r]
        /\ UNCHANGED <<tree, page_table, lazy_free_list>>
    BY <1>3, <1>10, <1>11, <1>14 DEF DrainDecoded
  <2>2. req'[u] = r /\ \A v \in Uids \ {u} : req'[v] = req[v]
    BY <1>4, <2>1
  <2>3. \A v \in Uids : /\ req'[v].table_idx = req[v].table_idx
                        /\ req'[v].handle = req[v].handle
                        /\ req'[v].cached_len = req[v].cached_len
    BY <2>1, <2>2 DEF SameObject
  <2>4. \A v \in Holders : IsPrefix(req[v].handle, req'[v].input_ids)
    <3>1. \A v \in Holders : IsPrefix(req[v].handle, req[v].input_ids) /\ v \in Uids
      BY DEF MemoryInv, HandlesOK, HandleOK, Holders
    <3> QED BY <2>1, <2>2, <3>1 DEF SameObject
  <2> QED BY <1>2, <2>1, <2>3, <2>4, NothingMoves
<1> QED BY <1>7, <1>8, <1>9, <1>12, <1>13, <1>14

\* The lazy region's pages reach the free list.
LEMMA EndIterationMemory ==
  ASSUME ControlInv, MemoryInv, EndIteration
  PROVE  PoolInv'
<1>1. /\ free_slots' = free_slots \o lazy_free_list /\ lazy_free_list' = <<>>
      /\ UNCHANGED <<req, tree, page_table, num_pages>>
  BY DEF EndIteration
<1>2. Holders' = Holders /\ PoolPages' = PoolPages
  BY <1>1 DEF Holders, Held, PoolPages
<1>3. HandlesOK' /\ RowsOK' /\ TreeOK' /\ LocksOK' /\ TreePages' = PagesIn(tree)
  <2>1. HandlesOK'
    BY <1>1, <1>2 DEF MemoryInv, HandlesOK, HandleOK
  <2>2. RowsOK'
    BY <1>1, <1>2 DEF MemoryInv, RowsOK, RowPaged, Row, Shared
  <2>3. TreeOK'
    BY <1>1, <1>2 DEF MemoryInv, TreeOK
  <2>4. LocksOK'
    BY <1>1, <1>2 DEF MemoryInv, LocksOK
  <2> QED BY <1>1, <2>1, <2>2, <2>3, <2>4 DEF TreePages, PagesIn
<1>4. PICK N, H, T : N = PoolPages /\ H = Holders /\ T = PagesIn(tree)
  OBVIOUS
<1>5. PICK F, L, own : /\ Partition(F, L, T, own, H, N)
                       /\ Once(free_slots, F) /\ Once(lazy_free_list, L)
                       /\ free_slots \in Seq(N) /\ lazy_free_list \in Seq(N)
                       /\ \A v \in H : own[v] = Own(v)
  BY <1>4, FreeLists
<1>6. F \cap L = {} /\ Partition(F \cup L, {}, T, own, H, N)
  BY <1>5 DEF Partition
<1>7. free_slots \o lazy_free_list \in Seq(N) /\ Once(free_slots \o lazy_free_list, F \cup L)
  BY <1>5, <1>6, ConcatOnce
<1>8. \A v \in H : own[v] = Own(v)'
  <2>1. \A v \in H : Own(v)' = Own(v)
    BY <1>1 DEF Own, Row, Shared
  <2> QED BY <1>5, <2>1
<1>9. lazy_free_list' \in Seq(N) /\ Once(lazy_free_list', {})
  <2>1. PICK s : s = lazy_free_list' /\ s = <<>>
    BY <1>1
  <2>2. s \in Seq(N) /\ Len(s) = 0
    BY <2>1
  <2> QED BY <2>1, <2>2 DEF Once
<1>10. PagesOK' /\ FreeOK'
  <2>1. free_slots' \in Seq(N) /\ Once(free_slots', F \cup L) /\ T = TreePages' /\ N = PoolPages'
        /\ H = Holders'
    BY <1>1, <1>2, <1>3, <1>4, <1>7
  <2>2. pc' # "drain" => lazy_free_list' = <<>>
    BY <1>1
  <2> QED BY <1>6, <1>8, <1>9, <2>1, <2>2, PagesThen
<1> QED BY <1>3, <1>10 DEF PoolInv

\* The steps that touch no row, no page and no object.
LEMMA StillMemory ==
  ASSUME ControlInv, MemoryInv,
         EndReceive \/ RebuildRejected \/ ChunkMultimodal \/ Quiescent \/ UNCHANGED vars
  PROVE  PoolInv'
<1>1. UNCHANGED <<req, tree, page_table, free_slots, lazy_free_list, num_pages>>
  BY DEF EndReceive, RebuildRejected, ChunkMultimodal, Quiescent, vars, device, batches
<1>2. pc # "drain" \/ pc' = "drain"
  <2>1. CASE EndReceive
    BY <2>1 DEF EndReceive
  <2>2. CASE RebuildRejected
    BY <2>2 DEF RebuildRejected
  <2>3. CASE ChunkMultimodal
    BY <2>3 DEF ChunkMultimodal, Fits, CanTry
  <2>4. CASE Quiescent \/ UNCHANGED vars
    BY <2>4 DEF Quiescent, vars
  <2> QED BY <2>1, <2>2, <2>3, <2>4
<1> QED BY <1>1, <1>2, QuietMemory

\* The next chunk: row and handle stay, and the handle is on the prompt.
LEMMA ContinuationMemory ==
  ASSUME ControlInv, ContractInv, StreamInv, MemoryInv, AdmitContinuation
  PROVE  PoolInv'
<1>1. /\ CanTry /\ pc = "plan" /\ pc' = "plan" /\ candidate.chunked
      /\ UNCHANGED <<tree, page_table, free_slots, lazy_free_list, num_pages>>
  BY DEF AdmitContinuation, CanTry, batches
<1>2. PICK u \in Uids : u = candidate.uid /\ WaitingOK(candidate) /\ ~Processed(u)
  BY <1>1, Candidate
<1>3. Held(u) /\ req[u].chunked /\ req[u].cached_len <= Len(Prompt[u])
  BY <1>1, <1>2 DEF WaitingOK
<1>4. u \in Holders
  BY <1>3 DEF Holders
<1>5. PICK c \in Nat, ids \in Seq(Vocab), handle \in Seq(Vocab), t \in Tables :
        /\ c = req[u].cached_len /\ ids = req[u].input_ids /\ handle = req[u].handle
        /\ t = req[u].table_idx /\ IsPrefix(handle, ids) /\ Len(handle) <= c
  BY <1>4, HolderFacts DEF HolderOK
<1>6. PICK upto : upto = c + chunk_size(c)
  OBVIOUS
<1>7. /\ req' = [req EXCEPT ![u] =
               [n |-> req[u].n + 1, table_idx |-> t, cached_len |-> c, device_len |-> upto,
                output_len |-> candidate.output_len, input_ids |-> Prefix(Prompt[u], upto),
                handle |-> handle, chunked |-> is_chunked(c), aborted |-> FALSE]]
  BY <1>2, <1>5, <1>6 DEF AdmitContinuation, AddOne
<1>8. c \in 0 .. Len(Prompt[u]) /\ Prompt[u] \in Seq(Vocab)
  BY <1>3, <1>5, SchedulerAssumption
<1>9. upto \in 0 .. Len(Prompt[u]) /\ c <= upto
  <2>1. chunk_size(c) \in Nat /\ c + chunk_size(c) \in 0 .. Len(Prompt[u])
    BY <1>1, <1>2, <1>8, ChunkSize
  <2> QED BY <1>6, <2>1
<1>10. IsPrefix(handle, Prefix(Prompt[u], upto))
  <2>1. ids = Prefix(Prompt[u], c) /\ Len(ids) = c
    <3>1. ids = Prefix(Prompt[u], Len(ids)) /\ Len(ids) = c
      BY <1>2, <1>3, <1>5 DEF StreamInv, ChunksOK
    <3> QED BY <3>1
  <2>2. IsPrefix(ids, Prompt[u])
    BY <1>8, <2>1, PrefixProperties
  <2>3. IsPrefix(handle, Prompt[u])
    BY <1>5, <1>8, <2>2, PrefixTrans
  <2>4. /\ Prefix(Prompt[u], upto) \in Seq(Vocab) /\ Len(Prefix(Prompt[u], upto)) = upto
        /\ IsPrefix(Prefix(Prompt[u], upto), Prompt[u])
    BY <1>8, <1>9, PrefixProperties
  <2>5. Len(handle) <= Len(Prefix(Prompt[u], upto))
    BY <1>5, <1>9, <2>4
  <2> QED BY <1>8, <2>3, <2>4, <2>5, PrefixChain
<1>11. req \in [Uids -> Reqs]
  BY DEF ControlInv, ControlTypes
<1>12. PICK k \in Nat : k = req[u].n
  BY <1>11 DEF Reqs
<1>13. PICK s : s = req'[u]
  OBVIOUS
<1>14. /\ s.table_idx = t /\ s.handle = handle /\ s.cached_len = c
       /\ s.input_ids = Prefix(Prompt[u], upto)
       /\ \A v \in Uids \ {u} : req'[v] = req[v]
  BY <1>7, <1>11, <1>13
<1>15. \A v \in Uids : /\ req'[v].table_idx = req[v].table_idx
                       /\ req'[v].handle = req[v].handle
                       /\ req'[v].cached_len = req[v].cached_len
  BY <1>5, <1>13, <1>14
<1>16. \A v \in Holders : IsPrefix(req[v].handle, req'[v].input_ids)
  <2>1. \A v \in Holders : IsPrefix(req[v].handle, req[v].input_ids) /\ v \in Uids
    BY DEF MemoryInv, HandlesOK, HandleOK, Holders
  <2> QED BY <1>5, <1>10, <1>13, <1>14, <2>1
<1>17. lazy_free_list = <<>>
  BY <1>1 DEF MemoryInv, FreeOK
<1> QED BY <1>1, <1>15, <1>16, <1>17, NothingMoves

(* The empty cache is a tree that owns no page. *)
LEMMA EmptyIsTree ==
  ASSUME NEW N
  PROVE  TreeOf(EmptyTree, N) /\ PagesIn(EmptyTree) = {} /\ Nodes(EmptyTree) = {}
<1>1. PICK pg, rf : pg = [b \in {} |-> 0] /\ rf = [b \in {} |-> 0]
  OBVIOUS
<1>2. PICK tr : tr = EmptyTree
  OBVIOUS
<1>3. tr = [page |-> pg, ref |-> rf] /\ tr.page = pg /\ tr.ref = rf
  BY <1>1, <1>2 DEF EmptyTree
<1>4. Blocks(tr) = {} /\ Nodes(tr) = {}
  BY <1>1, <1>3 DEF Blocks, Nodes
<1>5. IsFiniteSet({})
  BY FS_EmptySet
<1>6. WellFormed(tr)
  BY <1>4, <1>5 DEF WellFormed
<1>7. pg \in [{} -> N] /\ rf \in [{} -> Nat]
  BY <1>1
<1>8. TreeOf(tr, N)
  BY <1>3, <1>4, <1>6, <1>7 DEF TreeOf, IsTree
<1> QED BY <1>2, <1>4, <1>8 DEF PagesIn

\* The pool as a fresh free list.
LEMMA AllPagesOnce ==
  ASSUME NEW n \in Nat
  PROVE  AllPages(n) \in Seq(0 .. n - 1) /\ Once(AllPages(n), 0 .. n - 1)
<1>1. PICK s : s = AllPages(n)
  OBVIOUS
<1>2. s = [i \in 1 .. n |-> i - 1]
  BY <1>1 DEF AllPages
<1>3. s \in Seq(0 .. n - 1) /\ Len(s) = n /\ \A i \in 1 .. n : s[i] = i - 1
  BY <1>2
<1>4. \A i, j \in 1 .. n : s[i] = s[j] => i = j
  BY <1>3
<1>5. {s[i] : i \in 1 .. n} = 0 .. n - 1
  <2>1. ASSUME NEW p \in 0 .. n - 1 PROVE \E i \in 1 .. n : s[i] = p
    <3>1. p + 1 \in 1 .. n /\ s[p + 1] = p
      BY <1>3
    <3> QED BY <3>1
  <2>2. \A i \in 1 .. n : s[i] \in 0 .. n - 1
    BY <1>3
  <2> QED BY <2>1, <2>2
<1> QED BY <1>1, <1>3, <1>4, <1>5 DEF Once

\* A state with nobody holding a row, every page free and an empty tree.
LEMMA FreshPool ==
  ASSUME Holders' = {}, tree' = EmptyTree, NEW n \in Nat, num_pages' = n,
         free_slots' = AllPages(n), lazy_free_list' = <<>>,
         page_table' = [t \in Tables |-> <<>>]
  PROVE  PoolInv'
<1>1. PICK N, nt, H, g : N = 0 .. n - 1 /\ nt = EmptyTree /\ H = {} /\ g = Handles
  OBVIOUS
<1>2. N = PoolPages' /\ H = Holders' /\ tree' = nt
  BY <1>1 DEF PoolPages
<1>3. TreeOf(nt, N) /\ PagesIn(nt) = {} /\ Nodes(nt) = {}
  BY <1>1, EmptyIsTree
<1>4. Counts(nt, g, H)
  BY <1>3 DEF Counts
<1>5. TreeOK' /\ LocksOK' /\ TreePages' = PagesIn(nt)
  <2>1. \A v \in H : g[v] = req'[v].handle
    BY <1>1
  <2> QED BY <1>2, <1>3, <1>4, <2>1, TreeThen
<1>6. free_slots' \in Seq(N) /\ Once(free_slots', N)
  BY <1>1, AllPagesOnce
<1>7. lazy_free_list' \in Seq(N) /\ Once(lazy_free_list', {})
  <2>1. PICK s : s = lazy_free_list' /\ s = <<>>
    OBVIOUS
  <2>2. s \in Seq(N) /\ Len(s) = 0
    BY <2>1
  <2> QED BY <2>1, <2>2 DEF Once
<1>8. PICK own : own = [u \in Uids |-> {}]
  OBVIOUS
<1>9. Partition(N, {}, {}, own, H, N)
  BY <1>1 DEF Partition
<1>10. PagesOK' /\ FreeOK'
  <2>1. {} = TreePages' /\ \A v \in H : own[v] = Own(v)'
    BY <1>1, <1>3, <1>5
  <2>2. pc' # "drain" => lazy_free_list' = <<>>
    OBVIOUS
  <2> QED BY <1>2, <1>6, <1>7, <1>9, <2>1, <2>2, PagesThen
<1>11. HandlesOK'
  BY DEF HandlesOK
<1>12. RowsOK'
  <2>1. page_table' \in [Tables -> Seq(PoolPages')]
    OBVIOUS
  <2> QED BY <2>1 DEF RowsOK
<1> QED BY <1>5, <1>10, <1>11, <1>12 DEF PoolInv

(* A rebuild empties the cache and puts every page of the new pool on the free
   list. *)
LEMMA RebuildMemory ==
  ASSUME ControlInv, MemoryInv, RebuildDone
  PROVE  PoolInv'
<1>1. /\ pc = "recv" /\ RebuildDue /\ num_pages' = pending_rebuild
      /\ free_slots' = AllPages(pending_rebuild) /\ tree' = EmptyTree
      /\ page_table' = [t \in Tables |-> <<>>]
      /\ UNCHANGED <<req, lazy_free_list>>
  BY DEF RebuildDone, batches
<1>2. Holders = {}
  BY <1>1, NobodyHolds
<1>3. Holders' = {}
  BY <1>1, <1>2 DEF Holders, Held
<1>4. lazy_free_list' = <<>>
  BY <1>1 DEF MemoryInv, FreeOK
<1>5. pending_rebuild \in Nat
  <2>1. pending_rebuild \in RebuildSizes
    BY <1>1 DEF RebuildDue, ControlInv, ControlTypes
  <2> QED BY <2>1, SchedulerAssumption
<1> QED BY <1>1, <1>3, <1>4, <1>5, FreshPool

(* The memory invariant holds of the initial states. *)
LEMMA InitMemory ==
  ASSUME Init
  PROVE  MemoryInv
<1>1. /\ tree = EmptyTree /\ num_pages = NumPages /\ free_slots = AllPages(NumPages)
      /\ lazy_free_list = <<>> /\ page_table = [t \in Tables |-> <<>>]
      /\ last_data = NoBatch /\ pending_list = <<>> /\ running_reqs = {}
  BY DEF Init
<1>2. Holders = {}
  BY DEF Init, Holders, Held, NoReq
<1>3. NumPages \in Nat /\ PoolPages = 0 .. NumPages - 1
  BY <1>1, SchedulerAssumption DEF PoolPages
<1>4. PICK nt, N : nt = EmptyTree /\ N = PoolPages
  OBVIOUS
<1>5. TreeOf(nt, N) /\ PagesIn(nt) = {} /\ Nodes(nt) = {}
  BY <1>4, EmptyIsTree
<1>6. TreeOK /\ TreePages = {}
  <2>1. TreeOf(tree, PoolPages) /\ PagesIn(tree) = {}
    BY <1>1, <1>4, <1>5
  <2> QED BY <2>1, TreeIs DEF TreePages, PagesIn
<1>7. LocksOK
  BY <1>1, <1>4, <1>5 DEF LocksOK
<1>8. free_slots \in Seq(PoolPages) /\ Once(free_slots, PoolPages)
  BY <1>1, <1>3, AllPagesOnce
<1>9. PICK s : s = lazy_free_list
  OBVIOUS
<1>10. s \in Seq(PoolPages) /\ Len(s) = 0 /\ s = <<>>
  BY <1>1, <1>9
<1>11. FreeOK
  BY <1>8, <1>9, <1>10 DEF FreeOK, Once
<1>12. PagesOK
  <2>1. {free_slots[i] : i \in 1 .. Len(free_slots)} = PoolPages
    BY <1>8 DEF Once
  <2>2. {lazy_free_list[i] : i \in 1 .. Len(lazy_free_list)} = {}
    BY <1>9, <1>10
  <2>3. PICK own : own = [u \in Uids |-> Own(u)]
    OBVIOUS
  <2>4. Partition(PoolPages, {}, {}, own, {}, PoolPages)
    BY DEF Partition
  <2> QED BY <1>2, <1>6, <2>1, <2>2, <2>3, <2>4 DEF PagesOK
<1>13. HandlesOK
  BY <1>2 DEF HandlesOK
<1>14. RowsOK
  <2>1. page_table \in [Tables -> Seq(PoolPages)]
    BY <1>1
  <2> QED BY <1>2, <2>1 DEF RowsOK
<1>15. IdleOK
  BY <1>1 DEF IdleOK, runnable, prefill_runnable, decode_runnable
<1> QED BY <1>6, <1>7, <1>11, <1>12, <1>13, <1>14, <1>15 DEF MemoryInv

(***************************************************************************)
(* Planning: the walk, and the admission of a request.                     *)
(***************************************************************************)

\* The tree with a node split somewhere: the same blocks, pages and locks.
Walked(st) ==
    /\ TreeOf(st, PoolPages) /\ PagesIn(st) = PagesIn(tree) /\ Blocks(st) = Blocks(tree)
    /\ Nodes(tree) \subseteq Nodes(st)
    /\ Points(st, Handles, Holders) /\ Counts(st, Handles, Holders)

(* The state's tree, in the form the walks of a plan keep. *)
LEMMA TreeWalked ==
  ASSUME ControlInv, MemoryInv
  PROVE  Walked(tree)
BY LocksAre DEF Walked

(* A prefix walk may split nodes, and keeps pages, locks and tree. *)
LEMMA WalkKeeps ==
  ASSUME ControlInv, MemoryInv, NEW ids \in Seq(Vocab)
  PROVE  /\ Walked(Walk(tree, ids).tree)
         /\ Walk(tree, ids).path \in Nodes(Walk(tree, ids).tree) \cup {<<>>}
         /\ Walk(tree, ids).path \in Seq(Vocab) /\ IsPrefix(Walk(tree, ids).path, ids)
<1>1. PICK tr, N, h, H : tr = tree /\ N = PoolPages /\ h = Handles /\ H = Holders
  OBVIOUS
<1>2. TreeOf(tr, N) /\ IsTree(tr, Vocab, N) /\ Points(tr, h, H) /\ Counts(tr, h, H)
  BY <1>1, LocksAre
<1>3. PICK k \in 0 .. Len(ids) :
        k = MatchLen(tr, ids) /\ (k # 0 => Prefix(ids, k) \in Blocks(tr))
  BY <1>2, MatchLenIs
<1>4. PICK at \in Seq(Vocab) : at = Prefix(ids, k) /\ IsPrefix(at, ids)
  BY <1>3, PrefixProperties
<1>5. at \in Blocks(tr) \cup {<<>>}
  BY <1>3, <1>4, PrefixEmpty
<1>6. PICK st : st = SplitAt(tr, at)
  OBVIOUS
<1>7. /\ IsTree(st, Vocab, N) /\ st.page = tr.page /\ Nodes(st) = Nodes(tr) \cup ({at} \ {<<>>})
  BY <1>2, <1>5, <1>6, SplitTree
<1>8. Points(st, h, H) /\ Counts(st, h, H)
  BY <1>2, <1>5, <1>6, CountsSplit
<1>9. Blocks(st) = Blocks(tr)
  BY <1>7 DEF Blocks
<1>10. TreeOf(st, N) /\ PagesIn(st) = PagesIn(tr)
  BY <1>2, <1>7, <1>9 DEF TreeOf, PagesIn
<1>11. Walked(st)
  BY <1>1, <1>7, <1>8, <1>9, <1>10 DEF Walked
<1>12. PICK w : w = Walk(tree, ids)
  OBVIOUS
<1>13. w.tree = st /\ w.path = at
  BY <1>1, <1>3, <1>4, <1>6, <1>12 DEF Walk
<1>14. at \in Nodes(st) \cup {<<>>}
  BY <1>7
<1>15. Walked(w.tree) /\ w.path \in Nodes(w.tree) \cup {<<>>} /\ w.path \in Seq(Vocab)
       /\ IsPrefix(w.path, ids)
  BY <1>4, <1>11, <1>13, <1>14
<1> QED BY <1>12, <1>15, Zenon

\* match_req: the handle is on the prompt, short of its last token.
LEMMA MatchWalked ==
  ASSUME ControlInv, MemoryInv, NEW u \in Uids
  PROVE  /\ Walked(match_req(u).tree)
         /\ match_req(u).path \in Nodes(match_req(u).tree) \cup {<<>>}
         /\ match_req(u).path \in Seq(Vocab) /\ IsPrefix(match_req(u).path, Prompt[u])
         /\ ~Shareable(u) => match_req(u).path = <<>>
<1>1. Prompt[u] \in Seq(Vocab) /\ Len(Prompt[u]) \in Nat \ {0}
  BY SchedulerAssumption
<1>2. PICK ids : ids = IF Shareable(u) THEN Front(Prompt[u]) ELSE <<>>
  OBVIOUS
<1>3. ids \in Seq(Vocab) /\ IsPrefix(ids, Prompt[u])
  <2>1. CASE Shareable(u)
    <3>1. ids = Prefix(Prompt[u], Len(Prompt[u]) - 1)
      BY <1>2, <2>1 DEF Front, Prefix
    <3>2. Len(Prompt[u]) - 1 \in 0 .. Len(Prompt[u])
      BY <1>1
    <3> QED BY <1>1, <3>1, <3>2, PrefixProperties
  <2>2. CASE ~Shareable(u)
    BY <1>1, <1>2, <2>2, PrefixEmpty
  <2> QED BY <2>1, <2>2
<1>4. PICK w : w = Walk(tree, ids)
  OBVIOUS
<1>5. /\ Walked(w.tree) /\ w.path \in Nodes(w.tree) \cup {<<>>}
      /\ w.path \in Seq(Vocab) /\ IsPrefix(w.path, ids)
  <2>1. /\ Walked(Walk(tree, ids).tree)
        /\ Walk(tree, ids).path \in Nodes(Walk(tree, ids).tree) \cup {<<>>}
        /\ Walk(tree, ids).path \in Seq(Vocab) /\ IsPrefix(Walk(tree, ids).path, ids)
    BY <1>3, WalkKeeps
  <2> QED BY <1>4, <2>1, Zenon
<1>6. PICK path \in Seq(Vocab) : path = w.path
  BY <1>5
<1>7. IsPrefix(path, Prompt[u])
  <2>1. IsPrefix(path, ids)
    BY <1>5, <1>6
  <2> QED BY <1>1, <1>3, <2>1, PrefixTrans
<1>8. ~Shareable(u) => path = <<>>
  BY <1>2, <1>3, <1>5, <1>6, PrefixEmpty
<1>9. match_req(u) = w
  BY <1>2, <1>4 DEF match_req, match_prefix
<1>10. /\ Walked(w.tree) /\ w.path \in Nodes(w.tree) \cup {<<>>}
       /\ w.path \in Seq(Vocab) /\ IsPrefix(w.path, Prompt[u])
       /\ ~Shareable(u) => w.path = <<>>
  BY <1>5, <1>6, <1>7, <1>8
<1> QED BY <1>9, <1>10, Zenon

(* The tree after the plan's walks owns the pages the tree owned and has the
   locks it had. *)
LEMMA PlanWalked ==
  ASSUME ControlInv, MemoryInv, pc = "plan"
  PROVE  Walked(tree_after_plan)
<1>1. CASE adder.rest = <<>> \/ adder.token_budget <= 0 \/ table_free = <<>> \/ candidate.chunked
  BY <1>1, TreeWalked DEF tree_after_plan
<1>2. CASE ~(adder.rest = <<>> \/ adder.token_budget <= 0 \/ table_free = <<>> \/ candidate.chunked)
  <2>1. PICK st : st = match_req(candidate.uid).tree
    OBVIOUS
  <2>2. tree_after_plan = st
    BY <1>2, <2>1 DEF tree_after_plan
  <2>3. candidate.uid \in Uids
    <3>1. CanTry
      BY <1>2 DEF CanTry, ControlInv, PlanOK, PlanTypes, Planning
    <3> QED BY <3>1, Candidate
  <2>4. PICK u \in Uids : u = candidate.uid
    BY <2>3
  <2>5. Walked(match_req(u).tree)
    BY MatchWalked
  <2> QED BY <2>1, <2>2, <2>4, <2>5, Zenon
<1> QED BY <1>1, <1>2

\* Nothing launched: at most the refused head's walk split a node.
LEMMA NoLaunchMemory ==
  ASSUME ControlInv, MemoryInv, NoLaunch
  PROVE  PoolInv'
<1>1. /\ pc = "plan" /\ pc' = "drain" /\ tree' = tree_after_plan
      /\ UNCHANGED <<req, page_table, free_slots, lazy_free_list, num_pages>>
  BY DEF NoLaunch, Refused, StartDrain
<1>2. PICK st : st = tree'
  OBVIOUS
<1>3. Walked(st)
  BY <1>1, <1>2, PlanWalked
<1>4. PICK N, H, g : N = PoolPages /\ H = Holders /\ g = Handles
  OBVIOUS
<1>5. /\ TreeOf(st, N) /\ PagesIn(st) = PagesIn(tree) /\ Nodes(tree) \subseteq Nodes(st)
      /\ Counts(st, g, H)
  BY <1>3, <1>4 DEF Walked
<1>6. Holders' = H /\ PoolPages' = N
  BY <1>1, <1>4 DEF Holders, Held, PoolPages
<1>7. \A v \in H : /\ HandleOK(v)' /\ RowPaged(v)' /\ Own(v)' = Own(v) /\ g[v] = req'[v].handle
  <2>1. ASSUME NEW v \in Holders
        PROVE  HandleOK(v)' /\ RowPaged(v)' /\ Own(v)' = Own(v) /\ Handles[v] = req'[v].handle
    <3>1. HandleOK(v)' /\ RowPaged(v)' /\ Own(v)' = Own(v)
      BY <1>1, <1>2, <1>5, HolderKeeps
    <3> QED BY <1>1, <3>1 DEF Handles, Holders
  <2> QED BY <1>4, <2>1
<1>8. TreeOK' /\ LocksOK' /\ TreePages' = PagesIn(st)
  BY <1>2, <1>5, <1>6, <1>7, TreeThen
<1>9. PICK F, L, own : /\ Partition(F, L, PagesIn(tree), own, H, N)
                       /\ Once(free_slots, F) /\ Once(lazy_free_list, L)
                       /\ free_slots \in Seq(N) /\ lazy_free_list \in Seq(N)
                       /\ \A v \in H : own[v] = Own(v)
  BY <1>4, FreeLists
<1>10. PagesOK' /\ FreeOK'
  <2>1. /\ free_slots' \in Seq(N) /\ Once(free_slots', F)
        /\ lazy_free_list' \in Seq(N) /\ Once(lazy_free_list', L)
        /\ PagesIn(tree) = TreePages' /\ N = PoolPages' /\ H = Holders'
        /\ \A v \in H : own[v] = Own(v)'
    BY <1>1, <1>5, <1>6, <1>7, <1>8, <1>9
  <2> QED BY <1>1, <1>9, <2>1, PagesThen
<1>11. HandlesOK' /\ RowsOK'
  <2>1. page_table' \in [Tables -> Seq(PoolPages')]
    BY <1>1, <1>4, <1>6 DEF MemoryInv, RowsOK
  <2> QED BY <1>6, <1>7, <2>1 DEF HandlesOK, RowsOK
<1> QED BY <1>8, <1>10, <1>11 DEF PoolInv

\* A fresh request takes a free row, with the matched pages locked under it.
LEMMA AdmitFreshMemory ==
  ASSUME ControlInv, MemoryInv, AdmitFresh
  PROVE  PoolInv'
<1>1. /\ Fits /\ CanTry /\ ~candidate.chunked /\ table_free # <<>> /\ pc = "plan" /\ pc' = "plan"
      /\ UNCHANGED <<free_slots, lazy_free_list, num_pages>>
  BY DEF AdmitFresh, Fits, CanTry, batches
<1>2. PICK u \in Uids : u = candidate.uid /\ WaitingOK(candidate) /\ ~Processed(u)
  BY <1>1, Candidate
<1>3. u \notin Holders
  <2>1. req[u].n = 0
    BY <1>1, <1>2 DEF WaitingOK
  <2> QED BY <2>1 DEF ControlInv, UnbornOK, Holders
<1>4. PICK mr : mr = match_req(u)
  OBVIOUS
<1>5. PICK st, path : st = mr.tree /\ path = mr.path /\ path \in Seq(Vocab)
  <2>1. match_req(u).path \in Seq(Vocab)
    BY MatchWalked
  <2> QED BY <1>4, <2>1
<1>6. /\ Walked(st) /\ path \in Nodes(st) \cup {<<>>}
      /\ IsPrefix(path, Prompt[u]) /\ (~Shareable(u) => path = <<>>)
  <2>1. /\ Walked(match_req(u).tree)
        /\ match_req(u).path \in Nodes(match_req(u).tree) \cup {<<>>}
        /\ match_req(u).path \in Seq(Vocab) /\ IsPrefix(match_req(u).path, Prompt[u])
        /\ ~Shareable(u) => match_req(u).path = <<>>
    BY MatchWalked
  <2> QED BY <1>4, <1>5, <2>1, Zenon
<1>7. PICK t \in Tables : t = Last(table_free) /\ \A v \in Holders : req[v].table_idx # t
  <2>1. table_free \in Seq(Tables) /\ Len(table_free) \in 1 .. Len(table_free)
    BY <1>1 DEF ControlInv, ControlTypes
  <2>2. Last(table_free) = table_free[Len(table_free)] /\ table_free[Len(table_free)] \in Tables
    BY <2>1 DEF Last
  <2> QED BY <2>1, <2>2 DEF ControlInv, TablesOK
<1>8. PICK c, upto : c = Len(path) /\ c \in Nat /\ upto = c + chunk_size(c)
  BY <1>5
<1>9. PICK row : row = get_matched_indices(st, path)
  OBVIOUS
<1>10. tree' = lock(st, path) /\ page_table' = [page_table EXCEPT ![t] = row]
  BY <1>2, <1>4, <1>5, <1>7, <1>9 DEF AdmitFresh
<1>11. req' = [req EXCEPT ![u] =
               [n |-> req[u].n + 1, table_idx |-> t, cached_len |-> c, device_len |-> upto,
                output_len |-> candidate.output_len, input_ids |-> Prefix(Prompt[u], upto),
                handle |-> path, chunked |-> is_chunked(c), aborted |-> FALSE]]
  BY <1>2, <1>4, <1>5, <1>7, <1>8 DEF AdmitFresh, AddOne
<1>12. req \in [Uids -> Reqs] /\ page_table \in [Tables -> Seq(PoolPages)]
  BY DEF ControlInv, ControlTypes, MemoryInv, RowsOK
<1>13. PICK s : s = req'[u]
  OBVIOUS
<1>14. /\ s.table_idx = t /\ s.handle = path /\ s.cached_len = c
       /\ s.input_ids = Prefix(Prompt[u], upto)
       /\ \A v \in Uids \ {u} : req'[v] = req[v]
  BY <1>11, <1>12, <1>13
<1>15. page_table'[t] = row /\ \A i \in Tables \ {t} : page_table'[i] = page_table[i]
  BY <1>10, <1>12
<1>16. PICK N, H, h : N = PoolPages /\ H = Holders /\ h = Handles
  OBVIOUS
<1>17. /\ TreeOf(st, N) /\ IsTree(st, Vocab, N) /\ PagesIn(st) = PagesIn(tree)
       /\ Nodes(tree) \subseteq Nodes(st) /\ Points(st, h, H) /\ Counts(st, h, H)
       /\ IsFiniteSet(H) /\ u \notin H
  BY <1>3, <1>6, <1>16, HoldersFinite DEF Walked, TreeOf
<1>18. PICK nt : nt = lock(st, path)
  OBVIOUS
<1>19. TreeOf(nt, N) /\ PagesIn(nt) = PagesIn(tree) /\ Nodes(nt) = Nodes(st)
  BY <1>17, <1>18, LockedPages
<1>20. PICK g : g = [v \in H \cup {u} |-> IF v = u THEN path ELSE h[v]]
  OBVIOUS
<1>21. g[u] = path /\ \A v \in H : g[v] = h[v]
  BY <1>17, <1>20
<1>22. Counts(nt, g, H \cup {u})
  BY <1>6, <1>17, <1>18, <1>21, CountsLock
<1>23. t # NoTable
  BY SchedulerAssumption DEF Tables, NoTable
<1>24. Holders' = H \cup {u} /\ PoolPages' = N
  <2>1. \A v \in Uids \ {u} : Held(v)' <=> Held(v)
    BY <1>14 DEF Held
  <2>2. Held(u)'
    BY <1>13, <1>14, <1>23 DEF Held
  <2> QED BY <1>1, <1>16, <2>1, <2>2 DEF Holders, PoolPages
<1>25. ASSUME NEW v \in H
       PROVE  HandleOK(v)' /\ RowPaged(v)' /\ Own(v)' = Own(v) /\ g[v] = req'[v].handle
  <2>1. v \in Holders /\ v # u /\ v \in Uids
    BY <1>16, <1>17 DEF Holders
  <2>2. req'[v] = req[v]
    BY <1>14, <2>1
  <2>3. req[v].table_idx \in Tables \ {t}
    BY <1>7, <2>1, HolderFacts DEF HolderOK
  <2>4. page_table'[req[v].table_idx] = page_table[req[v].table_idx]
    BY <1>15, <2>3
  <2>5. Nodes(tree) \subseteq Nodes(tree')
    BY <1>10, <1>17, <1>18, <1>19
  <2>6. HandleOK(v)' /\ RowPaged(v)' /\ Own(v)' = Own(v)
    BY <2>1, <2>2, <2>4, <2>5, HolderKeeps
  <2>7. h[v] = req'[v].handle
    BY <1>16, <2>1, <2>2 DEF Handles
  <2> QED BY <1>21, <2>6, <2>7
<1>26. /\ c % PageSize = 0 /\ row \in Seq(N) /\ Len(row) = c \div PageSize
  BY <1>6, <1>8, <1>9, <1>17, MatchedIndices
<1>27. Len(row) = CeilPages(c)
  <2>1. PICK i \in Nat : i = c \div PageSize /\ c = i * PageSize
    BY <1>8, <1>26, MultipleOf
  <2> QED BY <1>26, <2>1, CeilMultiple
<1>28. Prompt[u] \in Seq(Vocab) /\ c \in 0 .. Len(Prompt[u])
  BY <1>5, <1>6, <1>8, PrefixLength, SchedulerAssumption
<1>29. upto \in 0 .. Len(Prompt[u]) /\ c <= upto
  <2>1. chunk_size(c) \in Nat /\ c + chunk_size(c) \in 0 .. Len(Prompt[u])
    BY <1>1, <1>2, <1>28, ChunkSize
  <2> QED BY <1>8, <2>1
<1>30. IsPrefix(path, Prefix(Prompt[u], upto))
  <2>1. /\ Prefix(Prompt[u], upto) \in Seq(Vocab) /\ Len(Prefix(Prompt[u], upto)) = upto
        /\ IsPrefix(Prefix(Prompt[u], upto), Prompt[u])
    BY <1>28, <1>29, PrefixProperties
  <2>2. Len(path) <= Len(Prefix(Prompt[u], upto))
    BY <1>8, <1>29, <2>1
  <2> QED BY <1>5, <1>6, <1>28, <2>1, <2>2, PrefixChain
<1>31. Row(u)' = row /\ Shared(u)' = Len(row)
  BY <1>8, <1>13, <1>14, <1>15, <1>26 DEF Row, Shared
<1>32. HandleOK(u)'
  <2>1. path \in Nodes(tree') \cup {<<>>}
    BY <1>6, <1>10, <1>18, <1>19
  <2> QED BY <1>6, <1>8, <1>13, <1>14, <1>30, <2>1 DEF HandleOK, Shareable
<1>33. RowPaged(u)' /\ Own(u)' = {}
  <2>1. Len(row) + 1 .. Len(row) = {}
    BY <1>26
  <2> QED BY <1>13, <1>14, <1>27, <1>31, <2>1 DEF RowPaged, Own
<1>34. TreeOK' /\ LocksOK' /\ TreePages' = PagesIn(nt)
  <2>1. PICK G : G = H \cup {u}
    OBVIOUS
  <2>2. \A v \in G : g[v] = req'[v].handle
    BY <1>13, <1>14, <1>21, <1>25, <2>1
  <2>3. tree' = nt /\ N = PoolPages' /\ G = Holders' /\ Counts(nt, g, G)
    BY <1>10, <1>18, <1>22, <1>24, <2>1
  <2> QED BY <1>19, <2>2, <2>3, TreeThen
<1>35. PICK F, L, own : /\ Partition(F, L, PagesIn(tree), own, H, N)
                        /\ Once(free_slots, F) /\ Once(lazy_free_list, L)
                        /\ free_slots \in Seq(N) /\ lazy_free_list \in Seq(N)
                        /\ \A v \in H : own[v] = Own(v)
  BY <1>16, FreeLists
<1>36. PICK new : new = [v \in H \cup {u} |-> IF v = u THEN {} ELSE own[v]]
  OBVIOUS
<1>37. new[u] = {} /\ \A v \in H : new[v] = own[v]
  BY <1>17, <1>36
<1>38. PICK T : T = PagesIn(tree) /\ Partition(F, L, T, new, H \cup {u}, N)
  BY <1>17, <1>35, <1>37, PartitionAdmit
<1>39. PagesOK' /\ FreeOK'
  <2>1. PICK G : G = H \cup {u}
    OBVIOUS
  <2>2. \A v \in G : new[v] = Own(v)'
    BY <1>25, <1>33, <1>35, <1>37, <2>1
  <2>3. /\ free_slots' \in Seq(N) /\ Once(free_slots', F)
        /\ lazy_free_list' \in Seq(N) /\ Once(lazy_free_list', L)
        /\ T = TreePages' /\ N = PoolPages' /\ G = Holders' /\ Partition(F, L, T, new, G, N)
    BY <1>1, <1>19, <1>24, <1>34, <1>35, <1>38, <2>1
  <2>4. lazy_free_list' = <<>>
    BY <1>1 DEF MemoryInv, FreeOK
  <2> QED BY <2>2, <2>3, <2>4, PagesThen
<1>40. HandlesOK' /\ RowsOK'
  <2>1. page_table' \in [Tables -> Seq(PoolPages')]
    BY <1>10, <1>12, <1>16, <1>24, <1>26
  <2>2. \A v \in Holders' : HandleOK(v)' /\ RowPaged(v)'
    BY <1>24, <1>25, <1>32, <1>33
  <2> QED BY <2>1, <2>2 DEF HandlesOK, RowsOK
<1> QED BY <1>34, <1>39, <1>40 DEF PoolInv

(***************************************************************************)
(* The launch: allocate_paged hands each page of the free list, or of the  *)
(* tree's evicted nodes, to one row of the batch.                          *)
(***************************************************************************)

(***************************************************************************)
(* Counting the pages the entries of a batch take.                         *)
(***************************************************************************)

\* What PagesBefore counts: f[j] places of each entry before the i-th.
Places(f, i) == UNION {{j} \X (1 .. f[j]) : j \in 1 .. i - 1}

(* The places an entry takes follow those of the entries before it. *)
LEMMA PlacesStep ==
  ASSUME NEW n \in Nat, NEW m \in Nat, NEW f, \A j \in 1 .. n : f[j] \in 0 .. m
  PROVE  /\ \A i \in 1 .. n + 1 : IsFiniteSet(Places(f, i)) /\ Cardinality(Places(f, i)) \in Nat
         /\ Cardinality(Places(f, 1)) = 0
         /\ \A i \in 1 .. n : Cardinality(Places(f, i + 1)) = Cardinality(Places(f, i)) + f[i]
         /\ \A i, k \in 1 .. n + 1 : i <= k => Cardinality(Places(f, i)) <= Cardinality(Places(f, k))
<1>1. IsFiniteSet((1 .. n) \X (1 .. m))
  <2>1. 1 \in Int /\ n \in Int /\ m \in Int
    OBVIOUS
  <2>2. IsFiniteSet(1 .. n) /\ IsFiniteSet(1 .. m)
    BY <2>1, FS_Interval
  <2> QED BY <2>2, FS_Product
<1>2. ASSUME NEW i \in 1 .. n + 1
      PROVE  IsFiniteSet(Places(f, i)) /\ Cardinality(Places(f, i)) \in Nat
  <2>1. Places(f, i) \subseteq (1 .. n) \X (1 .. m)
    <3>1. \A j \in 1 .. i - 1 : j \in 1 .. n /\ 1 .. f[j] \subseteq 1 .. m
      OBVIOUS
    <3> QED BY <3>1 DEF Places
  <2> QED BY <1>1, <2>1, FS_Subset, FS_CardinalityType
<1>3. Cardinality(Places(f, 1)) = 0
  <2>1. Places(f, 1) = {}
    BY DEF Places
  <2> QED BY <2>1, FS_EmptySet
<1>4. ASSUME NEW i \in 1 .. n
      PROVE  Cardinality(Places(f, i + 1)) = Cardinality(Places(f, i)) + f[i]
  <2>1. PICK k \in Nat : k = f[i] /\ k \in Int
    OBVIOUS
  <2>2. PICK A, B : A = Places(f, i) /\ B = {i} \X (1 .. k)
    OBVIOUS
  <2>3. Places(f, i + 1) = A \cup B
    <3>1. 1 .. (i + 1) - 1 = (1 .. i - 1) \cup {i}
      OBVIOUS
    <3> QED BY <2>1, <2>2, <3>1 DEF Places
  <2>4. A \cap B = {}
    BY <2>2 DEF Places
  <2>5. IsFiniteSet(1 .. k) /\ Cardinality(1 .. k) = k
    <3>1. 1 \in Int
      OBVIOUS
    <3>2. IsFiniteSet(1 .. k) /\ Cardinality(1 .. k) = IF 1 > k THEN 0 ELSE k - 1 + 1
      BY <2>1, <3>1, FS_Interval
    <3> QED BY <3>2
  <2>6. IsFiniteSet({i}) /\ Cardinality({i}) = 1
    BY FS_Singleton
  <2>7. IsFiniteSet(B) /\ Cardinality(B) = 1 * k
    BY <2>2, <2>5, <2>6, FS_Product
  <2>8. i \in 1 .. n + 1
    OBVIOUS
  <2>9. IsFiniteSet(A) /\ Cardinality(A) \in Nat
    BY <1>2, <2>2, <2>8
  <2>10. Cardinality(A \cup B) = Cardinality(A) + Cardinality(B) - Cardinality(A \cap B)
    BY <2>7, <2>9, FS_Union
  <2>11. Cardinality(A \cap B) = 0
    BY <2>4, FS_EmptySet
  <2>12. Cardinality(A \cup B) = Cardinality(A) + k
    BY <2>1, <2>7, <2>9, <2>10, <2>11
  <2> QED BY <2>1, <2>2, <2>3, <2>12
<1>5. ASSUME NEW i \in 1 .. n + 1, NEW k \in 1 .. n + 1, i <= k
      PROVE  Cardinality(Places(f, i)) <= Cardinality(Places(f, k))
  <2>1. Places(f, i) \subseteq Places(f, k)
    <3>1. 1 .. i - 1 \subseteq 1 .. k - 1
      BY <1>5
    <3> QED BY <3>1 DEF Places
  <2> QED BY <1>2, <2>1, FS_Subset
<1> QED BY <1>2, <1>3, <1>4, <1>5

\* before[i] pages go to the entries before the i-th of n.
Running(before, f, n) ==
    /\ \A i \in 1 .. n + 1 : before[i] \in Nat
    /\ before[1] = 0
    /\ \A i \in 1 .. n : before[i + 1] = before[i] + f[i] /\ f[i] \in Nat
    /\ \A i, k \in 1 .. n + 1 : i <= k => before[i] <= before[k]

\* Every page allocated is some entry's.
LEMMA RunningCovers ==
  ASSUME NEW n \in Nat, NEW f, NEW before, Running(before, f, n), NEW p \in 1 .. before[n + 1]
  PROVE  \E i \in 1 .. n : p \in before[i] + 1 .. before[i + 1]
<1>1. /\ before[1] = 0 /\ \A i \in 1 .. n + 1 : before[i] \in Nat
  BY DEF Running
<1>2. PICK S : S = {i \in 1 .. n + 1 : before[i] < p}
  OBVIOUS
<1>3. 1 \in S /\ S \subseteq 0 .. n + 1 /\ n + 1 \in Nat
  BY <1>1, <1>2
<1>4. PICK i \in S : \A x \in S : x <= i
  <2>1. Max(S) \in S /\ \A x \in S : Max(S) >= x
    <3>1. S # {} /\ S \subseteq 0 .. n + 1 /\ n + 1 \in Nat
      BY <1>3
    <3> QED BY <3>1, MaxExists
  <2> QED BY <1>3, <2>1
<1>5. i \in 1 .. n + 1 /\ before[i] < p
  BY <1>2, <1>4
<1>6. i # n + 1
  <2>1. before[n + 1] \in Nat
    BY <1>1
  <2> QED BY <1>5, <2>1
<1>7. i \in 1 .. n /\ i + 1 \in 1 .. n + 1
  BY <1>5, <1>6
<1>8. i + 1 \notin S
  BY <1>4, <1>7
<1>9. before[i + 1] >= p
  BY <1>1, <1>2, <1>7, <1>8
<1>10. before[i] \in Nat /\ before[i + 1] \in Nat
  BY <1>1, <1>5, <1>7
<1> QED BY <1>5, <1>7, <1>9, <1>10

\* No page is two entries'.
LEMMA RunningApart ==
  ASSUME NEW n \in Nat, NEW f, NEW before, Running(before, f, n), NEW i \in 1 .. n, NEW k \in 1 .. n,
         NEW p \in before[i] + 1 .. before[i + 1], p \in before[k] + 1 .. before[k + 1]
  PROVE  i = k
<1>1. ASSUME NEW a \in 1 .. n, NEW b \in 1 .. n, a < b,
             p \in before[a] + 1 .. before[a + 1], p \in before[b] + 1 .. before[b + 1]
      PROVE  FALSE
  <2>1. a + 1 \in 1 .. n + 1 /\ b \in 1 .. n + 1 /\ a + 1 <= b /\ a \in 1 .. n + 1 /\ b + 1 \in 1 .. n + 1
    BY <1>1
  <2>2. /\ before[a + 1] <= before[b] /\ before[a + 1] \in Nat /\ before[b] \in Nat
        /\ before[a] \in Nat /\ before[b + 1] \in Nat
    BY <2>1 DEF Running
  <2> QED BY <1>1, <2>2
<1>2. CASE i < k
  BY <1>1, <1>2
<1>3. CASE k < i
  BY <1>1, <1>3
<1> QED BY <1>2, <1>3

(***************************************************************************)
(* What an eviction frees.                                                 *)
(***************************************************************************)

\* SetToSeq lists each member once.
LEMMA Enumerated ==
  ASSUME NEW N, NEW S \in SUBSET N, IsFiniteSet(S)
  PROVE  SetToSeq(S) \in Seq(N) /\ Len(SetToSeq(S)) = Cardinality(S) /\ Once(SetToSeq(S), S)
<1>1. PICK n \in Nat : n = Cardinality(S)
  BY FS_CardinalityType
<1>2. \E f \in [1 .. n -> S] : IsInjective(f)
  <2>1. ExistsBijection(1 .. n, S)
    BY <1>1, FS_CardinalityType
  <2> QED BY <2>1 DEF ExistsBijection, Bijection, Injection
<1>3. PICK s : s = SetToSeq(S)
  OBVIOUS
<1>4. s \in [1 .. n -> S] /\ IsInjective(s)
  BY <1>1, <1>2, <1>3 DEF SetToSeq
<1>5. s \in Surjection(1 .. n, S)
  <2>1. s \in Injection(1 .. n, S)
    BY <1>4 DEF Injection
  <2>2. Cardinality(1 .. n) = n
    <3>1. 1 \in Int /\ n \in Int
      OBVIOUS
    <3>2. Cardinality(1 .. n) = IF 1 > n THEN 0 ELSE n - 1 + 1
      BY <3>1, FS_Interval
    <3> QED BY <3>2
  <2> QED BY <1>1, <2>1, <2>2, FS_Injection
<1>6. s \in Seq(S) /\ Len(s) = n /\ s \in Seq(N)
  BY <1>4
<1>7. {s[i] : i \in 1 .. n} = S
  BY <1>4, <1>5 DEF Surjection
<1>8. \A i, j \in 1 .. n : s[i] = s[j] => i = j
  BY <1>4 DEF IsInjective
<1> QED BY <1>1, <1>3, <1>6, <1>7, <1>8 DEF Once

EdgesOf(tr, E) == UNION {BlocksOf(tr, n) : n \in E}

\* Evicting nodes frees as many pages as they have blocks.
LEMMA EvictedPages ==
  ASSUME NEW tr, NEW N, TreeOf(tr, N), NEW E \in SUBSET Nodes(tr)
  PROVE  /\ PagesOf(tr, E) \subseteq PagesIn(tr) /\ PagesIn(tr) \subseteq N
         /\ IsFiniteSet(PagesOf(tr, E))
         /\ Cardinality(PagesOf(tr, E)) = Cardinality(EdgesOf(tr, E))
<1>1. /\ IsTree(tr, Vocab, N) /\ \A b, c \in Blocks(tr) : tr.page[b] = tr.page[c] => b = c
      /\ tr.page \in [Blocks(tr) -> N] /\ IsFiniteSet(Blocks(tr))
  BY DEF TreeOf, IsTree, WellFormed
<1>2. PICK B, V : B = EdgesOf(tr, E) /\ V = PagesOf(tr, E)
  OBVIOUS
<1>3. B \subseteq Blocks(tr) /\ V = {tr.page[b] : b \in B}
  BY <1>2 DEF EdgesOf, BlocksOf, PagesOf
<1>4. IsFiniteSet(B)
  BY <1>1, <1>3, FS_Subset
<1>5. PICK f : f = [b \in B |-> tr.page[b]]
  OBVIOUS
<1>6. f \in Surjection(B, V) /\ f \in Injection(B, V)
  BY <1>1, <1>3, <1>5 DEF Surjection, Injection, IsInjective
<1>7. IsFiniteSet(V) /\ Cardinality(V) = Cardinality(B)
  BY <1>4, <1>6, FS_Surjection
<1>8. V \subseteq PagesIn(tr) /\ PagesIn(tr) \subseteq N
  BY <1>1, <1>3 DEF PagesIn
<1> QED BY <1>2, <1>7, <1>8

\* What is left of the tree is on the other pages.
LEMMA EvictedTree ==
  ASSUME NEW tr, NEW N, TreeOf(tr, N), NEW E \in SUBSET Nodes(tr),
         \A n \in E : Children(tr, n) \subseteq E
  PROVE  /\ TreeOf(RemoveNodes(tr, E), N)
         /\ PagesIn(RemoveNodes(tr, E)) = PagesIn(tr) \ PagesOf(tr, E)
<1>1. /\ IsTree(tr, Vocab, N) /\ \A b, c \in Blocks(tr) : tr.page[b] = tr.page[c] => b = c
  BY DEF TreeOf
<1>2. PICK st : st = RemoveNodes(tr, E)
  OBVIOUS
<1>3. /\ IsTree(st, Vocab, N) /\ Blocks(st) = {b \in Blocks(tr) : NodeOf(tr, b) \notin E}
      /\ \A b \in Blocks(st) : st.page[b] = tr.page[b]
  BY <1>1, <1>2, RemoveTree
<1>4. TreeOf(st, N)
  BY <1>1, <1>3 DEF TreeOf
<1>5. PagesOf(tr, E) = {tr.page[b] : b \in {c \in Blocks(tr) : NodeOf(tr, c) \in E}}
  <2>1. EdgesOf(tr, E) = {c \in Blocks(tr) : NodeOf(tr, c) \in E}
    BY DEF EdgesOf, BlocksOf
  <2> QED BY <2>1 DEF PagesOf, EdgesOf
<1>6. PagesIn(st) = PagesIn(tr) \ PagesOf(tr, E)
  <2>1. ASSUME NEW p \in PagesIn(st) PROVE p \in PagesIn(tr) \ PagesOf(tr, E)
    <3>1. PICK b \in Blocks(st) : p = st.page[b]
      BY <2>1 DEF PagesIn
    <3>2. b \in Blocks(tr) /\ NodeOf(tr, b) \notin E /\ p = tr.page[b]
      BY <1>3, <3>1
    <3>3. p \notin PagesOf(tr, E)
      BY <1>1, <1>5, <3>2
    <3> QED BY <3>2, <3>3 DEF PagesIn
  <2>2. ASSUME NEW p \in PagesIn(tr) \ PagesOf(tr, E) PROVE p \in PagesIn(st)
    <3>1. PICK b \in Blocks(tr) : p = tr.page[b]
      BY <2>2 DEF PagesIn
    <3>2. NodeOf(tr, b) \notin E
      BY <1>5, <2>2, <3>1
    <3>3. b \in Blocks(st) /\ p = st.page[b]
      BY <1>3, <3>1, <3>2
    <3> QED BY <3>3 DEF PagesIn
  <2> QED BY <2>1, <2>2
<1> QED BY <1>2, <1>4, <1>6, Zenon

\* An eviction for `short` pages finds them, in nodes nobody locks.
LEMMA EvictsEnough ==
  ASSUME NEW tr, NEW N, TreeOf(tr, N), NEW short \in Nat, NEW E \in Evictions(tr, short * PageSize)
  PROVE  /\ E \in SUBSET Nodes(tr)
         /\ \A n \in E : tr.ref[n] = 0 /\ Children(tr, n) \subseteq E
         /\ short <= Cardinality(PagesOf(tr, E)) /\ Cardinality(PagesOf(tr, E)) \in Nat
<1>1. /\ E \in SUBSET Nodes(tr) /\ \A n \in E : tr.ref[n] = 0 /\ Children(tr, n) \subseteq E
      /\ PageSize * Cardinality(UNION {BlocksOf(tr, n) : n \in E}) >= short * PageSize
  BY DEF Evictions
<1>2. /\ IsFiniteSet(PagesOf(tr, E))
      /\ Cardinality(PagesOf(tr, E)) = Cardinality(EdgesOf(tr, E))
  BY <1>1, EvictedPages
<1>3. PICK k \in Nat : k = Cardinality(PagesOf(tr, E))
  BY <1>2, FS_CardinalityType
<1>4. PageSize * k >= short * PageSize
  BY <1>1, <1>2, <1>3 DEF EdgesOf
<1>5. short * PageSize <= k * PageSize
  <2>1. k * PageSize = PageSize * k /\ k * PageSize \in Nat /\ short * PageSize \in Nat
    BY PageSizeAssumption
  <2> QED BY <1>4, <2>1
<1>6. short <= k
  BY <1>5, MultipleOrder
<1> QED BY <1>1, <1>3, <1>6

(***************************************************************************)
(* The rows of the batch.                                                  *)
(***************************************************************************)

\* A row with more pages after its own.
LEMMA RowGrows ==
  ASSUME NEW N, NEW row \in Seq(N), NEW k \in Nat, k <= Len(row), OwnOnce(row, k),
         NEW chunk \in Seq(N), NEW C, Once(chunk, C), RowPages(row, k, Len(row)) \cap C = {}
  PROVE  /\ row \o chunk \in Seq(N) /\ Len(row \o chunk) = Len(row) + Len(chunk)
         /\ OwnOnce(row \o chunk, k)
         /\ RowPages(row \o chunk, k, Len(row \o chunk)) = RowPages(row, k, Len(row)) \cup C
<1>1. PICK s : s = row \o chunk
  OBVIOUS
<1>2. /\ s \in Seq(N) /\ Len(s) = Len(row) + Len(chunk)
      /\ \A i \in 1 .. Len(row) : s[i] = row[i]
      /\ \A i \in 1 .. Len(chunk) : s[Len(row) + i] = chunk[i]
      /\ \A i \in 1 .. Len(s) : i \in 1 .. Len(row) \/ \E j \in 1 .. Len(chunk) : i = Len(row) + j
  <2>1. IsConcat(s, row, chunk, N)
    BY <1>1, ConcatTwo, Zenon
  <2> QED BY <2>1 DEF IsConcat
<1>3. PICK m \in Nat, n \in Nat : m = Len(row) /\ n = Len(chunk)
  OBVIOUS
<1>4. \A i \in k + 1 .. Len(s) : i \in k + 1 .. m \/ \E j \in 1 .. n : i = m + j
  <2>1. ASSUME NEW i \in k + 1 .. m + n PROVE i \in k + 1 .. m \/ \E j \in 1 .. n : i = m + j
    <3>1. i \in k + 1 .. m \/ (i - m \in 1 .. n /\ i = m + (i - m))
      OBVIOUS
    <3> QED BY <3>1
  <2> QED BY <1>2, <1>3, <2>1
<1>5. /\ \A i \in k + 1 .. m : s[i] = row[i] /\ row[i] \in RowPages(row, k, m)
      /\ \A j \in 1 .. n : s[m + j] = chunk[j] /\ chunk[j] \in C
  <2>1. \A i \in k + 1 .. m : i \in 1 .. m
    OBVIOUS
  <2> QED BY <1>2, <1>3, <2>1 DEF RowPages, Once
<1>6. ASSUME NEW i \in k + 1 .. Len(s), NEW j \in k + 1 .. Len(s), s[i] = s[j] PROVE i = j
  <2>1. CASE i \in k + 1 .. m /\ j \in k + 1 .. m
    BY <1>3, <1>5, <1>6, <2>1 DEF OwnOnce
  <2>2. CASE i \in k + 1 .. m /\ \E q \in 1 .. n : j = m + q
    BY <1>3, <1>5, <1>6, <2>2
  <2>3. CASE j \in k + 1 .. m /\ \E q \in 1 .. n : i = m + q
    BY <1>3, <1>5, <1>6, <2>3
  <2>4. CASE (\E q \in 1 .. n : i = m + q) /\ \E q \in 1 .. n : j = m + q
    <3>1. PICK a \in 1 .. n, b \in 1 .. n : i = m + a /\ j = m + b
      BY <2>4
    <3>2. chunk[a] = chunk[b]
      BY <1>5, <1>6, <3>1
    <3> QED BY <1>3, <3>1, <3>2 DEF Once
  <2> QED BY <1>4, <2>1, <2>2, <2>3, <2>4
<1>7. RowPages(s, k, Len(s)) = RowPages(row, k, m) \cup C
  <2>1. ASSUME NEW p \in RowPages(s, k, Len(s)) PROVE p \in RowPages(row, k, m) \cup C
    <3>1. PICK i \in k + 1 .. Len(s) : p = s[i]
      BY <2>1 DEF RowPages
    <3> QED BY <1>4, <1>5, <3>1
  <2>2. ASSUME NEW p \in RowPages(row, k, m) PROVE p \in RowPages(s, k, Len(s))
    <3>1. PICK i \in k + 1 .. m : p = row[i]
      BY <2>2 DEF RowPages
    <3>2. i \in k + 1 .. Len(s)
      BY <1>2, <1>3
    <3> QED BY <1>5, <3>1, <3>2 DEF RowPages
  <2>3. ASSUME NEW p \in C PROVE p \in RowPages(s, k, Len(s))
    <3>1. PICK j \in 1 .. n : p = chunk[j]
      BY <1>3, <2>3 DEF Once
    <3>2. m + j \in k + 1 .. Len(s)
      BY <1>2, <1>3
    <3> QED BY <1>5, <3>1, <3>2 DEF RowPages
  <2> QED BY <2>1, <2>2, <2>3
<1>8. OwnOnce(s, k)
  BY <1>6 DEF OwnOnce
<1>9. RowPages(s, k, Len(s)) = RowPages(row, k, Len(row)) \cup C
  BY <1>3, <1>7
<1> QED BY <1>1, <1>2, <1>8, <1>9, Zenon

\* Each entry of a batch takes the pages its new tokens need.
LEMMA EntryPages ==
  ASSUME ControlInv, StreamInv, pc = "plan", NEW rs \in Planned, NEW i \in 1 .. Len(rs)
  PROVE  /\ rs[i].uid \in Holders
         /\ req[rs[i].uid].cached_len \in Nat /\ req[rs[i].uid].device_len \in Nat
         /\ req[rs[i].uid].cached_len <= req[rs[i].uid].device_len
         /\ CeilPages(req[rs[i].uid].cached_len) \in Nat
         /\ new_pages(rs[i].uid) \in 0 .. CeilPages(ConfigMaxSeqLen)
         /\ CeilPages(req[rs[i].uid].device_len)
              = CeilPages(req[rs[i].uid].cached_len) + new_pages(rs[i].uid)
<1>1. PICK u \in Uids : u = rs[i].uid /\ Held(u)
  BY PlannedFacts
<1>2. PICK c \in Nat, d \in Nat : c = req[u].cached_len /\ d = req[u].device_len
  BY DEF ControlInv, ControlTypes, Reqs
<1>3. c <= d /\ d <= ConfigMaxSeqLen
  <2>1. req[u].n # 0
    BY <1>1 DEF ControlInv, UnbornOK
  <2>2. max_device_len(u) \in Int /\ ConfigMaxSeqLen \in Int
    <3>1. req[u] \in Reqs
      BY DEF ControlInv, ControlTypes
    <3>2. ConfigMaxSeqLen \in Nat /\ Prompt[u] \in Seq(Vocab)
      BY SchedulerAssumption
    <3>3. req[u].output_len \in Nat
      BY ONLY <3>1, <3>2 DEF Reqs
    <3>4. Len(Prompt[u]) \in Nat
      BY ONLY <3>2
    <3> QED BY ONLY <3>2, <3>3, <3>4 DEF max_device_len
  <2> QED BY <1>2, <2>1, <2>2 DEF StreamInv, BudgetsOK
<1>4. ConfigMaxSeqLen \in Nat
  BY SchedulerAssumption
<1>5. /\ CeilPages(c) \in Nat /\ CeilPages(d) \in Nat /\ CeilPages(ConfigMaxSeqLen) \in Nat
      /\ CeilPages(c) <= CeilPages(d) /\ CeilPages(d) <= CeilPages(ConfigMaxSeqLen)
  BY <1>3, <1>4, CeilIs, CeilOrder
<1>6. new_pages(u) = CeilPages(d) - CeilPages(c)
  BY <1>2 DEF new_pages
<1>7. /\ new_pages(u) \in 0 .. CeilPages(ConfigMaxSeqLen)
      /\ CeilPages(d) = CeilPages(c) + new_pages(u)
  BY <1>5, <1>6
<1> QED BY <1>1, <1>2, <1>3, <1>5, <1>7 DEF Holders

(* PagesBefore is the running count of the pages the batch asks for. *)
LEMMA BatchPages ==
  ASSUME ControlInv, StreamInv, pc = "plan", NEW rs \in Planned
  PROVE  /\ Len(rs) \in Nat /\ PagesBefore(rs, Len(rs) + 1) \in Nat
         /\ Running([i \in 1 .. Len(rs) + 1 |-> PagesBefore(rs, i)],
                    [i \in 1 .. Len(rs) |-> new_pages(rs[i].uid)], Len(rs))
<1>1. PICK n \in Nat : n = Len(rs)
  BY PlannedFacts
<1>2. PICK m \in Nat : m = CeilPages(ConfigMaxSeqLen)
  BY CeilIs, SchedulerAssumption
<1>3. PICK f : f = [i \in 1 .. n |-> new_pages(rs[i].uid)]
  OBVIOUS
<1>4. \A i \in 1 .. n : f[i] \in 0 .. m
  BY <1>1, <1>2, <1>3, EntryPages
<1>5. PICK before : before = [i \in 1 .. n + 1 |-> PagesBefore(rs, i)]
  OBVIOUS
<1>6. \A i \in 1 .. n + 1 : before[i] = Cardinality(Places(f, i))
  <2>1. ASSUME NEW i \in 1 .. n + 1 PROVE PagesBefore(rs, i) = Cardinality(Places(f, i))
    <3>1. \A j \in 1 .. i - 1 : f[j] = new_pages(rs[j].uid)
      BY <1>3
    <3> QED BY <3>1 DEF PagesBefore, Places
  <2> QED BY <1>5, <2>1
<1>7. /\ \A i \in 1 .. n + 1 : IsFiniteSet(Places(f, i)) /\ Cardinality(Places(f, i)) \in Nat
      /\ Cardinality(Places(f, 1)) = 0
      /\ \A i \in 1 .. n : Cardinality(Places(f, i + 1)) = Cardinality(Places(f, i)) + f[i]
      /\ \A i, k \in 1 .. n + 1 : i <= k => Cardinality(Places(f, i)) <= Cardinality(Places(f, k))
  BY <1>4, PlacesStep
<1>8. Running(before, f, n)
  <2>1. 1 \in 1 .. n + 1 /\ \A i \in 1 .. n : i \in 1 .. n + 1 /\ i + 1 \in 1 .. n + 1
    OBVIOUS
  <2>2. \A i \in 1 .. n : f[i] \in Nat
    BY <1>4
  <2> QED BY <1>6, <1>7, <2>1, <2>2 DEF Running
<1>9. PagesBefore(rs, n + 1) \in Nat
  <2>1. n + 1 \in 1 .. n + 1
    OBVIOUS
  <2> QED BY <1>5, <1>8, <2>1 DEF Running
<1> QED BY <1>1, <1>3, <1>5, <1>8, <1>9, Zenon

\* What allocate_paged takes its pages from: slots, of which n are needed.
SlotsOK(st, E, n, slots, F) ==
    /\ E \in SUBSET Nodes(st) /\ \A m \in E : st.ref[m] = 0 /\ Children(st, m) \subseteq E
    /\ PagesOf(st, E) \subseteq PagesIn(st)
    /\ slots \in Seq(PoolPages) /\ n <= Len(slots) /\ Once(slots, F \cup PagesOf(st, E))

\* The free list, with what is evicted for the pages it lacks, has enough.
LEMMA LaunchSlots ==
  ASSUME ControlInv, StreamInv, MemoryInv, pc = "plan", NEW rs \in Planned,
         NEW E \in IF missing_pages(rs) > 0
                   THEN Evictions(tree_after_plan, missing_pages(rs) * PageSize) ELSE {{}},
         NEW F, Once(free_slots, F), F \cap PagesIn(tree) = {}, free_slots \in Seq(PoolPages)
  PROVE  SlotsOK(tree_after_plan, E, PagesBefore(rs, Len(rs) + 1),
                 free_slots \o SetToSeq(PagesOf(tree_after_plan, E)), F)
<1>1. PICK st : st = tree_after_plan
  OBVIOUS
<1>2. TreeOf(st, PoolPages) /\ PagesIn(st) = PagesIn(tree)
  BY <1>1, PlanWalked DEF Walked
<1>3. PICK n \in Nat : n = PagesBefore(rs, Len(rs) + 1)
  BY BatchPages
<1>4. PICK N, V, vs, free : /\ N = PoolPages /\ V = PagesOf(st, E) /\ vs = SetToSeq(V)
                            /\ free = free_slots
  OBVIOUS
<1>5. free \in Seq(N) /\ Once(free, F) /\ Len(free) \in Nat
  BY <1>4
<1>6. PICK k \in Int : k = missing_pages(rs) /\ k = n - Len(free)
  BY <1>3, <1>4, <1>5 DEF missing_pages
<1>7. /\ E \in SUBSET Nodes(st) /\ \A m \in E : st.ref[m] = 0 /\ Children(st, m) \subseteq E
      /\ k <= Cardinality(V) /\ Cardinality(V) \in Nat
  <2>1. CASE k > 0
    <3>1. k \in Nat /\ E \in Evictions(st, k * PageSize)
      BY <1>1, <1>6, <2>1
    <3>2. /\ E \in SUBSET Nodes(st)
          /\ \A m \in E : st.ref[m] = 0 /\ Children(st, m) \subseteq E
          /\ k <= Cardinality(PagesOf(st, E)) /\ Cardinality(PagesOf(st, E)) \in Nat
      BY <1>2, <3>1, EvictsEnough
    <3> QED BY <1>4, <3>2
  <2>2. CASE ~(k > 0)
    <3>1. E = {}
      BY <1>6, <2>2
    <3>2. V = {}
      BY <1>4, <3>1 DEF PagesOf
    <3>3. Cardinality(V) = 0
      BY <3>2, FS_EmptySet
    <3> QED BY <2>2, <3>1, <3>3
  <2> QED BY <2>1, <2>2
<1>8. V \subseteq PagesIn(st) /\ V \subseteq N /\ IsFiniteSet(V)
  <2>1. PagesOf(st, E) \subseteq PagesIn(st) /\ PagesIn(st) \subseteq N /\ IsFiniteSet(PagesOf(st, E))
    <3>1. TreeOf(st, N) /\ E \in SUBSET Nodes(st)
      BY <1>2, <1>4, <1>7
    <3> QED BY <3>1, EvictedPages
  <2> QED BY <1>4, <2>1
<1>9. vs \in Seq(N) /\ Len(vs) = Cardinality(V) /\ Once(vs, V)
  BY <1>4, <1>8, Enumerated
<1>10. free \o vs \in Seq(N) /\ Once(free \o vs, F \cup V)
  <2>1. F \cap V = {}
    BY <1>2, <1>8
  <2> QED BY <1>5, <1>9, <2>1, ConcatOnce
<1>11. Len(free \o vs) = Len(free) + Len(vs)
  BY <1>5, <1>9
<1>12. n <= Len(free \o vs)
  BY <1>5, <1>6, <1>7, <1>9, <1>11
<1>13. SlotsOK(st, E, n, free \o vs, F)
  BY <1>4, <1>7, <1>8, <1>10, <1>12 DEF SlotsOK
<1> QED BY <1>1, <1>3, <1>4, <1>13, Zenon

\* What a launch does to the tree, the free list, the rows and the requests:
\* rs is its batch, E what it evicts, and the first n of slots go to the batch.
Launched(rs, E, slots, n) ==
    /\ tree' = RemoveNodes(tree_after_plan, E)
    /\ free_slots' = SubSeq(slots, n + 1, Len(slots))
    /\ DOMAIN page_table' = Tables
    /\ page_table' = [t \in Tables |-> page_table'[t]]
    /\ \A i \in 1 .. Len(rs) :
         /\ page_table'[req[rs[i].uid].table_idx] = RowAfter(rs, i, SubSeq(slots, 1, n))
         /\ req'[rs[i].uid] = [req[rs[i].uid] EXCEPT !.cached_len = req[rs[i].uid].device_len,
                                                     !.device_len = @ + 1]
    /\ \A t \in Tables : (\A i \in 1 .. Len(rs) : req[rs[i].uid].table_idx # t)
                           => page_table'[t] = page_table[t]
    /\ \A u \in Uids : (\A i \in 1 .. Len(rs) : rs[i].uid # u) => req'[u] = req[u]

(* The forward of a batch, in that form. *)
LEMMA ForwardUpdates ==
  ASSUME ControlInv, pc = "plan", NEW rs \in Planned, NEW E, NEW sampled, Forward(rs, E, sampled)
  PROVE  Launched(rs, E, free_slots \o SetToSeq(PagesOf(tree_after_plan, E)),
                  PagesBefore(rs, Len(rs) + 1))
<1>1. /\ Len(rs) \in Nat /\ Distinct(rs)
      /\ \A i \in 1 .. Len(rs) : rs[i].uid \in Uids /\ Held(rs[i].uid)
  BY PlannedFacts
<1>2. PICK slots, n : /\ slots = free_slots \o SetToSeq(PagesOf(tree_after_plan, E))
                      /\ n = PagesBefore(rs, Len(rs) + 1)
  OBVIOUS
<1> DEFINE At(t)   == CHOOSE i \in 1 .. Len(rs) : req[rs[i].uid].table_idx = t
           InIt(t) == \E i \in 1 .. Len(rs) : req[rs[i].uid].table_idx = t
           Us      == {rs[i].uid : i \in 1 .. Len(rs)}
           Alloc   == SubSeq(slots, 1, n)
           Then(u) == [req[u] EXCEPT !.cached_len = req[u].device_len, !.device_len = @ + 1]
<1>3. /\ tree' = RemoveNodes(tree_after_plan, E)
      /\ free_slots' = SubSeq(slots, n + 1, Len(slots))
      /\ page_table' = [t \in Tables |-> IF InIt(t) THEN RowAfter(rs, At(t), Alloc) ELSE page_table[t]]
      /\ req' = [u \in Uids |-> IF u \in Us THEN Then(u) ELSE req[u]]
  BY <1>2, Zenon DEF Forward
<1>4. \A t : InIt(t) => At(t) \in 1 .. Len(rs) /\ req[rs[At(t)].uid].table_idx = t
  OBVIOUS
<1>5. ASSUME NEW i \in 1 .. Len(rs)
      PROVE  /\ req[rs[i].uid].table_idx \in Tables
             /\ InIt(req[rs[i].uid].table_idx) /\ At(req[rs[i].uid].table_idx) = i
  <2>1. /\ \A j \in 1 .. Len(rs) : rs[j].uid \in Holders
        /\ \A u, v \in Holders : req[u].table_idx = req[v].table_idx => u = v
    BY <1>1 DEF ControlInv, TablesOK, Holders
  <2>2. req[rs[i].uid].table_idx \in Tables
    BY <1>1 DEF ControlInv, ControlTypes, Reqs, Held
  <2>3. PICK t \in Tables : t = req[rs[i].uid].table_idx /\ InIt(t)
    BY <2>2
  <2>4. PICK k \in 1 .. Len(rs) : k = At(t) /\ req[rs[k].uid].table_idx = t
    BY <1>4, <2>3
  <2>5. rs[k].uid = rs[i].uid
    BY <2>1, <2>3, <2>4
  <2>6. k = i
    BY <1>1, <2>5 DEF Distinct
  <2> HIDE DEF At, InIt
  <2> QED BY <2>3, <2>4, <2>6
<1> HIDE DEF At
<1>6. ASSUME NEW i \in 1 .. Len(rs)
       PROVE  /\ page_table'[req[rs[i].uid].table_idx] = RowAfter(rs, i, Alloc)
              /\ req'[rs[i].uid] = Then(rs[i].uid)
  <2>1. PICK u \in Uids, t \in Tables : u = rs[i].uid /\ t = req[u].table_idx /\ InIt(t) /\ At(t) = i
    BY <1>1, <1>5
  <2>2. u \in Us
    BY <2>1
  <2> HIDE DEF InIt, Us, Alloc, Then
  <2>3. page_table'[t] = RowAfter(rs, i, Alloc)
    BY <1>3, <2>1
  <2>4. req'[u] = Then(u)
    BY <1>3, <2>1, <2>2
  <2> QED BY <2>1, <2>3, <2>4
<1>7. ASSUME NEW t \in Tables, \A i \in 1 .. Len(rs) : req[rs[i].uid].table_idx # t
       PROVE  page_table'[t] = page_table[t]
  <2>1. ~InIt(t)
    BY <1>7
  <2> HIDE DEF InIt
  <2> QED BY <1>3, <2>1
<1>8. ASSUME NEW u \in Uids, \A i \in 1 .. Len(rs) : rs[i].uid # u
       PROVE  req'[u] = req[u]
  <2>1. u \notin Us
    BY <1>8
  <2> HIDE DEF Us, Then
  <2> QED BY <1>3, <2>1
<1>9. DOMAIN page_table' = Tables /\ page_table' = [t \in Tables |-> page_table'[t]]
  <2> HIDE DEF InIt, Alloc
  <2> QED BY <1>3
<1>10. Launched(rs, E, slots, n)
  BY <1>3, <1>6, <1>7, <1>8, <1>9 DEF Launched
<1> QED BY <1>2, <1>10, Zenon

(* Launch, in the form the lemma on any launch takes. *)
LEMMA LaunchUpdates ==
  ASSUME ControlInv, Launch
  PROVE  /\ pc = "plan" /\ pc' = "drain" /\ UNCHANGED <<lazy_free_list, num_pages>>
         /\ \E rs \in Planned :
              \E E \in IF missing_pages(rs) > 0
                       THEN Evictions(tree_after_plan, missing_pages(rs) * PageSize) ELSE {{}} :
                Launched(rs, E, free_slots \o SetToSeq(PagesOf(tree_after_plan, E)),
                         PagesBefore(rs, Len(rs) + 1))
<1>1. pc = "plan" /\ pc' = "drain" /\ UNCHANGED <<lazy_free_list, num_pages>>
  BY DEF Launch, Refused, StartDrain
<1>2. PICK rs \in Planned :
        \E E \in IF missing_pages(rs) > 0
                 THEN Evictions(tree_after_plan, missing_pages(rs) * PageSize) ELSE {{}} :
          \E sampled : Forward(rs, E, sampled)
  BY Zenon DEF Launch
<1>3. PICK E \in IF missing_pages(rs) > 0
                 THEN Evictions(tree_after_plan, missing_pages(rs) * PageSize) ELSE {{}} :
        \E sampled : Forward(rs, E, sampled)
  BY <1>2
<1>4. PICK sampled : Forward(rs, E, sampled)
  BY <1>3
<1>5. Launched(rs, E, free_slots \o SetToSeq(PagesOf(tree_after_plan, E)),
               PagesBefore(rs, Len(rs) + 1))
  BY <1>1, <1>4, ForwardUpdates
<1> QED BY <1>1, <1>3, <1>5, Zenon

\* An entry's row has its own pages and the ones it is given.
Grown(v, row, alloc, a, b) ==
    /\ row \in Seq(PoolPages) /\ Len(row) = CeilPages(req[v].cached_len) + (b - a)
    /\ OwnOnce(row, Shared(v))
    /\ RowPages(row, Shared(v), Len(row)) = Own(v) \cup RowPages(alloc, a, b)

(* A row grown by pages that were nobody's holds each of its own pages once. *)
LEMMA EntryRow ==
  ASSUME ControlInv, MemoryInv, NEW v \in Holders, NEW alloc \in Seq(PoolPages),
         NEW a \in Nat, NEW b \in Nat, a <= b, b <= Len(alloc), OwnOnce(alloc, 0),
         Own(v) \cap RowPages(alloc, a, b) = {},
         NEW row, row = Prefix(Row(v), CeilPages(req[v].cached_len)) \o SubSeq(alloc, a + 1, b)
  PROVE  Grown(v, row, alloc, a, b)
<1>1. PICK N : N = PoolPages
  OBVIOUS
<1>2. PICK old \in Seq(N) : old = Row(v)
  BY <1>1, HolderFacts DEF HolderOK
<1>3. PICK k \in Nat : k = Shared(v)
  BY HolderFacts DEF HolderOK
<1>4. /\ k <= Len(old) /\ Len(old) = CeilPages(req[v].cached_len) /\ OwnOnce(old, k)
      /\ Own(v) = RowPages(old, k, Len(old))
  BY <1>2, <1>3, HolderFacts DEF HolderOK
<1>5. Prefix(old, CeilPages(req[v].cached_len)) = old
  BY <1>4 DEF Prefix
<1>6. PICK chunk, C : chunk = SubSeq(alloc, a + 1, b) /\ C = RowPages(alloc, a, b)
  OBVIOUS
<1>7. chunk \in Seq(N) /\ Once(chunk, C)
  <2>1. SubSeq(alloc, a + 1, b) \in Seq(N) /\ Once(SubSeq(alloc, a + 1, b), RowPages(alloc, a, b))
    <3>1. 0 \in Nat /\ 0 <= a
      OBVIOUS
    <3> QED BY <1>1, <3>1, SliceOnce
  <2> QED BY <1>6, <2>1
<1>8. Len(chunk) = b - a
  BY <1>6
<1>9. RowPages(old, k, Len(old)) \cap C = {}
  BY <1>4, <1>6
<1>10. /\ old \o chunk \in Seq(N) /\ Len(old \o chunk) = Len(old) + Len(chunk)
       /\ OwnOnce(old \o chunk, k)
       /\ RowPages(old \o chunk, k, Len(old \o chunk)) = RowPages(old, k, Len(old)) \cup C
  BY <1>4, <1>7, <1>9, RowGrows
<1>11. row = old \o chunk
  BY <1>2, <1>5, <1>6
<1>12. /\ row \in Seq(N) /\ Len(row) = Len(old) + (b - a) /\ OwnOnce(row, k)
       /\ RowPages(row, k, Len(row)) = RowPages(old, k, Len(old)) \cup C
  BY <1>8, <1>10, <1>11
<1> QED BY <1>1, <1>3, <1>4, <1>6, <1>12 DEF Grown

\* A launched request computes every token it has, and is otherwise the same.
LEMMA LaunchedReq ==
  ASSUME NEW v \in Uids, ControlInv,
         req'[v] = [req[v] EXCEPT !.cached_len = req[v].device_len, !.device_len = @ + 1]
  PROVE  /\ req'[v].cached_len = req[v].device_len /\ req'[v].handle = req[v].handle
         /\ req'[v].table_idx = req[v].table_idx /\ req'[v].input_ids = req[v].input_ids
<1>1. req[v] \in Reqs
  BY DEF ControlInv, ControlTypes
<1> QED BY <1>1 DEF Reqs

\* alloc has the first of the pages of S in slots, and rest the others.
CutOK(N, slots, short, S, alloc, rest) ==
    LET left == RowPages(slots, short, Len(slots))
    IN  /\ alloc \in Seq(N) /\ Len(alloc) = short /\ OwnOnce(alloc, 0)
        /\ rest \in Seq(N) /\ Once(rest, left)
        /\ left \cup RowPages(alloc, 0, short) = S /\ left \cap RowPages(alloc, 0, short) = {}

(* The free slots cut in two: what the batch takes and what stays. *)
LEMMA SlotsCut ==
  ASSUME NEW N, NEW slots \in Seq(N), NEW short \in Nat, short <= Len(slots), NEW S, Once(slots, S),
         NEW alloc, alloc = SubSeq(slots, 1, short),
         NEW rest, rest = SubSeq(slots, short + 1, Len(slots))
  PROVE  CutOK(N, slots, short, S, alloc, rest)
<1>1. PICK m \in Nat : m = Len(slots)
  OBVIOUS
<1>2. /\ \A i, j \in 1 .. m : slots[i] = slots[j] => i = j
      /\ S = {slots[i] : i \in 1 .. m}
  BY <1>1 DEF Once
<1>3. alloc \in Seq(N) /\ Len(alloc) = short /\ \A i \in 1 .. short : alloc[i] = slots[i]
  <2>1. \A i \in 1 .. short : slots[i] \in N
    OBVIOUS
  <2> QED BY <2>1
<1>4. \A i \in 1 .. short : i \in 1 .. m
  BY <1>1
<1>5. OwnOnce(alloc, 0)
  <2>1. 0 + 1 .. Len(alloc) = 1 .. short
    BY <1>3
  <2>2. ASSUME NEW i \in 1 .. short, NEW j \in 1 .. short, alloc[i] = alloc[j] PROVE i = j
    <3>1. slots[i] = slots[j] /\ i \in 1 .. m /\ j \in 1 .. m
      BY ONLY <1>3, <1>4, <2>2
    <3> QED BY ONLY <1>2, <3>1
  <2> QED BY ONLY <2>1, <2>2 DEF OwnOnce
<1>6. rest \in Seq(N) /\ Once(rest, RowPages(slots, short, m))
  <2>1. OwnOnce(slots, short)
    <3>1. \A i \in short + 1 .. m : i \in 1 .. m
      OBVIOUS
    <3> QED BY <1>1, <1>2, <3>1 DEF OwnOnce
  <2>2. PICK a, b \in Nat : a = short /\ b = m
    OBVIOUS
  <2>3. SubSeq(slots, a + 1, b) \in Seq(N) /\ Once(SubSeq(slots, a + 1, b), RowPages(slots, a, b))
    <3>1. a <= a /\ a <= b /\ b <= Len(slots) /\ OwnOnce(slots, a)
      BY <1>1, <2>1, <2>2
    <3> QED BY <3>1, SliceOnce
  <2> QED BY <1>1, <2>2, <2>3, Zenon
<1>7. RowPages(alloc, 0, short) = {slots[i] : i \in 1 .. short}
  <2>1. 0 + 1 .. short = 1 .. short
    OBVIOUS
  <2> QED BY <1>3, <2>1 DEF RowPages
<1>8. RowPages(slots, short, m) \cup RowPages(alloc, 0, short) = S
  <2>1. 1 .. m = (short + 1 .. m) \cup (1 .. short)
    BY <1>1
  <2> QED BY <1>2, <1>7, <2>1 DEF RowPages
<1>9. RowPages(slots, short, m) \cap RowPages(alloc, 0, short) = {}
  <2>1. \A i \in short + 1 .. m, j \in 1 .. short : i \in 1 .. m /\ j \in 1 .. m /\ i # j
    BY <1>1
  <2> QED BY <1>2, <1>7, <2>1 DEF RowPages
<1> QED BY <1>1, <1>3, <1>5, <1>6, <1>8, <1>9 DEF CutOK

\* What each holder is given of the pages allocated.
Given(rs, before, alloc, v) ==
    {alloc[p] : p \in {q \in 1 .. Len(alloc) :
                         \E i \in 1 .. Len(rs) : rs[i].uid = v /\ q \in before[i] + 1 .. before[i + 1]}}

\* Every page goes to one entry, and to one only.
GivenOK(rs, before, alloc, H) ==
    /\ \A i \in 1 .. Len(rs) :
         Given(rs, before, alloc, rs[i].uid) = RowPages(alloc, before[i], before[i + 1])
    /\ \A v \in H : (\A i \in 1 .. Len(rs) : rs[i].uid # v) => Given(rs, before, alloc, v) = {}
    /\ UNION {Given(rs, before, alloc, v) : v \in H} = RowPages(alloc, 0, Len(alloc))
    /\ \A w, v \in H : w # v => Given(rs, before, alloc, w) \cap Given(rs, before, alloc, v) = {}

(* Two entries of a batch are never given the same page. *)
LEMMA GivenApart ==
  ASSUME NEW N, NEW rs, Len(rs) \in Nat, Distinct(rs), NEW f, NEW before, Running(before, f, Len(rs)),
         NEW alloc \in Seq(N), Len(alloc) = before[Len(rs) + 1], OwnOnce(alloc, 0),
         NEW H, \A i \in 1 .. Len(rs) : rs[i].uid \in H
  PROVE  GivenOK(rs, before, alloc, H)
<1>1. PICK n \in Nat, m \in Nat : n = Len(rs) /\ m = Len(alloc) /\ m = before[n + 1]
  OBVIOUS
<1>2. /\ \A i \in 1 .. n : before[i] \in Nat /\ before[i + 1] \in Nat /\ before[i + 1] <= m
      /\ Running(before, f, n)
  <2>1. \A i \in 1 .. n : i \in 1 .. n + 1 /\ i + 1 \in 1 .. n + 1 /\ i + 1 <= n + 1
    OBVIOUS
  <2>2. n + 1 \in 1 .. n + 1
    OBVIOUS
  <2> QED BY <1>1, <2>1, <2>2 DEF Running
<1>3. \A i \in 1 .. n : \A q \in before[i] + 1 .. before[i + 1] : q \in 1 .. m
  BY <1>1, <1>2
<1>4. ASSUME NEW i \in 1 .. n
      PROVE  Given(rs, before, alloc, rs[i].uid) = RowPages(alloc, before[i], before[i + 1])
  <2>1. \A k \in 1 .. n : rs[k].uid = rs[i].uid => k = i
    BY <1>1 DEF Distinct
  <2> QED BY <1>1, <1>3, <2>1 DEF Given, RowPages
<1>5. ASSUME NEW v, \A i \in 1 .. n : rs[i].uid # v PROVE Given(rs, before, alloc, v) = {}
  BY <1>1, <1>5 DEF Given
<1>6. \A v \in H : Given(rs, before, alloc, v) \subseteq RowPages(alloc, 0, m)
  <2>1. \A q \in 1 .. m : q \in 0 + 1 .. m
    OBVIOUS
  <2> QED BY <1>1, <2>1 DEF Given, RowPages
<1>7. ASSUME NEW x \in RowPages(alloc, 0, m) PROVE \E v \in H : x \in Given(rs, before, alloc, v)
  <2>1. PICK p \in 1 .. m : x = alloc[p]
    BY DEF RowPages
  <2>2. PICK i \in 1 .. n : p \in before[i] + 1 .. before[i + 1]
    <3>1. p \in 1 .. before[n + 1]
      BY <1>1
    <3> QED BY <1>2, <3>1, RunningCovers
  <2>3. x \in Given(rs, before, alloc, rs[i].uid)
    BY <1>1, <2>1, <2>2 DEF Given
  <2> QED BY <1>1, <2>3
<1>8. ASSUME NEW w \in H, NEW v \in H, NEW x, x \in Given(rs, before, alloc, w),
             x \in Given(rs, before, alloc, v)
      PROVE  w = v
  <2>1. PICK p \in 1 .. m, i \in 1 .. n :
          x = alloc[p] /\ rs[i].uid = w /\ p \in before[i] + 1 .. before[i + 1]
    BY <1>1, <1>8 DEF Given
  <2>2. PICK q \in 1 .. m, k \in 1 .. n :
          x = alloc[q] /\ rs[k].uid = v /\ q \in before[k] + 1 .. before[k + 1]
    BY <1>1, <1>8 DEF Given
  <2>3. p = q
    <3>1. p \in 0 + 1 .. Len(alloc) /\ q \in 0 + 1 .. Len(alloc)
      BY <1>1
    <3> QED BY <2>1, <2>2, <3>1 DEF OwnOnce
  <2>4. i = k
    BY <1>2, <2>1, <2>2, <2>3, RunningApart
  <2> QED BY <2>1, <2>2, <2>4
<1>9. UNION {Given(rs, before, alloc, v) : v \in H} = RowPages(alloc, 0, m)
  <2>1. ASSUME NEW x \in RowPages(alloc, 0, m) PROVE x \in UNION {Given(rs, before, alloc, v) : v \in H}
    BY <1>7, <2>1
  <2>2. ASSUME NEW x \in UNION {Given(rs, before, alloc, v) : v \in H} PROVE x \in RowPages(alloc, 0, m)
    BY <1>6, <2>2
  <2> QED BY <2>1, <2>2
<1>10. \A w, v \in H : w # v => Given(rs, before, alloc, w) \cap Given(rs, before, alloc, v) = {}
  BY <1>8
<1> QED BY <1>1, <1>4, <1>5, <1>9, <1>10 DEF GivenOK

\* A launch moves pages from the free list and the tree to the rows of the batch.
LEMMA LaunchMemory ==
  ASSUME ControlInv, StreamInv, MemoryInv, Launch
  PROVE  PoolInv'
<1>1. pc = "plan" /\ pc' = "drain" /\ UNCHANGED <<lazy_free_list, num_pages>>
  BY LaunchUpdates
<1>2. PICK rs \in Planned :
        \E E \in IF missing_pages(rs) > 0
                 THEN Evictions(tree_after_plan, missing_pages(rs) * PageSize) ELSE {{}} :
          Launched(rs, E, free_slots \o SetToSeq(PagesOf(tree_after_plan, E)),
                   PagesBefore(rs, Len(rs) + 1))
  BY LaunchUpdates, Zenon
<1>3. PICK E \in IF missing_pages(rs) > 0
                 THEN Evictions(tree_after_plan, missing_pages(rs) * PageSize) ELSE {{}} :
        Launched(rs, E, free_slots \o SetToSeq(PagesOf(tree_after_plan, E)),
                 PagesBefore(rs, Len(rs) + 1))
  BY <1>2, Zenon
<1>4. PICK st, N, H, h : st = tree_after_plan /\ N = PoolPages /\ H = Holders /\ h = Handles
  OBVIOUS
<1>5. /\ TreeOf(st, N) /\ IsTree(st, Vocab, N) /\ PagesIn(st) = PagesIn(tree)
      /\ Nodes(tree) \subseteq Nodes(st) /\ Points(st, h, H) /\ Counts(st, h, H) /\ IsFiniteSet(H)
  BY <1>1, <1>4, PlanWalked, HoldersFinite DEF Walked, TreeOf
<1>6. PICK F, L, own : /\ Partition(F, L, PagesIn(tree), own, H, N)
                       /\ Once(free_slots, F) /\ Once(lazy_free_list, L)
                       /\ free_slots \in Seq(N) /\ lazy_free_list \in Seq(N)
                       /\ \A v \in H : own[v] = Own(v)
  BY <1>4, FreeLists
<1>7. PICK slots, short : /\ slots = free_slots \o SetToSeq(PagesOf(tree_after_plan, E))
                          /\ short = PagesBefore(rs, Len(rs) + 1) /\ short \in Nat
  BY <1>1, BatchPages
<1>8. Launched(rs, E, slots, short)
  BY <1>3, <1>7, Zenon
<1>9. SlotsOK(st, E, short, slots, F)
  <2>1. F \cap PagesIn(tree) = {} /\ free_slots \in Seq(PoolPages)
    BY <1>4, <1>6 DEF Partition
  <2>2. SlotsOK(tree_after_plan, E, PagesBefore(rs, Len(rs) + 1),
                free_slots \o SetToSeq(PagesOf(tree_after_plan, E)), F)
    BY <1>1, <1>6, <2>1, LaunchSlots, Zenon
  <2> QED BY <1>4, <1>7, <2>2, Zenon
<1>10. PICK V : V = PagesOf(st, E)
  OBVIOUS
<1>11. /\ E \in SUBSET Nodes(st) /\ \A m \in E : st.ref[m] = 0 /\ Children(st, m) \subseteq E
       /\ V \subseteq PagesIn(tree)
       /\ slots \in Seq(N) /\ short <= Len(slots) /\ Once(slots, F \cup V)
  BY <1>4, <1>5, <1>9, <1>10 DEF SlotsOK
<1>12. PICK alloc, rest, K : /\ alloc = SubSeq(slots, 1, short)
                             /\ rest = SubSeq(slots, short + 1, Len(slots))
                             /\ K = RowPages(slots, short, Len(slots))
  OBVIOUS
<1>13. /\ alloc \in Seq(N) /\ Len(alloc) = short /\ OwnOnce(alloc, 0)
       /\ rest \in Seq(N) /\ Once(rest, K)
       /\ K \cup RowPages(alloc, 0, short) = F \cup V
       /\ K \cap RowPages(alloc, 0, short) = {}
  <2>1. PICK S : S = F \cup V
    OBVIOUS
  <2>2. CutOK(N, slots, short, S, alloc, rest)
    BY <1>7, <1>11, <1>12, <2>1, SlotsCut, Zenon
  <2> QED BY <1>12, <2>1, <2>2 DEF CutOK
<1>14. PICK n, f, before :
         /\ n = Len(rs) /\ n \in Nat /\ f = [i \in 1 .. n |-> new_pages(rs[i].uid)]
         /\ before = [i \in 1 .. n + 1 |-> PagesBefore(rs, i)] /\ Running(before, f, n)
         /\ before[n + 1] = short
  <2>1. PICK n \in Nat : n = Len(rs)
    BY <1>1, BatchPages
  <2>2. Running([i \in 1 .. n + 1 |-> PagesBefore(rs, i)], [i \in 1 .. n |-> new_pages(rs[i].uid)], n)
    BY <1>1, <2>1, BatchPages, Zenon
  <2>3. n + 1 \in 1 .. n + 1
    OBVIOUS
  <2> QED BY <1>7, <2>1, <2>2, <2>3
<1>15. /\ Distinct(rs)
       /\ \A i \in 1 .. n : /\ rs[i].uid \in H /\ rs[i].uid \in Uids
                            /\ f[i] = new_pages(rs[i].uid) /\ before[i] = PagesBefore(rs, i)
                            /\ before[i] \in Nat /\ before[i + 1] = before[i] + f[i] /\ f[i] \in Nat
                            /\ before[i + 1] <= short
  <2>1. \A i \in 1 .. n : i \in 1 .. n + 1 /\ i + 1 \in 1 .. n + 1 /\ i + 1 <= n + 1
    BY <1>14
  <2>2. n + 1 \in 1 .. n + 1
    BY <1>14
  <2>3. \A i \in 1 .. n : before[i + 1] <= short
    BY <1>14, <2>1, <2>2 DEF Running
  <2>4. \A i \in 1 .. n : before[i] \in Nat /\ before[i + 1] = before[i] + f[i] /\ f[i] \in Nat
    BY <1>14, <2>1 DEF Running
  <2> QED BY <1>1, <1>4, <1>14, <2>1, <2>3, <2>4, PlannedFacts DEF Holders
<1>16. PICK got : got = [v \in H |-> Given(rs, before, alloc, v)]
  OBVIOUS
<1>17. /\ \A i \in 1 .. n : got[rs[i].uid] = RowPages(alloc, before[i], before[i + 1])
       /\ \A v \in H : (\A i \in 1 .. n : rs[i].uid # v) => got[v] = {}
       /\ UNION {got[v] : v \in H} = RowPages(alloc, 0, short)
       /\ \A w, v \in H : w # v => got[w] \cap got[v] = {}
  <2>1. /\ \A i \in 1 .. Len(rs) :
              Given(rs, before, alloc, rs[i].uid) = RowPages(alloc, before[i], before[i + 1])
        /\ \A v \in H : (\A i \in 1 .. Len(rs) : rs[i].uid # v) => Given(rs, before, alloc, v) = {}
        /\ UNION {Given(rs, before, alloc, v) : v \in H} = RowPages(alloc, 0, Len(alloc))
        /\ \A w, v \in H : w # v =>
             Given(rs, before, alloc, w) \cap Given(rs, before, alloc, v) = {}
    <3>1. /\ Len(rs) \in Nat /\ Distinct(rs) /\ Running(before, f, Len(rs))
          /\ alloc \in Seq(N) /\ Len(alloc) = before[Len(rs) + 1] /\ OwnOnce(alloc, 0)
          /\ \A i \in 1 .. Len(rs) : rs[i].uid \in H
      BY <1>13, <1>14, <1>15
    <3>2. GivenOK(rs, before, alloc, H)
      BY <3>1, GivenApart, Zenon
    <3> QED BY <3>2 DEF GivenOK
  <2>2. \A v \in H : got[v] = Given(rs, before, alloc, v)
    BY <1>16
  <2>3. UNION {got[v] : v \in H} = UNION {Given(rs, before, alloc, v) : v \in H}
    BY <2>2
  <2>4. UNION {got[v] : v \in H} = RowPages(alloc, 0, short)
    BY <1>13, <2>1, <2>3
  <2>5. \A i \in 1 .. n : got[rs[i].uid] = RowPages(alloc, before[i], before[i + 1])
    BY <1>14, <1>15, <2>1, <2>2
  <2>6. \A v \in H : (\A i \in 1 .. n : rs[i].uid # v) => got[v] = {}
    BY <1>14, <2>1, <2>2
  <2> QED BY <2>1, <2>2, <2>4, <2>5, <2>6
<1>18. \A v \in H : got[v] \subseteq F \cup V
  BY <1>13, <1>17
<1>19. /\ tree' = RemoveNodes(st, E) /\ free_slots' = rest
       /\ DOMAIN page_table' = Tables /\ page_table' = [t \in Tables |-> page_table'[t]]
       /\ \A i \in 1 .. n :
            /\ page_table'[req[rs[i].uid].table_idx] = RowAfter(rs, i, alloc)
            /\ req'[rs[i].uid] = [req[rs[i].uid] EXCEPT !.cached_len = req[rs[i].uid].device_len,
                                                        !.device_len = @ + 1]
       /\ \A t \in Tables : (\A i \in 1 .. n : req[rs[i].uid].table_idx # t)
                              => page_table'[t] = page_table[t]
       /\ \A u \in Uids : (\A i \in 1 .. n : rs[i].uid # u) => req'[u] = req[u]
  BY <1>4, <1>8, <1>12, <1>14 DEF Launched
<1>20. \A i \in 1 .. n : /\ req'[rs[i].uid].cached_len = req[rs[i].uid].device_len
                         /\ req'[rs[i].uid].handle = req[rs[i].uid].handle
                         /\ req'[rs[i].uid].table_idx = req[rs[i].uid].table_idx
                         /\ req'[rs[i].uid].input_ids = req[rs[i].uid].input_ids
  BY <1>15, <1>19, LaunchedReq
<1>21. \A u \in Uids : req'[u].table_idx = req[u].table_idx /\ req'[u].handle = req[u].handle
  <2>1. ASSUME NEW u \in Uids PROVE req'[u].table_idx = req[u].table_idx /\ req'[u].handle = req[u].handle
    <3>1. CASE \E i \in 1 .. n : rs[i].uid = u
      BY <1>20, <3>1
    <3>2. CASE \A i \in 1 .. n : rs[i].uid # u
      BY <1>19, <3>2
    <3> QED BY <3>1, <3>2
  <2> QED BY <2>1
<1>22. Holders' = H /\ PoolPages' = N
  BY <1>1, <1>4, <1>21 DEF Holders, Held, PoolPages
<1>23. PICK nt : nt = RemoveNodes(st, E)
  OBVIOUS
<1>24. TreeOf(nt, N) /\ PagesIn(nt) = PagesIn(tree) \ V /\ Points(nt, h, H) /\ Counts(nt, h, H)
  <2>1. /\ TreeOf(RemoveNodes(st, E), N)
        /\ PagesIn(RemoveNodes(st, E)) = PagesIn(st) \ PagesOf(st, E)
    BY <1>5, <1>11, EvictedTree
  <2>2. Points(RemoveNodes(st, E), h, H) /\ Counts(RemoveNodes(st, E), h, H)
    BY <1>5, <1>11, CountsRemove
  <2> QED BY <1>5, <1>10, <1>23, <2>1, <2>2, Zenon
<1>25. \A v \in H : h[v] = req[v].handle /\ req[v].handle \in Nodes(nt) \cup {<<>>}
  BY <1>4, <1>24 DEF Handles, Points, Holders
\* A holder in the batch ...
<1>26. ASSUME NEW i \in 1 .. n, NEW v \in H, v = rs[i].uid
       PROVE  HandleOK(v)' /\ RowPaged(v)' /\ Own(v)' = own[v] \cup got[v] /\ Row(v)' \in Seq(N)
  <2>1. v \in Holders /\ HolderOK(v)
    BY <1>4, HolderFacts
  <2>2. PICK a \in Nat, b \in Nat : /\ a = before[i] /\ b = before[i + 1] /\ a <= b /\ b <= Len(alloc)
                                    /\ a = PagesBefore(rs, i) /\ b = a + new_pages(v)
    BY <1>13, <1>15, <1>26
  <2>3. PICK row : row = Prefix(Row(v), CeilPages(req[v].cached_len)) \o SubSeq(alloc, a + 1, b)
    OBVIOUS
  <2>4. Own(v) \cap RowPages(alloc, a, b) = {}
    <3>1. RowPages(alloc, a, b) = got[v]
      BY <1>17, <1>26, <2>2
    <3> QED BY <1>6, <1>11, <1>18, <3>1 DEF Partition
  <2>5. /\ row \in Seq(N) /\ Len(row) = CeilPages(req[v].cached_len) + (b - a)
        /\ OwnOnce(row, Shared(v))
        /\ RowPages(row, Shared(v), Len(row)) = Own(v) \cup RowPages(alloc, a, b)
    <3>1. alloc \in Seq(PoolPages) /\ OwnOnce(alloc, 0)
      BY <1>4, <1>13
    <3>2. Grown(v, row, alloc, a, b)
      BY <2>1, <2>2, <2>3, <2>4, <3>1, EntryRow, Zenon
    <3> QED BY <1>4, <3>2 DEF Grown
  <2>6. /\ req'[v].table_idx = req[v].table_idx /\ req'[v].handle = req[v].handle
        /\ req'[v].input_ids = req[v].input_ids /\ req'[v].cached_len = req[v].device_len
    BY <1>20, <1>26
  <2>7. Row(v)' = row /\ Shared(v)' = Shared(v)
    <3>1. RowAfter(rs, i, alloc) = row
      BY <1>26, <2>2, <2>3 DEF RowAfter, Row
    <3> QED BY <1>19, <1>26, <2>6, <3>1 DEF Row, Shared
  <2>8. Len(row) = CeilPages(req[v].device_len) /\ req[v].cached_len <= req[v].device_len
        /\ req[v].cached_len \in Nat /\ req[v].device_len \in Nat
    <3>1. i \in 1 .. Len(rs)
      BY <1>14
    <3>2. /\ req[rs[i].uid].cached_len \in Nat /\ req[rs[i].uid].device_len \in Nat
          /\ req[rs[i].uid].cached_len <= req[rs[i].uid].device_len
          /\ CeilPages(req[rs[i].uid].cached_len) \in Nat
          /\ new_pages(rs[i].uid) \in 0 .. CeilPages(ConfigMaxSeqLen)
          /\ CeilPages(req[rs[i].uid].device_len)
               = CeilPages(req[rs[i].uid].cached_len) + new_pages(rs[i].uid)
      BY <1>1, <3>1, EntryPages
    <3>3. new_pages(v) = b - a
      BY <1>15, <1>26, <2>2
    <3> QED BY <1>26, <2>5, <3>2, <3>3
  <2>9. HandleOK(v)'
    <3>1. Len(req[v].handle) <= req[v].device_len
      <4>1. Len(req[v].handle) <= req[v].cached_len /\ Len(req[v].handle) \in Nat
        BY <2>1 DEF HolderOK
      <4> QED BY <2>8, <4>1
    <3> QED BY <1>19, <1>23, <1>25, <2>1, <2>6, <3>1 DEF HandleOK, HolderOK
  <2>10. RowPaged(v)'
    BY <2>5, <2>6, <2>7, <2>8 DEF RowPaged, OwnOnce
  <2>11. Own(v)' = own[v] \cup got[v]
    <3>1. Own(v)' = RowPages(row, Shared(v), Len(row))
      BY <2>7 DEF Own, RowPages
    <3>2. own[v] = Own(v) /\ got[v] = RowPages(alloc, a, b)
      BY <1>6, <1>17, <1>26, <2>2
    <3> QED BY <2>5, <3>1, <3>2
  <2> QED BY <2>5, <2>7, <2>9, <2>10, <2>11
\* ... and one that is not.
<1>27. ASSUME NEW v \in H, \A i \in 1 .. n : rs[i].uid # v
       PROVE  HandleOK(v)' /\ RowPaged(v)' /\ Own(v)' = own[v] \cup got[v] /\ Row(v)' \in Seq(N)
  <2>1. v \in Holders /\ HolderOK(v) /\ v \in Uids
    BY <1>4, HolderFacts DEF Holders
  <2>2. req'[v] = req[v]
    BY <1>19, <1>27, <2>1
  <2>3. page_table'[req[v].table_idx] = page_table[req[v].table_idx]
    <3>1. \A i \in 1 .. n : req[rs[i].uid].table_idx # req[v].table_idx
      <4>1. \A u, w \in Holders : req[u].table_idx = req[w].table_idx => u = w
        BY DEF ControlInv, TablesOK
      <4> QED BY <1>4, <1>15, <1>27, <2>1, <4>1
    <3>2. req[v].table_idx \in Tables
      BY <2>1 DEF HolderOK
    <3> QED BY <1>19, <3>1, <3>2
  <2>4. Row(v)' = Row(v) /\ Shared(v)' = Shared(v) /\ Own(v)' = Own(v)
    BY <2>2, <2>3 DEF Row, Shared, Own
  <2>5. HandleOK(v)'
    BY <1>19, <1>23, <1>25, <2>1, <2>2 DEF HandleOK, HolderOK
  <2>6. RowPaged(v)'
    BY <2>1, <2>2, <2>4 DEF RowPaged, HolderOK, OwnOnce
  <2>7. got[v] = {} /\ own[v] = Own(v)
    BY <1>6, <1>17, <1>27
  <2>8. Row(v)' \in Seq(N)
    BY <1>4, <2>1, <2>4 DEF HolderOK
  <2> QED BY <2>4, <2>5, <2>6, <2>7, <2>8
<1>28. \A v \in H : HandleOK(v)' /\ RowPaged(v)' /\ Own(v)' = own[v] \cup got[v] /\ Row(v)' \in Seq(N)
  BY <1>26, <1>27
<1>29. TreeOK' /\ LocksOK' /\ TreePages' = PagesIn(nt)
  <2>1. tree' = nt /\ N = PoolPages' /\ H = Holders' /\ \A v \in H : h[v] = req'[v].handle
    BY <1>4, <1>19, <1>21, <1>22, <1>23, <1>25 DEF Holders
  <2> QED BY <1>24, <2>1, TreeThen
<1>30. PICK new : new = [v \in H |-> own[v] \cup got[v]]
  OBVIOUS
<1>31. Partition(K, L, PagesIn(tree) \ V, new, H, N)
  <2>1. PICK T, G : T = PagesIn(tree) /\ G = RowPages(alloc, 0, short)
    OBVIOUS
  <2>2. Partition(F, L, T, own, H, N) /\ Handed(F, V, T, K, G, got, H)
    BY <1>6, <1>11, <1>13, <1>17, <2>1 DEF Handed
  <2>3. \A v \in H : new[v] = own[v] \cup got[v]
    BY <1>30
  <2>4. Partition(K, L, T \ V, new, H, N)
    BY <2>2, <2>3, PartitionLaunch
  <2> QED BY <2>1, <2>4
<1>32. PagesOK' /\ FreeOK'
  <2>1. PICK T : T = PagesIn(tree) \ V
    OBVIOUS
  <2>2. \A v \in H : new[v] = Own(v)'
    BY <1>28, <1>30
  <2>3. /\ free_slots' \in Seq(N) /\ Once(free_slots', K)
        /\ lazy_free_list' \in Seq(N) /\ Once(lazy_free_list', L)
        /\ T = TreePages' /\ N = PoolPages' /\ H = Holders' /\ Partition(K, L, T, new, H, N)
    BY <1>1, <1>6, <1>13, <1>19, <1>22, <1>24, <1>29, <1>31, <2>1
  <2> QED BY <1>1, <2>2, <2>3, PagesThen
<1>33. HandlesOK' /\ RowsOK'
  <2>1. \A t \in Tables : page_table'[t] \in Seq(N)
    <3>1. ASSUME NEW t \in Tables PROVE page_table'[t] \in Seq(N)
      <4>1. CASE \E i \in 1 .. n : req[rs[i].uid].table_idx = t
        <5>1. PICK i \in 1 .. n : req[rs[i].uid].table_idx = t
          BY <4>1
        <5>2. PICK v \in H : v = rs[i].uid
          BY <1>15
        <5>3. Row(v)' = page_table'[t]
          BY <1>20, <5>1, <5>2 DEF Row
        <5> QED BY <1>28, <5>3
      <4>2. CASE \A i \in 1 .. n : req[rs[i].uid].table_idx # t
        <5>1. page_table \in [Tables -> Seq(N)]
          BY <1>4 DEF MemoryInv, RowsOK
        <5> QED BY <1>19, <4>2, <5>1
      <4> QED BY <4>1, <4>2
    <3> QED BY <3>1
  <2>2. page_table' \in [Tables -> Seq(PoolPages')]
    BY <1>19, <1>22, <2>1
  <2> QED BY <1>22, <1>28, <2>2 DEF HandlesOK, RowsOK
<1> QED BY <1>29, <1>32, <1>33 DEF PoolInv

(***************************************************************************)
(* Every step, and the properties.                                         *)
(***************************************************************************)

\* Only EndIteration lets the loop block, and only with nothing left to do.
LEMMA IdleStep ==
  ASSUME IdleOK, [Next]_vars
  PROVE  IdleOK'
<1>1. CASE Receive
  <2>1. pc' = "recv"
    BY <1>1 DEF Receive, Receiving, UserAborted, UserTooLong, UserQueued, AbortUnheld, AbortInFlight,
                AbortHeld, AbortReceived, RebuildReceived
  <2> QED BY <2>1 DEF IdleOK
<1>2. CASE EndReceive \/ RebuildDone \/ RebuildRejected \/ ChunkMultimodal \/ Launch \/ NoLaunch
  <2>1. pc' # "idle"
    BY <1>2 DEF EndReceive, RebuildDone, RebuildRejected, StartPlan, ChunkMultimodal, Launch, NoLaunch,
                StartDrain
  <2> QED BY <2>1 DEF IdleOK
<1>3. CASE AdmitContinuation \/ AdmitFresh
  <2>1. pc = "plan" /\ pc' = pc
    BY <1>3 DEF AdmitContinuation, AdmitFresh, Fits, CanTry
  <2> QED BY <2>1 DEF IdleOK
<1>4. CASE DrainChunk \/ DrainAborted \/ DrainStale \/ DrainFinished \/ DrainPrefilled \/ DrainDecoded
  <2>1. pc = "drain" /\ pc' = pc
    BY <1>4 DEF DrainChunk, DrainAborted, DrainStale, DrainFinished, DrainPrefilled, DrainDecoded,
                Sampled, Visit
  <2> QED BY <2>1 DEF IdleOK
<1>5. CASE EndIteration
  <2>1. pc' = "idle" => last_data' = NoBatch /\ ~runnable
    BY <1>5 DEF EndIteration
  <2>2. runnable' <=> runnable
    BY <1>5 DEF EndIteration, runnable, prefill_runnable, decode_runnable
  <2> QED BY <2>1, <2>2 DEF IdleOK
<1>6. CASE Quiescent \/ UNCHANGED vars
  <2>1. UNCHANGED <<pc, last_data, pending_list, running_reqs>>
    BY <1>6 DEF Quiescent, vars, batches
  <2> QED BY <2>1 DEF IdleOK, runnable, prefill_runnable, decode_runnable
<1> QED BY <1>1, <1>2, <1>3, <1>4, <1>5, <1>6 DEF Next, Loop

(* Every step of the scheduler keeps the memory invariant. *)
LEMMA NextMemory ==
  ASSUME ControlInv, ContractInv, StreamInv, MemoryInv, [Next]_vars
  PROVE  MemoryInv'
<1>1. PoolInv'
  <2>1. CASE Receive
    BY <2>1, ReceiveMemory
  <2>2. CASE EndReceive \/ RebuildRejected \/ ChunkMultimodal \/ Quiescent \/ UNCHANGED vars
    BY <2>2, StillMemory
  <2>3. CASE RebuildDone
    BY <2>3, RebuildMemory
  <2>4. CASE AdmitContinuation
    BY <2>4, ContinuationMemory
  <2>5. CASE AdmitFresh
    BY <2>5, AdmitFreshMemory
  <2>6. CASE Launch
    BY <2>6, LaunchMemory
  <2>7. CASE NoLaunch
    BY <2>7, NoLaunchMemory
  <2>8. CASE DrainChunk \/ DrainAborted \/ DrainStale \/ DrainFinished \/ DrainPrefilled \/ DrainDecoded
    BY <2>8, DrainMemory
  <2>9. CASE EndIteration
    BY <2>9, EndIterationMemory
  <2> QED BY <2>1, <2>2, <2>3, <2>4, <2>5, <2>6, <2>7, <2>8, <2>9 DEF Next, Loop
<1>2. IdleOK'
  BY IdleStep DEF MemoryInv
<1> QED BY <1>1, <1>2 DEF MemoryInv, PoolInv

\* Through every commit, eviction, launch, abort and rebuild, cache.py and
\* scheduler.py keep the pool's pages, the tree, the handles and the rows in step.
THEOREM MemoryInvariant == Spec => []MemoryInv
<1>1. Init => MemoryInv
  BY InitMemory
<1>2. ControlInv /\ ContractInv /\ StreamInv /\ MemoryInv /\ [Next]_vars => MemoryInv'
  BY NextMemory
<1> QED BY <1>1, <1>2, ControlInvariant, ContractInvariant, StreamInvariant, PTL DEF Spec

\* lock_handle's counts: a node of the tree is locked by exactly the requests
\* whose handle is at or below it, so none that is read can be evicted.
THEOREM LocksNeverLeak == Spec => []RefCountsExact
<1>1. MemoryInv => RefCountsExact
  BY DEF MemoryInv, LocksOK, RefCountsExact
<1> QED BY <1>1, MemoryInvariant, PTL

\* What of its row is the request's own.
LEMMA PrivateIs ==
  ASSUME ControlInv, MemoryInv, NEW u \in Holders
  PROVE  ToSet(Private(u)) = Own(u) /\ IsInjective(Private(u))
<1>1. PICK N, row, k : N = PoolPages /\ row = Row(u) /\ k = Shared(u)
  OBVIOUS
<1>2. /\ row \in Seq(N) /\ k \in Nat /\ k <= Len(row) /\ OwnOnce(row, k)
      /\ Own(u) = RowPages(row, k, Len(row))
  BY <1>1, HolderFacts DEF HolderOK
<1>3. PICK m \in Nat : m = Len(row)
  BY <1>2
<1>4. PICK s : s = SubSeq(row, k + 1, m)
  OBVIOUS
<1>5. Private(u) = s
  <2>1. CeilPages(PageSize * m) = m
    <3>1. PageSize * m = m * PageSize
      BY PageSizeAssumption
    <3> QED BY <3>1, CeilMultiple
  <2> QED BY <1>1, <1>3, <1>4, <2>1 DEF Private, Slice, Shared
<1>6. s \in Seq(N) /\ Once(s, RowPages(row, k, m))
  <2>1. SubSeq(row, k + 1, m) \in Seq(N) /\ Once(SubSeq(row, k + 1, m), RowPages(row, k, m))
    <3>1. k <= k /\ k <= m /\ m <= Len(row)
      BY <1>2, <1>3
    <3> QED BY <1>2, <3>1, SliceOnce
  <2> QED BY <1>4, <2>1
<1>7. DOMAIN s = 1 .. Len(s)
  BY <1>6
<1> QED BY <1>2, <1>3, <1>5, <1>6, <1>7 DEF Once, ToSet, IsInjective

\* CacheManager's pages: each is on one free list, in one block of the tree or
\* in one request's own part of its row, and in no two places, at every step of
\* the loop; nothing leaks and nothing is freed twice.
THEOREM PagesNeverLeak == Spec => []PagesConserved
<1>1. ControlInv /\ MemoryInv => PagesConserved
  <2> SUFFICES ASSUME ControlInv, MemoryInv PROVE PagesConserved
    OBVIOUS
  <2>1. PICK F, L, T, N : F = ToSet(free_slots) /\ L = ToSet(lazy_free_list) /\ T = TreePages /\ N = PoolPages
    OBVIOUS
  <2>2. PICK own : own = [u \in Uids |-> Own(u)]
    OBVIOUS
  <2>3. /\ \A i, j \in 1 .. Len(free_slots) : free_slots[i] = free_slots[j] => i = j
        /\ \A i, j \in 1 .. Len(lazy_free_list) : lazy_free_list[i] = lazy_free_list[j] => i = j
        /\ DOMAIN free_slots = 1 .. Len(free_slots) /\ DOMAIN lazy_free_list = 1 .. Len(lazy_free_list)
        /\ \A b, c \in Blocks(tree) : tree.page[b] = tree.page[c] => b = c
    BY DEF MemoryInv, FreeOK, TreeOK
  <2>4. Partition(F, L, T, own, Holders, N)
    BY <2>1, <2>2, <2>3 DEF MemoryInv, PagesOK, ToSet
  <2>5. \A u \in Holders : own[u] = ToSet(Private(u)) /\ IsInjective(Private(u))
    BY <2>2, PrivateIs DEF Holders
  <2>6. IsInjective(free_slots) /\ IsInjective(lazy_free_list) /\ IsInjective(tree.page)
    BY <2>3 DEF IsInjective, Blocks
  <2>7. UNION {own[u] : u \in Holders} = UNION {ToSet(Private(u)) : u \in Holders}
    BY <2>5
  <2>8. /\ F \cap L = {} /\ (F \cup L) \cap T = {}
        /\ \A u \in Holders :
             /\ ToSet(Private(u)) \cap (F \cup L \cup T) = {}
             /\ \A v \in Holders \ {u} : ToSet(Private(u)) \cap ToSet(Private(v)) = {}
        /\ F \cup L \cup T \cup UNION {ToSet(Private(u)) : u \in Holders} = N
    <3>1. /\ F \cap L = {} /\ F \cap T = {} /\ L \cap T = {}
          /\ \A u \in Holders : own[u] \cap F = {} /\ own[u] \cap L = {} /\ own[u] \cap T = {}
          /\ \A u, v \in Holders : u # v => own[u] \cap own[v] = {}
          /\ F \cup L \cup T \cup UNION {own[u] : u \in Holders} = N
      BY <2>4 DEF Partition
    <3>2. ASSUME NEW u \in Holders
          PROVE  /\ ToSet(Private(u)) \cap (F \cup L \cup T) = {}
                 /\ \A v \in Holders \ {u} : ToSet(Private(u)) \cap ToSet(Private(v)) = {}
      BY <2>5, <3>1
    <3> QED BY <2>7, <3>1, <3>2
  <2> QED BY <2>1, <2>5, <2>6, <2>8 DEF PagesConserved, PoolPages
<1> QED BY <1>1, ControlInvariant, MemoryInvariant, PTL

\* A finite set of naturals has a greatest member.
LEMMA FiniteMax ==
  ASSUME NEW S \in SUBSET Nat, IsFiniteSet(S), S # {}
  PROVE  Max(S) \in S /\ \A x \in S : Max(S) >= x
<1>1. PICK k \in Nat : k = Cardinality(S)
  BY FS_CardinalityType
<1>2. PICK below : below = [x \in S |-> S \cap (0 .. x)]
  OBVIOUS
<1>3. ASSUME NEW x \in S
      PROVE  IsFiniteSet(below[x]) /\ Cardinality(below[x]) \in 0 .. k
  <2>1. below[x] \subseteq S
    BY <1>2
  <2>2. IsFiniteSet(below[x]) /\ Cardinality(below[x]) <= Cardinality(S)
    BY <2>1, FS_Subset
  <2> QED BY <1>1, <2>2, FS_CardinalityType
<1>4. PICK C : C = {Cardinality(below[x]) : x \in S}
  OBVIOUS
<1>5. Max(C) \in C /\ \A c \in C : Max(C) >= c
  <2>1. C \subseteq 0 .. k /\ C # {}
    BY <1>3, <1>4
  <2> QED BY <2>1, MaxExists
<1>6. PICK top \in S : Max(C) = Cardinality(below[top])
  BY <1>4, <1>5
<1>7. ASSUME NEW y \in S PROVE top >= y
  <2>1. SUFFICES ASSUME y > top PROVE FALSE
    OBVIOUS
  <2>2. below[top] \subseteq below[y] /\ y \in below[y] /\ y \notin below[top]
    BY <1>2, <2>1
  <2>3. Cardinality(below[top]) <= Cardinality(below[y])
        /\ Cardinality(below[top]) # Cardinality(below[y])
    BY <1>3, <2>2, FS_Subset
  <2>4. Max(C) >= Cardinality(below[y])
    BY <1>4, <1>5
  <2>5. Cardinality(below[top]) \in 0 .. k /\ Cardinality(below[y]) \in 0 .. k
    BY <1>3
  <2> QED BY <1>6, <2>3, <2>4, <2>5
<1> QED BY <1>7 DEF Max

\* A pool is never larger than the largest the engine is asked for.
LEMMA PoolFits ==
  ASSUME ControlInv
  PROVE  PoolPages \subseteq Pages
<1>1. PICK S : S = {NumPages} \cup RebuildSizes
  OBVIOUS
<1>2. S \in SUBSET Nat /\ IsFiniteSet(S) /\ S # {}
  <2>1. IsFiniteSet({NumPages}) /\ IsFiniteSet(RebuildSizes)
    BY FS_Singleton, SchedulerAssumption
  <2> QED BY <1>1, <2>1, FS_Union, SchedulerAssumption
<1>3. PICK m \in Nat : m = Max(S) /\ \A x \in S : m >= x
  BY <1>2, FiniteMax
<1>4. num_pages \in S
  BY <1>1 DEF ControlInv, ControlTypes
<1>5. num_pages \in Nat /\ num_pages <= m
  BY <1>2, <1>3, <1>4
<1> QED BY <1>1, <1>3, <1>5 DEF PoolPages, Pages

\* Every variable keeps its type: the pool's pages, the tree, the rows and the
\* streams, and no request outgrows the row ConfigMaxSeqLen gives it.
THEOREM TypesHold == Spec => []TypeOK
<1>1. ControlInv /\ ContractInv /\ StreamInv /\ MemoryInv /\ LengthsFit => TypeOK
  <2> SUFFICES ASSUME ControlInv, ContractInv, StreamInv, MemoryInv, LengthsFit PROVE TypeOK
    OBVIOUS
  <2>1. PICK N, P : N = PoolPages /\ P = Pages /\ N \subseteq P
    BY PoolFits
  <2>2. Seq(N) \subseteq Seq(P)
    BY <2>1
  <2>3. free_slots \in Seq(P) /\ lazy_free_list \in Seq(P)
    BY <2>1, <2>2 DEF MemoryInv, FreeOK
  <2>4. tree.page \in [Blocks(tree) -> P] /\ tree.ref \in [Nodes(tree) -> Nat]
    BY <2>1 DEF MemoryInv, TreeOK
  <2>5. \A t \in Tables : page_table[t] \in Seq(P)
    BY <2>1, <2>2 DEF MemoryInv, RowsOK
  <2>6. /\ token_pool \in [Tables -> [1 .. ConfigMaxSeqLen -> Vocab \cup {0}]]
        /\ out.tokens \in [Uids -> Seq(Vocab)] /\ out.admitted \in [Uids -> Nat]
    BY DEF StreamInv, DeviceOK, ContractInv, OutTypes
  <2> QED BY <2>1, <2>3, <2>4, <2>5, <2>6 DEF TypeOK, MemoryTypes, ControlInv, LengthsFit
<1> QED BY <1>1, ControlInvariant, ContractInvariant, StreamInvariant, MemoryInvariant,
           LengthsNeverOverrun, PTL

\* run_when_idle's integrity check passes whenever the scheduler blocks: every
\* page is free or cached, and no request, lock or row is left behind.
THEOREM IdleIsClean == Spec => []IdleIntegrity
<1>1. ControlInv /\ MemoryInv => IdleIntegrity
  <2> SUFFICES ASSUME ControlInv, MemoryInv, pc = "idle"
               PROVE  /\ Len(free_slots) + Cardinality(Blocks(tree)) = num_pages
                      /\ Holders = {} /\ ProtectedSize(tree) = 0
    BY DEF IdleIntegrity
  <2>1. Holders = {}
    <3>1. pending_list = <<>> /\ running_reqs = {} /\ last_data = NoBatch
      BY DEF MemoryInv, IdleOK, runnable, prefill_runnable, decode_runnable
    <3>2. Old = <<>> /\ New = <<>>
      BY <3>1 DEF Old, New, NoBatch
    <3>3. \A u : ~In(u, Old) /\ ~In(u, New) /\ ~Queued(u) /\ ~Processed(u)
      BY <3>1, <3>2 DEF In, Queued, Processed, Planning
    <3>4. \A u \in Uids : ~Held(u)
      BY <3>1, <3>3 DEF ControlInv, HeldOK, Known
    <3> QED BY <3>4 DEF Holders
  <2>2. PICK F, L, own : /\ Partition(F, L, PagesIn(tree), own, Holders, PoolPages)
                         /\ Once(free_slots, F) /\ Once(lazy_free_list, L)
                         /\ free_slots \in Seq(PoolPages)
    BY FreeLists
  <2>3. PICK T : T = PagesIn(tree)
    OBVIOUS
  <2>4. L = {}
    <3>1. lazy_free_list = <<>>
      BY DEF MemoryInv, FreeOK
    <3> QED BY <2>2, <3>1 DEF Once
  <2>5. F \cup T = PoolPages /\ F \cap T = {}
    BY <2>1, <2>2, <2>3, <2>4 DEF Partition
  <2>6. PICK n \in Nat : n = num_pages
    BY SchedulerAssumption DEF ControlInv, ControlTypes
  <2>7. IsFiniteSet(PoolPages) /\ Cardinality(PoolPages) = n
    <3>1. PICK top \in Int : top = n - 1
      BY <2>6
    <3>2. 0 \in Int
      OBVIOUS
    <3>3. IsFiniteSet(0 .. top) /\ Cardinality(0 .. top) = IF 0 > top THEN 0 ELSE top - 0 + 1
      BY <3>1, <3>2, FS_Interval
    <3> QED BY <2>6, <3>1, <3>3 DEF PoolPages
  <2>8. IsFiniteSet(F) /\ IsFiniteSet(T)
    BY <2>5, <2>7, FS_Subset
  <2>9. Cardinality(F) + Cardinality(T) = n
    <3>1. Cardinality(F \cup T) = Cardinality(F) + Cardinality(T) - Cardinality(F \cap T)
      BY <2>8, FS_Union
    <3>2. Cardinality(F \cap T) = 0
      BY <2>5, FS_EmptySet
    <3>3. Cardinality(F) \in Nat /\ Cardinality(T) \in Nat
      BY <2>8, FS_CardinalityType
    <3>4. Cardinality(F \cup T) = n
      BY <2>5, <2>7
    <3> QED BY <3>1, <3>2, <3>3, <3>4
  <2>10. Len(free_slots) = Cardinality(F)
    <3>1. PICK s, k : s = free_slots /\ k = Len(s) /\ k \in Nat /\ s \in [1 .. k -> PoolPages]
      BY <2>2
    <3>2. s \in Surjection(1 .. k, F) /\ s \in Injection(1 .. k, F)
      BY <2>2, <3>1 DEF Once, Surjection, Injection, IsInjective
    <3>3. IsFiniteSet(1 .. k) /\ Cardinality(1 .. k) = k
      <4>1. 1 \in Int /\ k \in Int
        BY <3>1
      <4>2. IsFiniteSet(1 .. k) /\ Cardinality(1 .. k) = IF 1 > k THEN 0 ELSE k - 1 + 1
        BY <4>1, FS_Interval
      <4> QED BY <3>1, <4>2
    <3> QED BY <3>1, <3>2, <3>3, FS_Surjection
  <2>11. Cardinality(Blocks(tree)) = Cardinality(T)
    <3>1. PICK B, f : B = Blocks(tree) /\ f = tree.page
      OBVIOUS
    <3>2. f \in [B -> PoolPages] /\ IsFiniteSet(B) /\ \A b, c \in B : f[b] = f[c] => b = c
      BY <3>1 DEF MemoryInv, TreeOK, WellFormed
    <3>3. T = {f[b] : b \in B}
      BY <2>3, <3>1 DEF PagesIn
    <3>4. f \in Surjection(B, T) /\ f \in Injection(B, T)
      BY <3>2, <3>3 DEF Surjection, Injection, IsInjective
    <3> QED BY <3>1, <3>2, <3>4, FS_Surjection
  <2>12. ProtectedSize(tree) = 0
    <3>1. ASSUME NEW b \in Blocks(tree) PROVE ~(tree.ref[NodeOf(tree, b)] > 0)
      <4>1. PICK m \in Nodes(tree) : m = NodeOf(tree, b)
        <5>1. IsTree(tree, Vocab, PoolPages)
          BY LocksAre
        <5> QED BY <5>1, NodeOfIs
      <4>2. tree.ref[m] = Cardinality({u \in Holders : IsPrefix(m, req[u].handle)})
        BY DEF MemoryInv, LocksOK
      <4>3. {u \in Holders : IsPrefix(m, req[u].handle)} = {}
        BY <2>1
      <4>4. tree.ref[m] = 0
        BY <4>2, <4>3, FS_EmptySet
      <4> QED BY <4>1, <4>4
    <3>2. {b \in Blocks(tree) : tree.ref[NodeOf(tree, b)] > 0} = {}
      BY <3>1
    <3>3. Cardinality({b \in Blocks(tree) : tree.ref[NodeOf(tree, b)] > 0}) = 0
      BY <3>2, FS_EmptySet
    <3> QED BY <3>3, PageSizeAssumption DEF ProtectedSize
  <2>13. Len(free_slots) + Cardinality(Blocks(tree)) = num_pages
    BY <2>6, <2>9, <2>10, <2>11
  <2> QED BY <2>1, <2>12, <2>13
<1> QED BY <1>1, ControlInvariant, MemoryInvariant, PTL
===============================================================================
