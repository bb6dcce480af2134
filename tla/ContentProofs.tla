----------------------------- MODULE ContentProofs -----------------------------
(***************************************************************************)
(* Proofs about what the KV pages of Scheduler hold: a request reads KV    *)
(* computed from its own tokens, and the prefix cache serves KV of the     *)
(* prefix it is filed under.  Who owns which page is MemoryProofs'.  Then, *)
(* by counting the pages no row leads to: every launch finds its pages.    *)
(***************************************************************************)
EXTENDS MemoryProofs

(***************************************************************************)
(* What the KV slots hold.                                                 *)
(***************************************************************************)

Plain(ids) == [i \in DOMAIN ids |-> <<{}, ids[i]>>]

\* The page p holds the KV of block b of the tree ...
BlockHas(k, p, b) ==
    \A o \in 0 .. PageSize - 1 : k[p][o] = Plain(Prefix(b, Len(b) - PageSize + o + 1))
TreeHas(k, tr) == \A b \in Blocks(tr) : BlockHas(k, tr.page[b], b)

\* ... and the first n slots of a row that of v's tokens ids.
RowHas(k, v, row, ids, n) ==
    \A pos \in 0 .. n - 1 :
        k[row[pos \div PageSize + 1]][pos % PageSize] = Embedded(v, Prefix(ids, pos + 1))

\* A row's first pages are the tree's pages of its handle.
OnHandle(tr, row, handle) ==
    \A i \in 1 .. Len(handle) \div PageSize : row[i] = tr.page[Prefix(handle, i * PageSize)]

ReadsOwn(v) ==
    /\ OnHandle(tree, Row(v), req[v].handle)
    /\ RowHas(kv, v, Row(v), Device(v), req[v].cached_len)

\* ContentInv, in the form the steps establish it.
LEMMA ContentIs == ContentInv <=> (\A v \in Holders : ReadsOwn(v)) /\ TreeHas(kv, tree)
BY DEF ContentInv, RowsShared, RowsHoldOwnKV, TreeHoldsPrefixKV, ReadsOwn, TreeHas, BlockHas,
       RowHas, OnHandle, Plain, Device, Shared

\* ContentInv after a step, in that form.
LEMMA ContentThen == ContentInv' <=> (\A v \in Holders : ReadsOwn(v))' /\ TreeHas(kv, tree)'
BY ContentIs, PTL

(* The facts about a holder, of every holder ... *)
LEMMA AllHolders == ControlInv /\ MemoryInv => \A v \in Holders : HolderOK(v)
BY HolderFacts

\* ... and of every one after a step.
LEMMA AllHoldersThen == ControlInv' /\ MemoryInv' => (\A v \in Holders : HolderOK(v))'
BY AllHolders, PTL

(* The slot of a position: its page in the row, and its place in the page. *)
LEMMA SlotOf ==
  ASSUME NEW pos \in Nat
  PROVE  /\ pos \div PageSize \in Nat /\ pos % PageSize \in 0 .. PageSize - 1
         /\ pos = ((pos \div PageSize) * PageSize) + (pos % PageSize)
         /\ \A j \in Nat : pos < j * PageSize => pos \div PageSize + 1 <= j
         /\ \A j \in Nat : j * PageSize <= pos => j <= pos \div PageSize
<1>1. PICK p \in Nat : p = PageSize /\ p > 0
  BY PageSizeAssumption
<1>2. PICK i \in Nat, o \in 0 .. p - 1 : i = pos \div p /\ o = pos % p /\ pos = i * p + o
  BY <1>1, Z3
<1>3. ASSUME NEW j \in Nat, pos < j * PageSize PROVE pos \div PageSize + 1 <= j
  <2>1. i * p < j * p
    BY <1>1, <1>2, <1>3
  <2>2. i < j
    BY <1>1, <2>1, MultipleOrder
  <2> QED BY <1>1, <1>2, <2>2
<1>4. ASSUME NEW j \in Nat, j * PageSize <= pos PROVE j <= pos \div PageSize
  <2>1. j * p < i * p + p /\ i * p + p = (i + 1) * p
    BY <1>1, <1>2, <1>4
  <2>2. j < i + 1
    BY <1>1, <2>1, MultipleOrder
  <2> QED BY <1>1, <1>2, <2>2
<1>5. /\ pos \div PageSize = i /\ pos % PageSize = o /\ i \in Nat /\ o \in 0 .. PageSize - 1
      /\ pos = (i * PageSize) + o
  BY <1>1, <1>2
<1> QED BY <1>3, <1>4, <1>5, Zenon

(* Sequences that agree on their first m entries have the same prefix. *)
LEMMA AgreedPrefix ==
  ASSUME NEW S, NEW a \in Seq(S), NEW b \in Seq(S), NEW m \in Nat, m <= Len(a), m <= Len(b),
         \A i \in 1 .. m : a[i] = b[i]
  PROVE  Prefix(a, m) = Prefix(b, m)
<1>1. Len(a) \in Nat /\ Len(b) \in Nat
  OBVIOUS
<1>2. m \in 0 .. Len(a) /\ m \in 0 .. Len(b)
  BY <1>1
<1>3. /\ Prefix(a, m) \in Seq(S) /\ Len(Prefix(a, m)) = m
      /\ \A i \in 1 .. m : Prefix(a, m)[i] = a[i]
  BY <1>2, PrefixProperties
<1>4. /\ Prefix(b, m) \in Seq(S) /\ Len(Prefix(b, m)) = m
      /\ \A i \in 1 .. m : Prefix(b, m)[i] = b[i]
  BY <1>2, PrefixProperties
<1> QED BY <1>3, <1>4, SMT

(* The blocks of a node's path are in the tree, page by page. *)
LEMMA PathBlocks ==
  ASSUME NEW tr, NEW N, IsTree(tr, Vocab, N), NEW path \in Nodes(tr) \cup {<<>>},
         NEW i \in 1 .. Len(path) \div PageSize
  PROVE  /\ path \in Seq(Vocab) /\ Len(path) \in Nat /\ i * PageSize \in 1 .. Len(path)
         /\ Prefix(path, i * PageSize) \in Blocks(tr)
         /\ Len(Prefix(path, i * PageSize)) = i * PageSize
<1>1. path \in Seq(Vocab) /\ Len(path) \in Nat /\ Len(path) % PageSize = 0
  BY MatchedIndices
<1>2. PICK n \in Nat, p \in Nat : n = Len(path) \div PageSize /\ p = PageSize /\ p > 0 /\ Len(path) = n * p
  <2>1. PICK l \in Nat : l = Len(path) /\ l % PageSize = 0
    BY <1>1
  <2>2. l \div PageSize \in Nat /\ l = (l \div PageSize) * PageSize
    BY <2>1, MultipleOf
  <2> QED BY <2>1, <2>2, PageSizeAssumption
<1>3. i * p \in Nat /\ (i * p) % p = 0 /\ i * p <= n * p /\ 0 < i * p
  <2>1. i \in Nat /\ 0 < i /\ i <= n
    BY <1>2
  <2>2. i * p \in Nat /\ (i * p) % p = 0 /\ 0 * p = 0
    BY <2>1, <1>2, Multiples
  <2> QED BY <2>1, <2>2, <1>2, MultipleOrder
<1>4. i * p \in 1 .. Len(path)
  BY <1>1, <1>2, <1>3
<1>5. path \in Nodes(tr)
  <2>1. path # <<>>
    BY <1>4
  <2> QED BY <2>1
<1>6. path \in Blocks(tr)
  BY <1>5, NodeOfNode
<1>7. Prefix(path, i * p) \in Blocks(tr)
  BY <1>2, <1>3, <1>4, <1>6, BlockFacts
<1>8. Len(Prefix(path, i * p)) = i * p
  BY <1>1, <1>4, PrefixProperties
<1> QED BY <1>1, <1>2, <1>4, <1>7, <1>8

(* What a tree's pages hold along the path of one of its nodes. *)
LEMMA PathContent ==
  ASSUME NEW tr, NEW N, IsTree(tr, Vocab, N), NEW path \in Nodes(tr) \cup {<<>>},
         NEW k, TreeHas(k, tr), NEW pos \in Nat, pos < Len(path)
  PROVE  /\ pos \div PageSize + 1 \in 1 .. Len(path) \div PageSize
         /\ Prefix(path, (pos \div PageSize + 1) * PageSize) \in Blocks(tr)
         /\ k[tr.page[Prefix(path, (pos \div PageSize + 1) * PageSize)]][pos % PageSize]
              = Plain(Prefix(path, pos + 1))
<1>1. path \in Seq(Vocab) /\ Len(path) \in Nat /\ Len(path) % PageSize = 0
  BY MatchedIndices
<1>2. PICK n \in Nat, p \in Nat : n = Len(path) \div PageSize /\ p = PageSize /\ p > 0 /\ Len(path) = n * p
  <2>1. PICK l \in Nat : l = Len(path) /\ l % PageSize = 0
    BY <1>1
  <2>2. l \div PageSize \in Nat /\ l = (l \div PageSize) * PageSize
    BY <2>1, MultipleOf
  <2> QED BY <2>1, <2>2, PageSizeAssumption
<1>3. PICK j \in Nat, o \in 0 .. p - 1 :
         j = pos \div PageSize /\ o = pos % PageSize /\ pos = j * p + o /\ j + 1 <= n
  BY <1>2, SlotOf
<1>4. PICK i \in 1 .. n : i = j + 1
  BY <1>3
<1>5. PICK b \in Blocks(tr) : b = Prefix(path, i * p) /\ Len(b) = i * p /\ i * p \in 1 .. Len(path)
  BY <1>2, PathBlocks
<1>6. k[tr.page[b]][o] = Plain(Prefix(b, Len(b) - p + o + 1))
  BY <1>2, <1>3 DEF TreeHas, BlockHas
<1>7. Len(b) - p + o + 1 = pos + 1
  <2>1. i * p = j * p + p
    BY <1>2, <1>3, <1>4
  <2> QED BY <2>1, <1>2, <1>3, <1>5
<1>8. Prefix(b, pos + 1) = Prefix(path, pos + 1)
  <2>1. pos + 1 \in 0 .. i * p
    BY <1>5, <1>7, <1>3, <1>2
  <2> QED BY <1>1, <1>5, <2>1, PrefixOfPrefix
<1> QED BY <1>2, <1>3, <1>4, <1>5, <1>6, <1>7, <1>8

(***************************************************************************)
(* What a step has to keep.                                                *)
(***************************************************************************)

\* A step leaves the row, the handle and the computed tokens of a holder alone.
Steady(v) ==
    /\ v \in Holders
    /\ req'[v].table_idx = req[v].table_idx /\ req'[v].handle = req[v].handle
    /\ req'[v].cached_len = req[v].cached_len
    /\ page_table'[req[v].table_idx] = page_table[req[v].table_idx]
    /\ token_pool'[req[v].table_idx] = token_pool[req[v].table_idx]

\* A block keeps its page, and a new one is on a page that holds its KV.
PagesStay ==
    \A b \in Blocks(tree') :
        IF b \in Blocks(tree) THEN tree'.page[b] = tree.page[b] ELSE BlockHas(kv, tree'.page[b], b)

\* A slot changes only on a page that is free then, or that a holder the step
\* does touch has of its own.
SlotsStay ==
    \A p \in PoolPages' :
        \/ \E i \in 1 .. Len(free_slots') : free_slots'[i] = p
        \/ \E w \in Holders' : ~Steady(w) /\ p \in Own(w)'
        \/ kv'[p] = kv[p]

(* The new state's tree and page owners, in the form the lemmas take. *)
LEMMA OwnersThen ==
  ASSUME MemoryInv'
  PROVE  /\ TreeOf(tree', PoolPages')
         /\ \A b \in Blocks(tree') :
              /\ tree'.page[b] \in PoolPages'
              /\ \A i \in 1 .. Len(free_slots') : free_slots'[i] # tree'.page[b]
              /\ \A w \in Holders' : tree'.page[b] \notin Own(w)'
         /\ \A v \in Holders' : \A p \in Own(v)' :
              /\ \A i \in 1 .. Len(free_slots') : free_slots'[i] # p
              /\ \A w \in Holders' : w # v => p \notin Own(w)'
<1>1. TreeOK' /\ PagesOK'
  BY DEF MemoryInv
<1>2. TreeOf(tree', PoolPages')
  BY <1>1 DEF TreeOK, TreeOf, IsTree
<1>3. PICK F, T : F = {free_slots'[i] : i \in 1 .. Len(free_slots')} /\ T = TreePages'
  OBVIOUS
<1>4. /\ F \cap T = {}
      /\ \A v \in Holders' : Own(v)' \cap F = {} /\ Own(v)' \cap T = {}
      /\ \A v, w \in Holders' : v # w => Own(v)' \cap Own(w)' = {}
  <2>1. Holders' \subseteq Uids
    BY DEF Holders
  <2> QED BY <1>1, <1>3, <2>1 DEF PagesOK, Partition
<1>5. ASSUME NEW b \in Blocks(tree')
      PROVE  tree'.page[b] \in T /\ tree'.page[b] \in PoolPages'
  BY <1>1, <1>3 DEF TreePages, TreeOK
<1> QED BY <1>2, <1>3, <1>4, <1>5

(* A holder that is left alone reads what it read. *)
LEMMA SteadyReads ==
  ASSUME ControlInv, MemoryInv, ContentInv, ControlInv', MemoryInv', PagesStay, SlotsStay,
         NEW v \in Holders', Steady(v)
  PROVE  ReadsOwn(v)'
<1>1. HolderOK(v) /\ ReadsOwn(v)
  BY HolderFacts, ContentIs DEF Steady
<1>2. HolderOK(v)'
  BY AllHoldersThen
<1>3. PICK row, handle, n, dev : row = Row(v) /\ handle = req[v].handle /\ n = req[v].cached_len
                                 /\ dev = Device(v)
  OBVIOUS
<1>4. Row(v)' = row /\ req'[v].handle = handle /\ req'[v].cached_len = n /\ Device(v)' = dev
  BY <1>3 DEF Steady, Row, Device
<1>5. IsTree(tree, Vocab, PoolPages) /\ IsTree(tree', Vocab, PoolPages')
  BY LocksAre, OwnersThen DEF TreeOf
<1>6. handle \in Nodes(tree) \cup {<<>>} /\ handle \in Nodes(tree') \cup {<<>>}
  BY <1>1, <1>2, <1>3, <1>4 DEF HolderOK
<1>7. ASSUME NEW i \in 1 .. Len(handle) \div PageSize
      PROVE  /\ Prefix(handle, i * PageSize) \in Blocks(tree')
             /\ row[i] = tree'.page[Prefix(handle, i * PageSize)]
  <2>1. PICK b : b = Prefix(handle, i * PageSize) /\ b \in Blocks(tree)
    BY <1>5, <1>6, PathBlocks
  <2>2. b \in Blocks(tree')
    BY <1>5, <1>6, <2>1, PathBlocks
  <2>3. row[i] = tree.page[b]
    BY <1>1, <1>3, <2>1 DEF ReadsOwn, OnHandle
  <2> QED BY <2>1, <2>2, <2>3 DEF PagesStay
<1>8. ASSUME NEW i \in 1 .. Len(row) PROVE kv'[row[i]] = kv[row[i]]
  <2>1. row[i] \in PoolPages'
    BY <1>2, <1>4, <1>8 DEF HolderOK
  <2>2. CASE i <= Len(handle) \div PageSize
    <3>1. i \in 1 .. Len(handle) \div PageSize
      BY <2>2, <1>8, <1>1, <1>3 DEF HolderOK, Shared
    <3> QED BY <1>7, <2>1, <3>1, OwnersThen DEF SlotsStay
  <2>3. CASE ~(i <= Len(handle) \div PageSize)
    <3>1. row[i] \in Own(v)'
      <4>1. Shared(v)' = Len(handle) \div PageSize
        BY <1>4 DEF Shared
      <4>2. i \in Len(handle) \div PageSize + 1 .. Len(row)
        BY <2>3, <1>8, <1>1, <1>3 DEF HolderOK, Shared
      <4> QED BY <1>4, <4>1, <4>2 DEF Own
    <3> QED BY <2>1, <3>1, OwnersThen DEF SlotsStay
  <2> QED BY <2>2, <2>3
<1>9. RowHas(kv', v, row, dev, n)
  <2>1. n \in Nat /\ Len(row) = CeilPages(n)
    BY <1>1, <1>3 DEF HolderOK
  <2>2. ASSUME NEW pos \in 0 .. n - 1
        PROVE  kv'[row[pos \div PageSize + 1]][pos % PageSize] = Embedded(v, Prefix(dev, pos + 1))
    <3>1. PICK c \in Nat : c = CeilPages(n) /\ n <= c * PageSize
      BY <2>1, CeilIs
    <3>2. pos \in Nat /\ pos < c * PageSize
      <4>1. c * PageSize \in Nat
        BY Multiples
      <4> QED BY <2>1, <3>1, <4>1
    <3>3. pos \div PageSize + 1 \in 1 .. Len(row)
      <4>1. PICK j \in Nat : j = pos \div PageSize /\ j + 1 <= c
        BY <3>2, SlotOf
      <4> QED BY <4>1, <2>1, <3>1
    <3>4. kv[row[pos \div PageSize + 1]][pos % PageSize] = Embedded(v, Prefix(dev, pos + 1))
      BY <1>1, <1>3, <2>2 DEF ReadsOwn, RowHas
    <3> QED BY <1>8, <3>3, <3>4
  <2> QED BY <2>2 DEF RowHas
<1>10. OnHandle(tree', row, handle)
  BY <1>7 DEF OnHandle
<1> QED BY <1>4, <1>9, <1>10 DEF ReadsOwn

(* ContentInv after a step, holder by holder and block by block. *)
LEMMA ContentStep ==
  ASSUME ControlInv, MemoryInv, ContentInv, ControlInv', MemoryInv', PagesStay, SlotsStay,
         \A v \in Holders' : Steady(v) \/ ReadsOwn(v)'
  PROVE  ContentInv'
<1>1. ASSUME NEW v \in Holders' PROVE ReadsOwn(v)'
  BY <1>1, SteadyReads
<1>2. ASSUME NEW b \in Blocks(tree') PROVE BlockHas(kv', tree'.page[b], b)
  <2>1. kv'[tree'.page[b]] = kv[tree'.page[b]]
    BY <1>2, OwnersThen DEF SlotsStay
  <2>2. BlockHas(kv, tree'.page[b], b)
    <3>1. CASE b \in Blocks(tree)
      BY <3>1, <1>2, ContentIs DEF PagesStay, TreeHas
    <3>2. CASE b \notin Blocks(tree)
      BY <3>2, <1>2 DEF PagesStay
    <3> QED BY <3>1, <3>2
  <2> QED BY <2>1, <2>2 DEF BlockHas
<1>3. TreeHas(kv, tree)'
  BY <1>2 DEF TreeHas
<1> QED BY <1>1, <1>3, ContentThen

(***************************************************************************)
(* Steps that leave rows, handles and computed tokens alone.               *)
(***************************************************************************)

SameSlots(v) ==
    /\ req'[v].table_idx = req[v].table_idx /\ req'[v].handle = req[v].handle
    /\ req'[v].cached_len = req[v].cached_len

\* The freed pages, blanked, are free in the new state.
LEMMA ScrubStays ==
  ASSUME NEW pages, kv' = Scrub(pages), PoolPages' \subseteq Pages,
         \A p \in ToSet(pages) : \E i \in 1 .. Len(free_slots') : free_slots'[i] = p
  PROVE  SlotsStay
<1>1. ASSUME NEW p \in PoolPages', p \notin ToSet(pages) PROVE kv'[p] = kv[p]
  BY <1>1 DEF Scrub
<1> QED BY <1>1 DEF SlotsStay

(* A step that moves no page, and at most splits nodes of the tree. *)
LEMMA QuietContent ==
  ASSUME ControlInv, MemoryInv, ContentInv, ControlInv', MemoryInv',
         tree'.page = tree.page, UNCHANGED <<page_table, token_pool>>, SlotsStay,
         \A v \in Uids : SameSlots(v)
  PROVE  ContentInv'
<1>1. PagesStay
  BY DEF PagesStay, Blocks
<1>2. ASSUME NEW v \in Holders' PROVE Steady(v)
  BY <1>2 DEF Steady, Holders, Held, SameSlots
<1> QED BY <1>1, <1>2, ContentStep

(* A walk splits a node at most: no block changes its page. *)
LEMMA WalkPages ==
  ASSUME NEW tr, NEW N, IsTree(tr, Vocab, N), NEW ids \in Seq(Vocab)
  PROVE  Walk(tr, ids).tree.page = tr.page
<1>1. PICK at : at = Prefix(ids, MatchLen(tr, ids))
  OBVIOUS
<1>2. at \in Blocks(tr) \cup {<<>>}
  <2>1. MatchLen(tr, ids) # 0 => at \in Blocks(tr)
    BY <1>1, MatchLenIs
  <2>2. MatchLen(tr, ids) = 0 => at = <<>>
    BY <1>1, PrefixEmpty
  <2> QED BY <2>1, <2>2
<1>3. SplitAt(tr, at).page = tr.page
  BY <1>2, SplitTree
<1> QED BY <1>1, <1>3 DEF Walk

(* match_req keeps every page where it is. *)
LEMMA MatchPages ==
  ASSUME ControlInv, MemoryInv, NEW u \in Uids
  PROVE  match_req(u).tree.page = tree.page
<1>1. PICK ids : ids = IF Shareable(u) THEN Front(Prompt[u]) ELSE <<>>
  OBVIOUS
<1>2. ids \in Seq(Vocab)
  <2>1. Prompt[u] \in Seq(Vocab) /\ Len(Prompt[u]) \in Nat \ {0}
    BY SchedulerAssumption
  <2>2. Front(Prompt[u]) \in Seq(Vocab)
    BY <2>1 DEF Front
  <2> QED BY <1>1, <2>2
<1>3. Walk(tree, ids).tree.page = tree.page
  BY <1>2, LocksAre, WalkPages
<1> QED BY <1>1, <1>3 DEF match_req, match_prefix

(* So does a plan. *)
LEMMA PlanPages ==
  ASSUME ControlInv, MemoryInv, pc = "plan"
  PROVE  tree_after_plan.page = tree.page
<1>1. CASE \/ adder.rest = <<>> \/ adder.token_budget <= 0 \/ table_free = <<>>
           \/ candidate.chunked
  BY <1>1 DEF tree_after_plan
<1>2. CASE ~(\/ adder.rest = <<>> \/ adder.token_budget <= 0 \/ table_free = <<>>
             \/ candidate.chunked)
  <2>1. CanTry
    BY <1>2 DEF CanTry, ControlInv, PlanOK, PlanTypes, Planning
  <2>2. candidate.uid \in Uids
    BY <2>1, Candidate
  <2>3. match_req(candidate.uid).tree.page = tree.page
    BY <2>2, MatchPages
  <2>4. tree_after_plan = match_req(candidate.uid).tree
    BY <1>2 DEF tree_after_plan
  <2> QED BY <2>3, <2>4
<1> QED BY <1>1, <1>2

(***************************************************************************)
(* What a commit files under the computed tokens.                          *)
(***************************************************************************)

\* The slots of a row hold the KV of ids, with nothing else behind the tokens.
PlainRow(k, row, ids) ==
    \A pos \in 0 .. Len(ids) - 1 :
        k[row[pos \div PageSize + 1]][pos % PageSize] = Plain(Prefix(ids, pos + 1))

(* A whole page of such a row is a block's. *)
LEMMA RowBlock ==
  ASSUME NEW k, NEW row, NEW ids \in Seq(Vocab), PlainRow(k, row, ids),
         NEW i \in Nat \ {0}, i * PageSize <= Len(ids)
  PROVE  BlockHas(k, row[i], Prefix(ids, i * PageSize))
<1>1. PICK p \in Nat : p = PageSize /\ p > 0
  BY PageSizeAssumption
<1>2. PICK j \in Nat : j + 1 = i /\ i * p = (j * p) + p /\ j * p \in Nat /\ i * p \in Nat
  <2>1. PICK j \in Nat : j + 1 = i
    OBVIOUS
  <2>2. j * p \in Nat /\ i * p \in Nat /\ i * p = (j * p) + p
    BY <1>1, <2>1, Multiples
  <2> QED BY <2>1, <2>2
<1>3. Len(ids) \in Nat /\ i * p \in 0 .. Len(ids)
  BY <1>1, <1>2
<1>4. PICK b : b = Prefix(ids, i * p) /\ Len(b) = i * p
  BY <1>3, PrefixProperties
<1>5. ASSUME NEW o \in 0 .. PageSize - 1
      PROVE  k[row[i]][o] = Plain(Prefix(b, Len(b) - PageSize + o + 1))
  <2>1. PICK pos \in Nat : pos = (j * p) + o /\ pos + 1 \in 0 .. i * p /\ pos \in 0 .. Len(ids) - 1
    BY <1>1, <1>2, <1>3, <1>5
  <2>2. pos \div PageSize = j /\ pos % PageSize = o
    <3>1. PICK q \in Nat, e \in 0 .. p - 1 :
             q = pos \div PageSize /\ e = pos % PageSize /\ pos = (q * p) + e /\ j <= q
      BY <1>1, <1>2, <2>1, SlotOf
    <3>2. q + 1 <= i
      BY <1>1, <1>2, <2>1, <3>1, SlotOf
    <3>3. q = j
      <4>1. j + 1 = i
        BY <1>2
      <4>2. q \in Nat /\ j <= q
        BY <3>1
      <4> QED BY ONLY <3>2, <4>1, <4>2, j \in Nat
    <3> QED BY <1>1, <1>5, <2>1, <3>1, <3>3
  <2>3. k[row[j + 1]][o] = Plain(Prefix(ids, pos + 1))
    BY <2>1, <2>2 DEF PlainRow
  <2>4. Prefix(b, pos + 1) = Prefix(ids, pos + 1)
    BY <1>3, <1>4, <2>1, PrefixOfPrefix
  <2>5. Len(b) - PageSize + o + 1 = pos + 1
    BY <1>1, <1>2, <1>4, <1>5, <2>1
  <2> QED BY <1>2, <2>3, <2>4, <2>5
<1> QED BY <1>1, <1>4, <1>5 DEF BlockHas

\* A tree with the blocks of the state's, and others the KV is there for.
Extends(nt) ==
    \A b \in Blocks(nt) :
        IF b \in Blocks(tree) THEN nt.page[b] = tree.page[b] ELSE BlockHas(kv, nt.page[b], b)

\* The host's tokens of an object are those of its row.
OnRow(r, u) == \A i \in 1 .. Len(r.input_ids) : Device(u)[i] = r.input_ids[i]

\* insert_prefix, on the row of a request and its tokens ids.
InsertKeeps(u, ids) ==
    /\ PlainRow(kv, Row(u), ids)
    /\ \A m \in 1 .. Len(ids) : Embedded(u, Prefix(Device(u), m)) = Plain(Prefix(ids, m))
    /\ Inserted(tree, ids, Row(u), insert_prefix(tree, ids, Row(u)).tree)
    /\ Extends(insert_prefix(tree, ids, Row(u)).tree)

(* What a request commits is on pages that hold it. *)
LEMMA CommitContent ==
  ASSUME ControlInv, StreamInv, MemoryInv, ContentInv, NEW u \in Holders, NEW r, SameObject(r, u),
         Shareable(u), OnRow(r, u)
  PROVE  InsertKeeps(u, ComputedIds(r))
<1>1. PICK ids \in Seq(Vocab), row \in {Row(u)} : ids = ComputedIds(r) /\ row = Row(u)
  BY ComputedAre
<1>2. /\ IsPrefix(ids, r.input_ids) /\ Len(ids) <= req[u].cached_len /\ Len(ids) \in Nat
      /\ r.input_ids \in Seq(Vocab)
  BY <1>1, ComputedAre DEF SameObject
<1>3. PICK dev \in Seq(Vocab \cup {0}) :
         /\ dev = Device(u) /\ Len(dev) = ConfigMaxSeqLen /\ Len(ids) <= Len(dev)
         /\ \A i \in 1 .. Len(ids) : dev[i] = ids[i]
  <2>1. Device(u) \in [1 .. ConfigMaxSeqLen -> Vocab \cup {0}] /\ ConfigMaxSeqLen \in Nat
    BY HolderFacts, SchedulerAssumption DEF StreamInv, DeviceOK, Device, HolderOK
  <2>2. PICK dev \in [1 .. ConfigMaxSeqLen -> Vocab \cup {0}] : dev = Device(u)
    BY <2>1
  <2>3. dev \in Seq(Vocab \cup {0}) /\ Len(dev) = ConfigMaxSeqLen
    BY <2>1, <2>2, SMT
  <2>4. /\ Len(ids) <= Len(r.input_ids) /\ Len(r.input_ids) \in Nat
        /\ \A i \in 1 .. Len(ids) : ids[i] = r.input_ids[i]
    BY <1>2, IsPrefixDef
  <2>5. \A i \in 1 .. Len(ids) : dev[i] = ids[i]
    BY <1>2, <2>2, <2>4 DEF OnRow
  <2>6. Len(ids) <= ConfigMaxSeqLen
    <3>1. u \in Uids /\ req[u].cached_len \in Nat /\ req[u].cached_len <= ConfigMaxSeqLen
      BY HolderFacts, LengthsBound DEF HolderOK, LengthsFit
    <3> QED BY <1>2, <2>1, <3>1
  <2> QED BY <2>2, <2>3, <2>5, <2>6
<1>4. ASSUME NEW m \in 1 .. Len(ids)
      PROVE  Embedded(u, Prefix(dev, m)) = Plain(Prefix(ids, m))
  <2>1. Prefix(dev, m) = Prefix(ids, m)
    <3>1. ids \in Seq(Vocab \cup {0})
      OBVIOUS
    <3>2. /\ m \in Nat /\ m <= Len(ids) /\ m <= Len(dev)
          /\ \A i \in 1 .. m : dev[i] = ids[i]
      BY <1>2, <1>3
    <3> QED BY <3>1, <3>2, AgreedPrefix
  <2>2. Embedded(u, Prefix(ids, m)) = Plain(Prefix(ids, m))
    BY DEF Embedded, Plain, Shareable
  <2> QED BY <2>1, <2>2
<1>5. PlainRow(kv, row, ids)
  <2> SUFFICES ASSUME NEW pos \in 0 .. Len(ids) - 1
               PROVE  kv[row[pos \div PageSize + 1]][pos % PageSize] = Plain(Prefix(ids, pos + 1))
    BY DEF PlainRow
  <2>1. pos \in 0 .. req[u].cached_len - 1 /\ pos + 1 \in 1 .. Len(ids)
    BY <1>2, HolderFacts DEF HolderOK
  <2>2. kv[row[pos \div PageSize + 1]][pos % PageSize] = Embedded(u, Prefix(dev, pos + 1))
    BY <1>1, <1>3, <2>1, ContentIs DEF ReadsOwn, RowHas
  <2> QED BY <1>4, <2>1, <2>2
<1>6. CommitReady(tree, PoolPages, Handles, Holders, u, ids, row)
  BY <1>1, ReadyToCommit
<1>7. PICK st, old : /\ st = insert_prefix(tree, ids, row).tree
                     /\ old = MatchLen(tree, Prefix(ids, AlignDown(Len(ids))))
  OBVIOUS
<1>8. PICK n \in Nat : n = AlignDown(Len(ids)) /\ n <= Len(ids) /\ n % PageSize = 0
                       /\ n \div PageSize = Len(ids) \div PageSize
  BY <1>2, AlignDownIs
<1>9. Inserted(tree, ids, row, st)
  <2>1. IsTree(tree, Vocab, PoolPages)
    BY LocksAre
  <2>2. old \div PageSize \in Nat
    <3>1. Prefix(ids, n) \in Seq(Vocab) /\ Len(Prefix(ids, n)) = n
      BY <1>2, <1>8, PrefixProperties
    <3>2. old \in Nat
      BY <1>7, <1>8, <3>1, MatchLenBound
    <3> QED BY <3>2, SlotOf
  <2>3. \A i \in old \div PageSize + 1 .. n \div PageSize : row[i] \in PoolPages
    <3>1. row \in Seq(PoolPages) /\ n \div PageSize <= Len(row) /\ n \div PageSize \in Nat
      BY <1>2, <1>6, <1>8, AlignDownIs DEF CommitReady
    <3> QED BY <2>2, <3>1
  <2> QED BY <1>7, <1>8, <2>1, <2>3, InsertTree
<1>10. ASSUME NEW b \in Blocks(st), b \notin Blocks(tree)
       PROVE  BlockHas(kv, st.page[b], b)
  <2>1. b \in NewBlocks(ids, old, n) /\ st.page[b] = row[Len(b) \div PageSize]
    BY <1>7, <1>8, <1>9, <1>10 DEF Inserted
  <2>2. PICK i \in old \div PageSize + 1 .. n \div PageSize : b = Prefix(ids, i * PageSize)
    BY <2>1 DEF NewBlocks
  <2>3. old \div PageSize \in Nat
    <3>1. Prefix(ids, n) \in Seq(Vocab) /\ Len(Prefix(ids, n)) = n
      BY <1>2, <1>8, PrefixProperties
    <3>2. old \in Nat
      BY <1>7, <1>8, <3>1, MatchLenBound
    <3> QED BY <3>2, SlotOf
  <2>4. i \in Nat \ {0} /\ i * PageSize <= n
    <3>1. PICK m \in Nat : m = n \div PageSize /\ n = m * PageSize
      BY <1>8, MultipleOf
    <3>2. i \in Nat \ {0} /\ i <= m
      BY <2>2, <2>3, <3>1
    <3> QED BY <3>1, <3>2, MultipleOrder
  <2>5. i * PageSize \in Nat /\ i * PageSize \in 0 .. Len(ids)
    BY <1>2, <1>8, <2>4, Multiples
  <2>6. Len(b) = i * PageSize /\ Len(b) \div PageSize = i
    BY <2>2, <2>4, <2>5, PrefixProperties, Multiples
  <2>7. BlockHas(kv, row[i], b)
    BY <1>5, <2>2, <2>4, <2>5, RowBlock
  <2> QED BY <2>1, <2>6, <2>7
<1>11. Extends(st)
  BY <1>9, <1>10 DEF Extends, Inserted
<1> QED BY <1>1, <1>3, <1>4, <1>5, <1>7, <1>9, <1>11 DEF InsertKeeps

(* lock_handle moves no page. *)
LEMMA UnlockPages ==
  ASSUME NEW tr, NEW N, IsTree(tr, Vocab, N), NEW path
  PROVE  unlock(tr, path).page = tr.page
<1>1. tr = [page |-> tr.page, ref |-> tr.ref]
  BY DEF IsTree
<1>2. PICK pg, rf : tr = [page |-> pg, ref |-> rf] /\ pg = tr.page
  BY <1>1
<1> QED BY <1>2 DEF unlock

(* What cache_req of a finished request leaves in the tree. *)
LEMMA FinishedTree ==
  ASSUME ControlInv, StreamInv, MemoryInv, ContentInv, NEW u \in Holders, NEW r, SameObject(r, u),
         OnRow(r, u)
  PROVE  Extends(cache_req(u, r, TRUE).tree)
<1>1. IsTree(tree, Vocab, PoolPages) /\ page_table[r.table_idx] = Row(u)
  BY LocksAre DEF SameObject, Row
<1>2. CASE ~Shareable(u)
  <2>1. cache_req(u, r, TRUE).tree = unlock(tree, r.handle)
    BY <1>2 DEF cache_req
  <2> QED BY <1>1, <2>1, UnlockPages DEF Extends, Blocks
<1>3. CASE Shareable(u)
  <2>1. PICK st : st = insert_prefix(tree, ComputedIds(r), Row(u)).tree
    OBVIOUS
  <2>2. Extends(st)
    BY <1>3, <2>1, CommitContent DEF InsertKeeps
  <2>3. IsTree(st, Vocab, PoolPages)
    <3>1. CommitResult(tree, PoolPages, Handles, Holders, u, ComputedIds(r), Row(u))
      BY ReadyToCommit, CommitCuts
    <3> QED BY <2>1, <3>1 DEF CommitResult, TreeOf
  <2>4. cache_req(u, r, TRUE).tree = unlock(st, r.handle)
    BY <1>1, <1>3, <2>1 DEF cache_req
  <2>5. unlock(st, r.handle).page = st.page
    BY <2>3, UnlockPages
  <2> QED BY <2>2, <2>4, <2>5 DEF Extends, Blocks
<1> QED BY <1>2, <1>3

(* A request gives up its row: the tree keeps what it computed. *)
LEMMA ReleaseContent ==
  ASSUME ControlInv, ContractInv, StreamInv, MemoryInv, ContentInv, ControlInv', MemoryInv',
         NEW u \in Holders, NEW r \in Reqs, SameObject(r, u), OnRow(r, u),
         FreeRow(u, r, cache_req(u, r, TRUE)), SlotsStay
  PROVE  ContentInv'
<1>1. u \in Uids /\ Held(u) /\ r.table_idx = req[u].table_idx /\ req[u].table_idx \in Tables
  BY HolderFacts DEF SameObject, Holders, HolderOK
<1>2. PICK commit : commit = cache_req(u, r, TRUE)
  OBVIOUS
<1>3. FreeRow(u, r, commit)
  BY <1>2
<1>4. \A v \in Uids : KeepsRow(v)
  BY <1>1, <1>3, RowFreed
<1>5. /\ tree' = commit.tree
      /\ page_table' = [page_table EXCEPT ![r.table_idx] = <<>>]
      /\ req' = [req EXCEPT ![u] = [r EXCEPT !.table_idx = NoTable]]
  BY <1>3 DEF FreeRow
<1>6. PagesStay
  BY <1>2, <1>5, FinishedTree DEF Extends, PagesStay
<1>7. ASSUME NEW v \in Holders' PROVE Steady(v)
  <2>1. v \in Uids /\ Held(v)' /\ Held(v) /\ v \in Holders
        /\ token_pool'[req[v].table_idx] = token_pool[req[v].table_idx]
    BY <1>4, <1>7 DEF KeepsRow, Holders
  <2>2. req \in [Uids -> Reqs]
    BY DEF ControlInv, ControlTypes
  <2>3. v # u
    <3>1. req'[u] = [r EXCEPT !.table_idx = NoTable]
      BY <1>1, <1>5, <2>2
    <3>2. req'[u].table_idx = NoTable
      BY <3>1 DEF Reqs
    <3> QED BY <2>1, <3>2 DEF Held
  <2>4. req'[v] = req[v]
    BY <1>5, <2>1, <2>2, <2>3
  <2>5. req[v].table_idx # req[u].table_idx
    BY <2>1, <2>3 DEF ControlInv, TablesOK
  <2>6. page_table'[req[v].table_idx] = page_table[req[v].table_idx]
    BY <1>1, <1>5, <2>5, HolderFacts, <2>1 DEF HolderOK, MemoryInv, RowsOK
  <2> QED BY <2>1, <2>4, <2>6 DEF Steady
<1> QED BY <1>6, <1>7, ContentStep

(* The pool's pages are of those the model numbers ... *)
LEMMA PoolFitsHere == ControlInv => PoolPages \subseteq Pages
BY PoolFits

\* ... and after a step.
LEMMA PoolFitsThen == ControlInv' => PoolPages' \subseteq Pages
<1>1. ControlInv' => (PoolPages \subseteq Pages)'
  BY PoolFitsHere, PTL
<1> QED BY <1>1 DEF Pages

(* Pages appended to the free list are free, and may be blanked. *)
LEMMA FreedStays ==
  ASSUME ControlInv', NEW N, free_slots \in Seq(N), NEW pages \in Seq(N),
         free_slots' = free_slots \o pages, kv' = Scrub(pages)
  PROVE  SlotsStay
<1>1. PICK a, c : a \in Seq(N) /\ a = free_slots /\ c = a \o pages /\ c = free_slots'
  OBVIOUS
<1>2. IsConcat(c, a, pages, N)
  BY <1>1, ConcatTwo
<1>3. ASSUME NEW p \in ToSet(pages) PROVE \E i \in 1 .. Len(c) : c[i] = p
  <2>1. PICK j \in 1 .. Len(pages) : pages[j] = p
    BY <1>3 DEF ToSet
  <2>2. Len(a) + j \in 1 .. Len(c) /\ c[Len(a) + j] = p
    BY <1>1, <1>2, <2>1 DEF IsConcat
  <2> QED BY <2>2
<1> QED BY <1>1, <1>3, PoolFitsThen, ScrubStays

(* The host's tokens of a holder are those of its row. *)
LEMMA ObjectOnRow ==
  ASSUME ControlInv, StreamInv, NEW u \in Holders
  PROVE  OnRow(req[u], u) /\ req[u] \in Reqs /\ u \in Uids
BY DEF OnRow, StreamInv, DeviceOK, RowOK, Holders, ControlInv, ControlTypes

(* An abort, a message, a rebuild request: what is kept is left alone, and a
   held row is given up. *)
LEMMA ReceiveContent ==
  ASSUME ControlInv, ContractInv, StreamInv, MemoryInv, ContentInv, ControlInv', MemoryInv', Receive
  PROVE  ContentInv'
<1>1. ASSUME UNCHANGED <<req, device>> PROVE ContentInv'
  <2>1. SlotsStay
    BY <1>1 DEF SlotsStay, device
  <2> QED BY <1>1, <2>1, QuietContent DEF SameSlots, device
<1>2. ASSUME NEW u \in Uids, UserAborted(u) \/ UserTooLong(u) \/ UserQueued(u) \/ AbortUnheld(u)
      PROVE  ContentInv'
  BY <1>1, <1>2 DEF UserAborted, UserTooLong, UserQueued, AbortUnheld
<1>3. ASSUME NEW n \in RebuildSizes, RebuildReceived(n) PROVE ContentInv'
  BY <1>1, <1>3 DEF RebuildReceived
<1>4. ASSUME NEW u \in Uids, AbortInFlight(u) PROVE ContentInv'
  <2>1. req' = [req EXCEPT ![u].aborted = TRUE] /\ UNCHANGED device
    BY <1>4 DEF AbortInFlight
  <2>2. req \in [Uids -> Reqs]
    BY DEF ControlInv, ControlTypes
  <2>3. \A v \in Uids : SameSlots(v)
    <3>1. PICK r \in Reqs : r = req[u]
      BY <2>2
    <3>2. req'[u] = [r EXCEPT !.aborted = TRUE] /\ \A v \in Uids \ {u} : req'[v] = req[v]
      BY <2>1, <2>2, <3>1
    <3>3. PICK s : s = [r EXCEPT !.aborted = TRUE]
      OBVIOUS
    <3>4. s.table_idx = r.table_idx /\ s.handle = r.handle /\ s.cached_len = r.cached_len
      BY <3>3 DEF Reqs
    <3> QED BY <3>1, <3>2, <3>3, <3>4 DEF SameSlots
  <2>4. SlotsStay
    BY <2>1 DEF SlotsStay, device
  <2> QED BY <2>1, <2>3, <2>4, QuietContent DEF device
<1>5. ASSUME NEW u \in Uids, AbortHeld(u) PROVE ContentInv'
  <2>1. CASE req[u].table_idx = NoTable
    BY <1>1, <1>5, <2>1 DEF AbortHeld
  <2>2. CASE req[u].table_idx # NoTable
    <3>1. u \in Holders
      BY <2>2 DEF Holders, Held
    <3>2. PICK r \in Reqs : r = req[u] /\ OnRow(r, u) /\ SameObject(r, u)
      BY <3>1, ObjectOnRow, ObjectSame
    <3>3. PICK freed : freed = cache_req(u, r, TRUE).freed
      OBVIOUS
    <3>4. FreeRow(u, r, cache_req(u, r, TRUE)) /\ free_slots' = free_slots \o freed
          /\ kv' = Scrub(freed)
      BY <1>5, <2>2, <3>2, <3>3 DEF AbortHeld
    <3>5. freed \in Seq(PoolPages)
      BY <3>1, <3>2, <3>3, FinishedReleases DEF Released
    <3>6. free_slots \in Seq(PoolPages)
      BY DEF MemoryInv, FreeOK
    <3>7. SlotsStay
      BY <3>4, <3>5, <3>6, FreedStays
    <3> QED BY <3>1, <3>2, <3>4, <3>7, ReleaseContent
  <2> QED BY <2>1, <2>2
<1> QED BY <1>2, <1>3, <1>4, <1>5 DEF Receive

(* The token a visit appends is the row's next. *)
LEMMA AppendedOnRow ==
  ASSUME NEW u \in Uids, u = entry.uid, ControlInv, ContractInv, StreamInv, MemoryInv, Sampled
  PROVE  OnRow(appended, u) /\ appended \in Reqs
<1>1. u \in Holders /\ req[u] \in Reqs /\ object = req[u]
  BY AppendedSame DEF ControlInv, ControlTypes, object
<1>2. PICK r \in Reqs, ids \in Seq(Vocab), token \in Vocab :
         r = req[u] /\ ids = r.input_ids /\ token = entry.token
  <2>1. entry.token \in Vocab
    BY RepliedStream
  <2> QED BY <1>1, <2>1 DEF Reqs
<1>3. appended = [r EXCEPT !.input_ids = Append(ids, token)]
  BY <1>1, <1>2 DEF appended
<1>4. appended \in Reqs /\ appended.input_ids = Append(ids, token)
  <2>1. PICK more \in Seq(Vocab) : more = Append(ids, token)
    BY Appending
  <2>2. appended = [r EXCEPT !.input_ids = more]
    BY <1>3, <2>1
  <2>3. [r EXCEPT !.input_ids = more] \in Reqs /\ [r EXCEPT !.input_ids = more].input_ids = more
    BY DEF Reqs
  <2> QED BY <2>1, <2>2, <2>3
<1>5. /\ Visit /\ ~entry.chunked /\ ~(r.n = entry.n /\ r.aborted)
  BY <1>1, <1>2 DEF Sampled, EntryAborted
<1>6. PICK old : old = Old /\ old \in Seq(Entries) /\ old = drain /\ EntryOK(entry)
  BY <1>5, VisitFacts
<1>7. r.n = entry.n /\ ~r.chunked /\ ~r.aborted
  BY <1>2, <1>5, <1>6 DEF EntryOK
<1>8. 1 \in 1 .. Len(old) /\ old[1] = entry
  BY <1>5, <1>6 DEF Visit, entry
<1>9. RowOK(u)
  BY <1>1 DEF StreamInv, DeviceOK
<1>10. /\ \A k \in 1 .. Len(ids) : Device(u)[k] = ids[k]
       /\ Device(u)[Len(ids) + 1] = token
  BY <1>2, <1>6, <1>7, <1>8, <1>9 DEF RowOK
<1>11. \A k \in 1 .. Len(Append(ids, token)) : Device(u)[k] = Append(ids, token)[k]
  BY <1>10
<1> QED BY <1>4, <1>11 DEF OnRow

(* Locks come and go, pages stay. *)
LEMMA RelockPages ==
  ASSUME NEW tr, NEW N, IsTree(tr, Vocab, N), NEW path, NEW handle
  PROVE  lock(unlock(tr, handle), path).page = tr.page
<1>1. tr = [page |-> tr.page, ref |-> tr.ref]
  BY DEF IsTree
<1>2. PICK pg, rf : tr = [page |-> pg, ref |-> rf] /\ pg = tr.page
  BY <1>1
<1>3. PICK rg : rg = [n \in DOMAIN rf |-> IF IsPrefix(n, handle) THEN rf[n] - 1 ELSE rf[n]]
  OBVIOUS
<1>4. unlock(tr, handle) = [page |-> pg, ref |-> rg]
  BY <1>2, <1>3 DEF unlock, Nodes
<1>5. lock([page |-> pg, ref |-> rg], path).page = pg
  BY DEF lock
<1> QED BY <1>2, <1>4, <1>5

\* What cache_req leaves a running request with: row on path, in the tree st.
OnPath(u, st, path, row) ==
    /\ path \in Seq(Vocab) /\ IsTree(st, Vocab, PoolPages) /\ Extends(st)
    /\ OnHandle(st, row, path)
    /\ RowHas(kv, u, row, Device(u), req[u].cached_len)

(* The request is re-pointed at pages that hold the KV of its own tokens. *)
LEMMA RepointedContent ==
  ASSUME ControlInv, StreamInv, MemoryInv, ContentInv, NEW u \in Holders, NEW r, SameObject(r, u),
         Shareable(u), OnRow(r, u), NEW ins, ins = insert_prefix(tree, ComputedIds(r), Row(u)),
         NEW canonical, canonical = get_matched_indices(ins.tree, ins.path)
  PROVE  OnPath(u, ins.tree, ins.path,
                Repointed(Row(u), canonical, Len(req[u].handle), ins.cached_len))
<1>1. PICK ids, row : ids = ComputedIds(r) /\ row = Row(u)
  OBVIOUS
<1>2. PICK st, path : st = ins.tree /\ path = ins.path
  OBVIOUS
<1>3. PICK handle, n, dev : handle = req[u].handle /\ n = req[u].cached_len /\ dev = Device(u)
  OBVIOUS
<1>4. /\ handle \in Seq(Vocab) /\ handle \in Nodes(tree) \cup {<<>>} /\ n \in Nat
      /\ row \in Seq(PoolPages) /\ Len(row) = CeilPages(n)
  BY <1>1, <1>3, HolderFacts DEF HolderOK
<1>5. /\ ids \in Seq(Vocab) /\ IsPrefix(handle, ids)
      /\ CommitReady(tree, PoolPages, Handles, Holders, u, ids, row) /\ Handles[u] = handle
  BY <1>1, <1>3, ReadyToCommit DEF CommitReady
<1>6. CommitResult(tree, PoolPages, Handles, Holders, u, ids, row)
  BY <1>5, CommitCuts
<1>7. PICK k0 \in Nat, k1 \in Nat, k2 \in Nat : Cuts(tree, handle, ids, row, k0, k1, k2)
  BY <1>5, <1>6 DEF CommitResult
<1>8. /\ Len(handle) = k0 * PageSize /\ Len(handle) \div PageSize = k0
      /\ ins.cached_len = k1 * PageSize /\ ins.cached_len \div PageSize = k1
      /\ Len(path) = k2 * PageSize /\ Len(path) \div PageSize = k2
      /\ k0 <= k1 /\ k1 <= k2 /\ k2 <= Len(row)
      /\ path \in Seq(Vocab) /\ IsPrefix(path, ids) /\ Len(path) <= Len(ids)
  BY <1>1, <1>2, <1>7 DEF Cuts
<1>9. IsTree(st, Vocab, PoolPages) /\ path \in Nodes(st) \cup {<<>>}
  BY <1>1, <1>2, <1>6 DEF CommitResult, TreeOf
<1>10. /\ \A m \in 1 .. Len(ids) : Embedded(u, Prefix(dev, m)) = Plain(Prefix(ids, m))
       /\ Inserted(tree, ids, row, st) /\ Extends(st)
  BY <1>1, <1>2, <1>3, CommitContent DEF InsertKeeps
<1>11. PICK new : new = Repointed(row, canonical, Len(handle), ins.cached_len)
  OBVIOUS
<1>12. \A i \in 1 .. Len(row) : new[i] = IF i \in k0 + 1 .. k1 THEN canonical[i] ELSE row[i]
  BY <1>4, <1>8, <1>11 DEF Repointed
<1>13. ASSUME NEW i \in 1 .. k2 PROVE new[i] = st.page[Prefix(path, i * PageSize)]
  <2>1. /\ i \in 1 .. Len(row) /\ i * PageSize \in 1 .. Len(path) /\ Len(path) \in Nat
        /\ Prefix(path, i * PageSize) \in Blocks(st)
    BY <1>4, <1>8, <1>9, PathBlocks
  <2>2. PICK b : b = Prefix(path, i * PageSize)
    OBVIOUS
  <2>3. CASE i <= k0
    <3>1. IsPrefix(handle, path)
      <4>1. Len(handle) <= Len(path)
        BY <1>8, MultipleOrder
      <4> QED BY <1>4, <1>5, <1>8, <4>1, PrefixChain
    <3>2. handle = Prefix(path, Len(handle)) /\ Len(handle) \in 0 .. Len(path)
      BY <1>4, <1>8, <3>1, PrefixIsCut
    <3>3. i \in 1 .. Len(handle) \div PageSize
      BY <1>8, <2>3
    <3>4. i * PageSize \in 1 .. Len(handle) /\ Prefix(handle, i * PageSize) \in Blocks(tree)
      BY <1>4, <3>3, LocksAre, PathBlocks
    <3>5. Prefix(handle, i * PageSize) = b
      <4>1. PICK m : m = Len(handle) /\ m \in 0 .. Len(path) /\ i * PageSize \in 0 .. m
        BY <3>2, <3>4
      <4>2. Prefix(Prefix(path, m), i * PageSize) = Prefix(path, i * PageSize)
        BY <1>8, <4>1, PrefixOfPrefix
      <4> QED BY <2>2, <3>2, <4>1, <4>2
    <3>6. row[i] = tree.page[b]
      BY <1>1, <1>3, <3>3, <3>5, ContentIs DEF ReadsOwn, OnHandle
    <3>7. st.page[b] = tree.page[b]
      BY <1>10, <3>4, <3>5 DEF Inserted
    <3> QED BY <1>12, <2>1, <2>2, <2>3, <3>6, <3>7
  <2>4. CASE i \in k0 + 1 .. k1
    <3>1. canonical[i] = st.page[b]
      BY <1>2, <1>8, <2>2 DEF get_matched_indices
    <3> QED BY <1>12, <2>1, <2>2, <2>4, <3>1
  <2>5. CASE k1 < i
    <3>1. PICK w \in Nat, old \in Nat :
             /\ w = AlignDown(Len(ids)) /\ path = Prefix(ids, w) /\ Len(path) = w
             /\ old = MatchLen(tree, Prefix(ids, AlignDown(Len(ids)))) /\ ins.cached_len = old
      <4>1. AlignDown(Len(ids)) \in 0 .. Len(ids)
        BY <1>5, AlignDownIs
      <4>2. ins.path = Prefix(ids, AlignDown(Len(ids)))
            /\ ins.cached_len = MatchLen(tree, Prefix(ids, AlignDown(Len(ids))))
        BY <1>1 DEF insert_prefix
      <4>3. Len(Prefix(ids, AlignDown(Len(ids)))) = AlignDown(Len(ids))
            /\ Prefix(ids, AlignDown(Len(ids))) \in Seq(Vocab)
        BY <1>5, <4>1, PrefixProperties
      <4>4. MatchLen(tree, Prefix(ids, AlignDown(Len(ids)))) \in Nat
        BY <4>1, <4>3, MatchLenBound
      <4> QED BY <1>2, <4>1, <4>2, <4>3, <4>4
    <3>2. Prefix(ids, i * PageSize) = b
      BY <1>5, <1>8, <2>1, <2>2, <3>1, PrefixOfPrefix
    <3>3. b \in NewBlocks(ids, old, w)
      BY <1>8, <2>5, <3>1, <3>2 DEF NewBlocks
    <3>4. st.page[b] = row[Len(b) \div PageSize]
      BY <1>10, <3>1, <3>3 DEF Inserted
    <3>5. Len(b) = i * PageSize
      BY <1>8, <2>1, <2>2, PrefixProperties
    <3>6. Len(b) \div PageSize = i
      BY <3>5, Multiples
    <3> QED BY <1>12, <2>1, <2>2, <2>5, <3>4, <3>6
  <2> QED BY <1>8, <2>3, <2>4, <2>5
<1>14. OnHandle(st, new, path)
  BY <1>8, <1>13 DEF OnHandle
<1>15. TreeHas(kv, st)
  BY <1>10, ContentIs DEF Extends, TreeHas
<1>16. ASSUME NEW pos \in 0 .. n - 1
       PROVE  kv[new[pos \div PageSize + 1]][pos % PageSize] = Embedded(u, Prefix(dev, pos + 1))
  <2>1. PICK c \in Nat : c = CeilPages(n) /\ n <= c * PageSize /\ c * PageSize \in Nat
    BY <1>4, CeilIs, Multiples
  <2>2. pos \in Nat /\ pos < c * PageSize
    BY <1>4, <2>1
  <2>3. PICK j \in Nat : j = pos \div PageSize /\ j + 1 <= c
    BY <2>2, SlotOf
  <2>4. j + 1 \in 1 .. Len(row)
    BY <1>4, <2>1, <2>3
  <2>5. CASE pos < Len(path)
    <3>1. /\ j + 1 \in 1 .. k2
          /\ kv[st.page[Prefix(path, (j + 1) * PageSize)]][pos % PageSize] = Plain(Prefix(path, pos + 1))
      BY <1>8, <1>9, <1>15, <2>2, <2>3, <2>5, PathContent
    <3>2. new[j + 1] = st.page[Prefix(path, (j + 1) * PageSize)]
      BY <1>13, <3>1
    <3>3. Prefix(path, pos + 1) = Prefix(ids, pos + 1)
      <4>1. path = Prefix(ids, Len(path)) /\ Len(path) \in 0 .. Len(ids)
        BY <1>5, <1>8, PrefixIsCut
      <4>2. PICK m : m = Len(path) /\ m \in 0 .. Len(ids) /\ pos + 1 \in 0 .. m
        BY <2>2, <2>5, <4>1
      <4> QED BY <1>5, <4>1, <4>2, PrefixOfPrefix
    <3>4. pos + 1 \in 1 .. Len(ids)
      BY <1>5, <1>8, <2>2, <2>5
    <3> QED BY <1>10, <2>3, <3>1, <3>2, <3>3, <3>4
  <2>6. CASE ~(pos < Len(path))
    <3>1. k2 * PageSize <= pos
      BY <1>8, <2>2, <2>6, Multiples
    <3>2. k2 <= j
      BY <2>2, <2>3, <3>1, SlotOf
    <3>3. new[j + 1] = row[j + 1]
      BY <1>8, <1>12, <2>4, <3>2
    <3> QED BY <1>1, <1>3, <1>16, <2>3, <3>3, ContentIs DEF ReadsOwn, RowHas
  <2> QED BY <2>5, <2>6
<1>17. RowHas(kv, u, new, dev, n)
  BY <1>16 DEF RowHas
<1> QED BY <1>1, <1>2, <1>3, <1>8, <1>9, <1>10, <1>11, <1>14, <1>17 DEF OnPath

(* A running request's computed tokens are committed, and it reads on from the
   tree's pages. *)
LEMMA KeptContent ==
  ASSUME ControlInv, StreamInv, MemoryInv, ContentInv, ControlInv', MemoryInv',
         NEW u \in Holders, NEW r \in Reqs, SameObject(r, u), OnRow(r, u),
         NEW commit, commit = cache_req(u, r, FALSE),
         tree' = commit.tree, page_table' = [page_table EXCEPT ![r.table_idx] = commit.row],
         req' = [req EXCEPT ![u] = [r EXCEPT !.handle = commit.handle]],
         token_pool' = token_pool, kv' = kv
  PROVE  ContentInv'
<1>1. SlotsStay
  BY DEF SlotsStay
<1>2. PICK t \in Tables : t = r.table_idx /\ t = req[u].table_idx /\ page_table[t] = Row(u)
  BY HolderFacts DEF SameObject, HolderOK, Row
<1>3. PICK handle, s : handle = commit.handle /\ s = [r EXCEPT !.handle = handle]
  OBVIOUS
<1>4. /\ req \in [Uids -> Reqs] /\ u \in Uids /\ page_table \in [Tables -> Seq(PoolPages)]
      /\ r.cached_len = req[u].cached_len
  BY HolderFacts DEF ControlInv, ControlTypes, MemoryInv, RowsOK, SameObject, HolderOK
<1>5. /\ req'[u] = s /\ s.table_idx = t /\ s.handle = handle /\ s.cached_len = req[u].cached_len
      /\ \A v \in Uids \ {u} : req'[v] = req[v]
  <2>1. req'[u] = s /\ \A v \in Uids \ {u} : req'[v] = req[v]
    BY <1>3, <1>4
  <2>2. s.table_idx = r.table_idx /\ s.handle = handle /\ s.cached_len = r.cached_len
    BY <1>3 DEF Reqs
  <2> QED BY <1>2, <1>4, <2>1, <2>2
<1>6. IsTree(tree, Vocab, PoolPages)
  BY LocksAre
<1>7. CASE ~Shareable(u)
  <2>1. /\ commit.tree = unlock(tree, r.handle) /\ commit.row = page_table[t]
        /\ commit.handle = r.handle
    BY <1>2, <1>7 DEF cache_req
  <2>2. tree'.page = tree.page
    BY <1>6, <2>1, UnlockPages
  <2>3. page_table' = page_table
    BY <1>2, <1>4, <2>1
  <2>4. \A v \in Uids : SameSlots(v)
    BY <1>2, <1>3, <1>5, <2>1 DEF SameSlots, SameObject
  <2> QED BY <1>1, <2>2, <2>3, <2>4, QuietContent
<1>8. CASE Shareable(u)
  <2>1. PICK ins : ins = insert_prefix(tree, ComputedIds(r), Row(u))
    OBVIOUS
  <2>2. PICK canonical : canonical = get_matched_indices(ins.tree, ins.path)
    OBVIOUS
  <2>3. PICK row : row = Repointed(Row(u), canonical, Len(req[u].handle), ins.cached_len)
    OBVIOUS
  <2>4. /\ commit.tree = lock(unlock(ins.tree, r.handle), ins.path) /\ commit.row = row
        /\ commit.handle = ins.path
    BY <1>2, <1>8, <2>1, <2>2, <2>3 DEF cache_req, SameObject
  <2>5. OnPath(u, ins.tree, ins.path, row)
    BY <1>8, <2>1, <2>2, <2>3, RepointedContent
  <2>6. tree'.page = ins.tree.page
    <3>1. PICK st, path : st = ins.tree /\ path = ins.path /\ IsTree(st, Vocab, PoolPages)
      BY <2>5 DEF OnPath
    <3>2. lock(unlock(st, r.handle), path).page = st.page
      BY <3>1, RelockPages
    <3> QED BY <2>4, <3>1, <3>2
  <2>7. PagesStay
    BY <2>5, <2>6 DEF OnPath, Extends, PagesStay, Blocks
  <2>8. ASSUME NEW v \in Holders', v # u PROVE Steady(v)
    <3>1. v \in Uids /\ req'[v] = req[v] /\ v \in Holders
      BY <1>5, <2>8 DEF Holders, Held
    <3>2. req[v].table_idx # t
      BY <1>2, <2>8, <3>1 DEF ControlInv, TablesOK
    <3>3. page_table'[req[v].table_idx] = page_table[req[v].table_idx]
      BY <1>2, <1>4, <3>1, <3>2, HolderFacts DEF HolderOK
    <3> QED BY <3>1, <3>3 DEF Steady
  <2>9. ReadsOwn(u)'
    <3>1. page_table'[t] = row
      BY <1>2, <1>4, <2>4
    <3>2. /\ Row(u)' = row /\ Device(u)' = Device(u) /\ req'[u].handle = ins.path
          /\ req'[u].cached_len = req[u].cached_len
      BY <1>2, <1>3, <1>5, <2>4, <3>1 DEF Row, Device
    <3>3. OnHandle(tree', row, ins.path)
      BY <2>5, <2>6 DEF OnPath, OnHandle
    <3> QED BY <2>5, <3>2, <3>3 DEF OnPath, ReadsOwn
  <2> QED BY <1>1, <2>7, <2>8, <2>9, ContentStep
<1> QED BY <1>7, <1>8

(* _free_req_resources in the drain. *)
LEMMA FreeLazilyContent ==
  ASSUME ControlInv, ContractInv, StreamInv, MemoryInv, ContentInv, ControlInv', MemoryInv',
         NEW u \in Uids, NEW r \in Reqs, FreeLazily(u, r), kv' = kv,
         u \in Holders => SameObject(r, u) /\ OnRow(r, u),
         u \notin Holders => r = req[u]
  PROVE  ContentInv'
<1>1. SlotsStay
  BY DEF SlotsStay
<1>2. CASE u \in Holders
  <2>1. FreeRow(u, r, cache_req(u, r, TRUE))
    BY <1>2 DEF FreeLazily, SameObject, Holders, Held
  <2> QED BY <1>1, <1>2, <2>1, ReleaseContent
<1>3. CASE u \notin Holders
  <2>1. r = req[u] /\ r.table_idx = NoTable
    BY <1>3 DEF Holders, Held
  <2>2. req' = req /\ UNCHANGED <<tree, page_table, token_pool>>
    BY <2>1 DEF FreeLazily, ControlInv, ControlTypes
  <2> QED BY <1>1, <2>2, QuietContent DEF SameSlots
<1> QED BY <1>2, <1>3

(* Every case of the result drain. *)
LEMMA DrainContent ==
  ASSUME ControlInv, ContractInv, StreamInv, MemoryInv, ContentInv, ControlInv', MemoryInv',
         DrainChunk \/ DrainAborted \/ DrainStale \/ DrainFinished \/ DrainPrefilled \/ DrainDecoded
  PROVE  ContentInv'
<1>1. Visit /\ kv' = kv
  BY DEF DrainChunk, DrainAborted, DrainStale, DrainFinished, DrainPrefilled, DrainDecoded, Sampled, Visit
<1>2. PICK u \in Uids : u = entry.uid
  BY <1>1, VisitFacts
<1>3. req \in [Uids -> Reqs] /\ object = req[u]
  BY <1>2 DEF ControlInv, ControlTypes, object
<1>4. SlotsStay
  BY <1>1 DEF SlotsStay
<1>5. ASSUME FreeLazily(u, object) PROVE ContentInv'
  <2>1. u \in Holders => SameObject(req[u], u) /\ OnRow(req[u], u)
    BY ObjectSame, ObjectOnRow
  <2> QED BY <1>1, <1>3, <1>5, <2>1, FreeLazilyContent
<1>6. ASSUME UNCHANGED <<req, tree, page_table, token_pool>> PROVE ContentInv'
  BY <1>4, <1>6, QuietContent DEF SameSlots
<1>7. CASE DrainChunk
  BY <1>2, <1>5, <1>6, <1>7 DEF DrainChunk
<1>8. CASE DrainAborted
  BY <1>2, <1>5, <1>8 DEF DrainAborted
<1>9. CASE DrainStale
  BY <1>6, <1>9 DEF DrainStale
<1>10. ASSUME Sampled
       PROVE  u \in Holders /\ SameObject(appended, u) /\ OnRow(appended, u) /\ appended \in Reqs
  BY <1>2, <1>10, AppendedSame, AppendedOnRow
<1>11. PICK r : r = appended
  OBVIOUS
<1>12. CASE DrainFinished
  <2>1. Sampled /\ FreeLazily(u, r)
    BY <1>2, <1>11, <1>12 DEF DrainFinished
  <2> QED BY <1>1, <1>10, <1>11, <2>1, FreeLazilyContent
<1>13. CASE DrainPrefilled
  <2>1. u \in Holders /\ SameObject(r, u) /\ OnRow(r, u) /\ r \in Reqs
    BY <1>10, <1>11, <1>13 DEF DrainPrefilled
  <2>2. PICK commit : commit = cache_req(u, r, FALSE)
    OBVIOUS
  <2>3. /\ tree' = commit.tree
        /\ page_table' = [page_table EXCEPT ![r.table_idx] = commit.row]
        /\ req' = [req EXCEPT ![u] = [r EXCEPT !.handle = commit.handle]]
        /\ token_pool' = token_pool
    <3>1. object.table_idx = r.table_idx
      BY <1>3, <2>1 DEF SameObject
    <3> QED BY <1>2, <1>11, <1>13, <2>2, <3>1 DEF DrainPrefilled
  <2> QED BY <1>1, <2>1, <2>2, <2>3, KeptContent
<1>14. CASE DrainDecoded
  <2>1. u \in Holders /\ SameObject(r, u) /\ req' = [req EXCEPT ![u] = r]
        /\ UNCHANGED <<tree, page_table, token_pool>>
    BY <1>2, <1>10, <1>11, <1>14 DEF DrainDecoded
  <2>2. req'[u] = r /\ \A v \in Uids \ {u} : req'[v] = req[v]
    BY <1>3, <2>1
  <2>3. \A v \in Uids : SameSlots(v)
    BY <2>1, <2>2 DEF SameObject, SameSlots
  <2> QED BY <1>4, <2>1, <2>3, QuietContent
<1> QED BY <1>7, <1>8, <1>9, <1>12, <1>13, <1>14

(* The steps that touch no row and no object, and at most split a node. *)
LEMMA StillContent ==
  ASSUME ControlInv, MemoryInv, ContentInv, ControlInv', MemoryInv',
         EndReceive \/ RebuildRejected \/ ChunkMultimodal \/ NoLaunch \/ Quiescent \/ UNCHANGED vars
  PROVE  ContentInv'
<1>1. UNCHANGED <<req, page_table, token_pool, kv>>
  BY DEF EndReceive, RebuildRejected, ChunkMultimodal, NoLaunch, Quiescent, vars, device
<1>2. tree'.page = tree.page
  <2>1. CASE NoLaunch
    <3>1. pc = "plan" /\ tree' = tree_after_plan
      BY <2>1 DEF NoLaunch, Refused
    <3> QED BY <3>1, PlanPages
  <2>2. CASE ~NoLaunch
    BY <2>2 DEF EndReceive, RebuildRejected, ChunkMultimodal, Quiescent, vars, device
  <2> QED BY <2>1, <2>2
<1>3. SlotsStay
  BY <1>1 DEF SlotsStay
<1> QED BY <1>1, <1>2, <1>3, QuietContent DEF SameSlots

(* The lazy region's pages are blanked as they become free. *)
LEMMA EndIterationContent ==
  ASSUME ControlInv, MemoryInv, ContentInv, ControlInv', MemoryInv', EndIteration
  PROVE  ContentInv'
<1>1. /\ free_slots' = free_slots \o lazy_free_list /\ kv' = Scrub(lazy_free_list)
      /\ UNCHANGED <<req, tree, page_table, token_pool>>
  BY DEF EndIteration
<1>2. free_slots \in Seq(PoolPages) /\ lazy_free_list \in Seq(PoolPages)
  BY DEF MemoryInv, FreeOK
<1>3. SlotsStay
  BY <1>1, <1>2, FreedStays
<1> QED BY <1>1, <1>3, QuietContent DEF SameSlots

(* With no holder and no block there is nothing to read. *)
LEMMA RebuildContent ==
  ASSUME ControlInv, MemoryInv, MemoryInv', RebuildDone
  PROVE  ContentInv'
<1>1. pc = "recv" /\ RebuildDue /\ req' = req /\ tree' = EmptyTree
  BY DEF RebuildDone
<1>5. Holders = {}
  BY <1>1, NobodyHolds
<1>6. Holders' = {}
  BY <1>1, <1>5 DEF Holders, Held
<1>2. Blocks(tree') = {}
  BY <1>1 DEF EmptyTree, Blocks
<1> QED BY <1>1, <1>2, <1>6, ContentThen DEF TreeHas

(* A start holds nothing. *)
LEMMA InitContent ==
  ASSUME Init
  PROVE  ContentInv
<1>1. Holders = {} /\ Blocks(tree) = {}
  BY DEF Init, Holders, Held, NoReq, EmptyTree, Blocks
<1> QED BY <1>1, ContentIs DEF TreeHas

\* A cut, entry by entry.
LEMMA CutIs ==
  ASSUME NEW a, NEW i \in Nat
  PROVE  Prefix(a, i) = [j \in 1 .. i |-> a[j]]
BY ONLY i \in Nat, SMT DEF Prefix

(* Rows with the same first tokens are read alike. *)
LEMMA SameCuts ==
  ASSUME NEW m \in Nat, NEW a, NEW b, \A i \in 1 .. m : a[i] = b[i]
  PROVE  \A i \in 0 .. m : Prefix(a, i) = Prefix(b, i)
<1> SUFFICES ASSUME NEW i \in 0 .. m PROVE Prefix(a, i) = Prefix(b, i)
  OBVIOUS
<1>1. \A j \in 1 .. i : a[j] = b[j]
  OBVIOUS
<1>2. /\ Prefix(a, i) = [j \in 1 .. i |-> a[j]] /\ Prefix(b, i) = [j \in 1 .. i |-> b[j]]
  <2>1. i \in Nat
    OBVIOUS
  <2> QED BY <2>1, CutIs
<1> QED BY <1>1, <1>2, Zenon

\* Whatever reads a row with the tokens a reads it with the tokens b.
LEMMA SameReads ==
  ASSUME NEW k, NEW v, NEW row, NEW m \in Nat, NEW a, NEW b, RowHas(k, v, row, a, m),
         \A i \in 1 .. m : a[i] = b[i]
  PROVE  RowHas(k, v, row, b, m)
<1> SUFFICES ASSUME NEW pos \in 0 .. m - 1
             PROVE  k[row[pos \div PageSize + 1]][pos % PageSize] = Embedded(v, Prefix(b, pos + 1))
  BY DEF RowHas
<1>1. Prefix(a, pos + 1) = Prefix(b, pos + 1)
  BY SameCuts
<1> QED BY <1>1 DEF RowHas

(* The rows of the others are not the one just admitted to. *)
LEMMA OthersSteady ==
  ASSUME ControlInv, MemoryInv, NEW u \in Uids, NEW t \in Tables,
         \A v \in Uids \ {u} : req'[v] = req[v],
         \A s \in Tables \ {t} : token_pool'[s] = token_pool[s] /\ page_table'[s] = page_table[s],
         \A v \in Uids \ {u} : Held(v) => req[v].table_idx # t,
         NEW v \in Holders', v # u
  PROVE  Steady(v)
<1>1. v \in Uids \ {u} /\ req'[v] = req[v] /\ v \in Holders /\ Held(v)
  BY DEF Holders, Held
<1>2. req[v].table_idx \in Tables \ {t}
  BY <1>1, HolderFacts DEF HolderOK
<1> QED BY <1>1, <1>2 DEF Steady

(* The next chunk of a request: its row is the one its first chunk took. *)
LEMMA ContinuationContent ==
  ASSUME ControlInv, ContractInv, StreamInv, MemoryInv, ContentInv, ControlInv', MemoryInv',
         AdmitContinuation
  PROVE  ContentInv'
<1>1. /\ CanTry /\ candidate.chunked /\ UNCHANGED <<tree, page_table, kv>>
  BY DEF AdmitContinuation
<1>2. PICK u \in Uids : u = candidate.uid /\ WaitingOK(candidate) /\ ~Processed(u)
  BY <1>1, Candidate
<1>3. Held(u) /\ req[u].chunked /\ u \in Holders
  BY <1>1, <1>2 DEF WaitingOK, Holders
<1>4. PICK cached \in Nat, upto \in Nat, t \in Tables :
        /\ Took(u, cached, upto, t)
        /\ \A v \in Uids \ {u} : Held(v) => req[v].table_idx # t
  BY <1>2, AdmitTokens
<1>5. PICK c \in Nat : c = req[u].cached_len
  BY <1>3, HolderFacts DEF HolderOK
<1>6. /\ req'[u].table_idx = req[u].table_idx /\ req'[u].handle = req[u].handle
      /\ req'[u].cached_len = c
  <2>1. /\ req' = [req EXCEPT ![u] =
               [n |-> req[u].n + 1, table_idx |-> req[u].table_idx, cached_len |-> c,
                device_len |-> c + chunk_size(c),
                output_len |-> candidate.output_len, input_ids |-> Prefix(Prompt[u], c + chunk_size(c)),
                handle |-> req[u].handle, chunked |-> is_chunked(c), aborted |-> FALSE]]
    BY <1>2, <1>5 DEF AdmitContinuation, AddOne
  <2>2. req \in [Uids -> Reqs]
    BY DEF ControlInv, ControlTypes
  <2> QED BY <2>1, <2>2
<1>7. t = req[u].table_idx /\ cached = c /\ c <= upto
  BY <1>4, <1>6 DEF Took
<1>8. \A k \in 1 .. c : token_pool[t][k] = token_pool'[t][k]
  <2>1. req[u].input_ids = Prefix(Prompt[u], c) /\ Len(req[u].input_ids) = c
    BY <1>2, <1>3, <1>5 DEF StreamInv, ChunksOK
  <2>2. \A k \in 1 .. c : token_pool[t][k] = Prefix(Prompt[u], c)[k]
    BY <1>3, <1>7, <2>1 DEF StreamInv, DeviceOK, RowOK, Device
  <2>3. \A k \in 1 .. c : Prefix(Prompt[u], c)[k] = Prompt[u][k]
    BY <1>5 DEF Prefix
  <2>4. \A k \in 1 .. c : token_pool'[t][k] = Prompt[u][k]
    BY <1>4, <1>7 DEF Took
  <2> QED BY <2>2, <2>3, <2>4
<1>9. ReadsOwn(u)'
  <2>1. ReadsOwn(u)
    BY <1>3, ContentIs
  <2>2. Row(u)' = Row(u) /\ Device(u)' = token_pool'[t] /\ Device(u) = token_pool[t]
    BY <1>1, <1>6, <1>7 DEF Row, Device
  <2>3. RowHas(kv, u, Row(u), token_pool[t], c)
    BY <1>5, <2>1, <2>2 DEF ReadsOwn
  <2>4. RowHas(kv, u, Row(u), token_pool'[t], c)
    BY <1>8, <2>3, SameReads
  <2> QED BY <1>1, <1>6, <2>1, <2>2, <2>4 DEF ReadsOwn
<1>10. ASSUME NEW v \in Holders' PROVE Steady(v) \/ ReadsOwn(v)'
  <2>1. CASE v # u
    <3>1. \A s \in Tables \ {t} : token_pool'[s] = token_pool[s] /\ page_table'[s] = page_table[s]
      BY <1>1, <1>4 DEF Took
    <3> QED BY <1>4, <2>1, <3>1, OthersSteady DEF Took
  <2> QED BY <1>9, <2>1
<1>11. PagesStay /\ SlotsStay
  BY <1>1 DEF PagesStay, SlotsStay
<1> QED BY <1>10, <1>11, ContentStep

(* A new request reads the tree's pages, which hold the KV of its own prefix. *)
LEMMA AdmitFreshContent ==
  ASSUME ControlInv, ContractInv, StreamInv, MemoryInv, ContentInv, ControlInv', MemoryInv',
         AdmitFresh
  PROVE  ContentInv'
<1>1. /\ Fits /\ CanTry /\ ~candidate.chunked /\ table_free # <<>> /\ kv' = kv
  BY DEF AdmitFresh, Fits
<1>2. PICK u \in Uids : u = candidate.uid /\ WaitingOK(candidate) /\ ~Processed(u)
  BY <1>1, Candidate
<1>3. PICK mr : mr = match_req(u)
  OBVIOUS
<1>4. PICK st, path : st = mr.tree /\ path = mr.path /\ path \in Seq(Vocab)
  <2>1. match_req(u).path \in Seq(Vocab)
    BY MatchWalked
  <2> QED BY <1>3, <2>1
<1>5. /\ IsTree(st, Vocab, PoolPages) /\ path \in Nodes(st) \cup {<<>>}
      /\ IsPrefix(path, Prompt[u]) /\ (~Shareable(u) => path = <<>>)
  <2>1. /\ Walked(match_req(u).tree)
        /\ match_req(u).path \in Nodes(match_req(u).tree) \cup {<<>>}
        /\ match_req(u).path \in Seq(Vocab) /\ IsPrefix(match_req(u).path, Prompt[u])
        /\ ~Shareable(u) => match_req(u).path = <<>>
    BY MatchWalked
  <2> QED BY <1>3, <1>4, <2>1, Zenon DEF Walked, TreeOf
<1>6. st.page = tree.page
  BY <1>3, <1>4, MatchPages
<1>7. PICK cached \in Nat, upto \in Nat, t \in Tables :
        /\ Took(u, cached, upto, t)
        /\ \A v \in Uids \ {u} : Held(v) => req[v].table_idx # t
  BY <1>2, AdmitTokens
<1>8. PICK row : row = get_matched_indices(st, path)
  OBVIOUS
<1>9. PICK c \in Nat : c = Len(path)
  BY <1>4
<1>10. /\ tree' = lock(st, path) /\ page_table' = [page_table EXCEPT ![Last(table_free)] = row]
       /\ req'[u].table_idx = Last(table_free) /\ req'[u].handle = path /\ req'[u].cached_len = c
  <2>1. tree' = lock(st, path) /\ page_table' = [page_table EXCEPT ![Last(table_free)] = row]
    BY <1>2, <1>3, <1>4, <1>8 DEF AdmitFresh
  <2>2. req' = [req EXCEPT ![u] =
               [n |-> req[u].n + 1, table_idx |-> Last(table_free), cached_len |-> c,
                device_len |-> c + chunk_size(c),
                output_len |-> candidate.output_len, input_ids |-> Prefix(Prompt[u], c + chunk_size(c)),
                handle |-> path, chunked |-> is_chunked(c), aborted |-> FALSE]]
    BY <1>2, <1>3, <1>4, <1>9 DEF AdmitFresh, AddOne
  <2>3. req \in [Uids -> Reqs]
    BY DEF ControlInv, ControlTypes
  <2> QED BY <2>1, <2>2, <2>3
<1>11. t = Last(table_free) /\ cached = c /\ c <= upto
  BY <1>7, <1>10 DEF Took
<1>12. /\ page_table'[t] = row /\ \A s \in Tables \ {t} : page_table'[s] = page_table[s]
  <2>1. page_table \in [Tables -> Seq(PoolPages)]
    BY DEF MemoryInv, RowsOK
  <2> QED BY <1>10, <1>11, <2>1
<1>13. tree'.page = tree.page
  <2>1. lock(st, path).page = st.page
    BY <1>5, LockTree
  <2> QED BY <1>6, <1>10, <2>1
<1>14. RowHas(kv, u, row, path, c)
  <2> SUFFICES ASSUME NEW pos \in 0 .. c - 1
               PROVE  kv[row[pos \div PageSize + 1]][pos % PageSize]
                        = Embedded(u, Prefix(path, pos + 1))
    BY DEF RowHas
  <2>1. Shareable(u)
    BY <1>5, <1>9
  <2>2. TreeHas(kv, st)
    BY <1>6, ContentIs DEF TreeHas, Blocks
  <2>3. pos \in Nat /\ pos < Len(path)
    BY <1>9
  <2>4. PICK i, b : i = pos \div PageSize + 1 /\ b = Prefix(path, i * PageSize)
    OBVIOUS
  <2>5. /\ i \in 1 .. Len(path) \div PageSize
        /\ kv[st.page[b]][pos % PageSize] = Plain(Prefix(path, pos + 1))
    BY <1>5, <2>2, <2>3, <2>4, PathContent
  <2>6. row[i] = st.page[b]
    BY <1>8, <2>4, <2>5 DEF get_matched_indices
  <2>7. Embedded(u, Prefix(path, pos + 1)) = Plain(Prefix(path, pos + 1))
    BY <2>1 DEF Embedded, Plain, Shareable
  <2> QED BY <2>4, <2>5, <2>6, <2>7
<1>15. \A k \in 1 .. c : path[k] = token_pool'[t][k]
  <2>1. \A k \in 1 .. c : token_pool'[t][k] = Prompt[u][k]
    BY <1>7, <1>11 DEF Took
  <2>2. Prompt[u] \in Seq(Vocab)
    BY SchedulerAssumption
  <2>3. \A k \in 1 .. c : path[k] = Prompt[u][k]
    BY <1>4, <1>5, <1>9, <2>2, PrefixIsCut, PrefixProperties
  <2> QED BY <2>1, <2>3
<1>16. ReadsOwn(u)'
  <2>1. RowHas(kv, u, row, token_pool'[t], c)
    BY <1>14, <1>15, SameReads
  <2>2. OnHandle(tree', row, path)
    BY <1>6, <1>8, <1>13 DEF OnHandle, get_matched_indices
  <2>3. Row(u)' = row /\ Device(u)' = token_pool'[t]
    BY <1>10, <1>11, <1>12 DEF Row, Device
  <2> QED BY <1>1, <1>10, <2>1, <2>2, <2>3 DEF ReadsOwn
<1>17. ASSUME NEW v \in Holders' PROVE Steady(v) \/ ReadsOwn(v)'
  <2>1. CASE v # u
    BY <1>7, <1>12, <2>1, OthersSteady DEF Took
  <2> QED BY <1>16, <2>1
<1>18. PagesStay /\ SlotsStay
  BY <1>1, <1>13 DEF PagesStay, SlotsStay, Blocks
<1> QED BY <1>17, <1>18, ContentStep

(***************************************************************************)
(* The forward: what it writes, and what it leaves alone.                  *)
(***************************************************************************)

\* A row's first m tokens embedded: the first c of them, and those that follow.
Joins(v, a, c, m) ==
    Embedded(v, Prefix(a, m)) = Embedded(v, Prefix(a, c)) \o Embedded(v, SubSeq(a, c + 1, m))

\* The KV of the tokens before, and the embeddings of those that follow.
LEMMA EmbeddedJoin ==
  ASSUME NEW v, NEW T, NEW n \in Nat, NEW a \in [1 .. n -> T],
         NEW c \in Nat, NEW m \in Nat, c <= m, m <= n
  PROVE  Joins(v, a, c, m)
<1>1. PICK e : e = IF v \in Multimodal THEN {v} ELSE {}
  OBVIOUS
<1>2. PICK P : P = {e} \X T
  OBVIOUS
<1>3. \A i \in 1 .. n : a[i] \in T /\ <<e, a[i]>> \in P
  BY <1>2
<1>4. /\ Prefix(a, m) = [i \in 1 .. m |-> a[i]] /\ Prefix(a, c) = [i \in 1 .. c |-> a[i]]
      /\ SubSeq(a, c + 1, m) = [i \in 1 .. m - c |-> a[c + i]]
  <2>1. SubSeq(a, c + 1, m) = [i \in 1 .. m - c |-> a[c + i]]
    BY ONLY c \in Nat, m \in Nat, c <= m, SMT
  <2> QED BY <2>1, CutIs
<1>5. PICK x, y, z : /\ x = [i \in 1 .. m |-> <<e, a[i]>>] /\ y = [i \in 1 .. c |-> <<e, a[i]>>]
                     /\ z = [i \in 1 .. m - c |-> <<e, a[c + i]>>]
  OBVIOUS
<1>6. Embedded(v, Prefix(a, m)) = x
  BY <1>1, <1>4, <1>5 DEF Embedded
<1>7. Embedded(v, Prefix(a, c)) = y
  BY <1>1, <1>4, <1>5 DEF Embedded
<1>8. Embedded(v, SubSeq(a, c + 1, m)) = z
  BY <1>1, <1>4, <1>5 DEF Embedded
<1>9. x \in Seq(P) /\ y \in Seq(P) /\ z \in Seq(P) /\ Len(x) = m /\ Len(y) = c /\ Len(z) = m - c
  <2>1. x \in Seq(P) /\ Len(x) = m
    BY <1>3, <1>5
  <2>2. \A i \in 1 .. c : i \in 1 .. n
    OBVIOUS
  <2>3. y \in Seq(P) /\ Len(y) = c
    BY <1>3, <1>5, <2>2
  <2>4. m - c \in Nat /\ \A i \in 1 .. m - c : c + i \in 1 .. n
    OBVIOUS
  <2>5. z \in Seq(P) /\ Len(z) = m - c
    BY <1>3, <1>5, <2>4
  <2> QED BY <2>1, <2>3, <2>5
<1>10. \A i \in 1 .. m : x[i] = (y \o z)[i]
  <2> SUFFICES ASSUME NEW i \in 1 .. m PROVE x[i] = (y \o z)[i]
    OBVIOUS
  <2>1. CASE i <= c
    BY <1>5, <1>9, <2>1
  <2>2. CASE ~(i <= c)
    <3>1. (y \o z)[i] = z[i - c] /\ i - c \in 1 .. m - c
      BY <1>9, <2>2
    <3> QED BY <1>5, <3>1
  <2> QED BY <2>1, <2>2
<1>11. y \o z \in Seq(P) /\ Len(y \o z) = m
  <2>1. y \in Seq(P) /\ z \in Seq(P)
    BY <1>9
  <2>3. y \o z \in Seq(P) /\ Len(y \o z) = Len(y) + Len(z)
    BY ONLY <2>1, ConcatProperties
  <2>2. Len(y) + Len(z) = m
    BY ONLY <1>9, m \in Nat, c \in Nat
  <2> QED BY ONLY <2>2, <2>3
<1>12. x = y \o z
  BY <1>9, <1>10, <1>11, SMT
<1> QED BY <1>6, <1>7, <1>8, <1>12 DEF Joins

Batch(rs) == {rs[i].uid : i \in 1 .. Len(rs)}

\* The slot of u's position pos in the rows of the launch, and who writes what.
SlotThen(u, pos) == <<page_table'[req[u].table_idx][pos \div PageSize + 1], pos % PageSize>>
Writes(rs, u, pos, slot) ==
    /\ u \in Batch(rs) /\ pos \in req[u].cached_len .. req[u].device_len - 1
    /\ SlotThen(u, pos) = slot

\* A slot has what an entry computed for it, or what was there.
SlotAfter(rs, pages, p, o) ==
    \/ \E u, pos : /\ Writes(rs, u, pos, <<p, o>>)
                   /\ kv'[p][o] = Computed(u, page_table'[req[u].table_idx], pos)
    \/ /\ \A u, pos : ~Writes(rs, u, pos, <<p, o>>)
       /\ kv'[p][o] = Scrub(pages)[p][o]

(* What _forward writes to the pool. *)
LEMMA ForwardSlots ==
  ASSUME NEW rs, NEW E, NEW sampled, Forward(rs, E, sampled),
         NEW p \in Pages, NEW o \in 0 .. PageSize - 1
  PROVE  SlotAfter(rs, SetToSeq(PagesOf(tree_after_plan, E)), p, o)
<1> DEFINE victims   == SetToSeq(PagesOf(tree_after_plan, E))
           short     == PagesBefore(rs, Len(rs) + 1)
           slots     == free_slots \o victims
           allocated == SubSeq(slots, 1, short)
           At(t)     == CHOOSE i \in 1 .. Len(rs) : req[rs[i].uid].table_idx = t
           InIt(t)   == \E i \in 1 .. Len(rs) : req[rs[i].uid].table_idx = t
           rows      == [t \in Tables |-> IF InIt(t) THEN RowAfter(rs, At(t), allocated)
                                          ELSE page_table[t]]
           Us        == {rs[i].uid : i \in 1 .. Len(rs)}
           Positions(u) == {pos \in req[u].cached_len .. req[u].device_len - 1 : TRUE}
           Slot(u, pos) == <<rows[req[u].table_idx][pos \div PageSize + 1], pos % PageSize>>
           who(q, r) == CHOOSE u \in Us : \E pos \in Positions(u) : Slot(u, pos) = <<q, r>>
           at(u, q, r) == CHOOSE pos \in Positions(u) : Slot(u, pos) = <<q, r>>
<1>1. /\ page_table' = rows
      /\ kv' = [q \in Pages |-> [r \in 0 .. PageSize - 1 |->
               IF \E u \in Us : \E pos \in Positions(u) : Slot(u, pos) = <<q, r>>
               THEN Computed(who(q, r), rows[req[who(q, r)].table_idx], at(who(q, r), q, r))
               ELSE Scrub(victims)[q][r]]]
  BY Zenon DEF Forward
<1> HIDE DEF rows, victims
<1>2. kv'[p][o] = IF \E u \in Us : \E pos \in Positions(u) : Slot(u, pos) = <<p, o>>
                  THEN Computed(who(p, o), rows[req[who(p, o)].table_idx], at(who(p, o), p, o))
                  ELSE Scrub(victims)[p][o]
  BY <1>1, Zenon
<1>3. CASE \E u \in Us : \E pos \in Positions(u) : Slot(u, pos) = <<p, o>>
  <2>1. who(p, o) \in Us /\ \E pos \in Positions(who(p, o)) : Slot(who(p, o), pos) = <<p, o>>
    BY <1>3, Zenon
  <2>2. PICK u : u = who(p, o)
    OBVIOUS
  <2>3. at(u, p, o) \in Positions(u) /\ Slot(u, at(u, p, o)) = <<p, o>>
    BY <2>1, <2>2, Zenon
  <2>4. PICK pos : pos = at(u, p, o)
    OBVIOUS
  <2>5. kv'[p][o] = Computed(u, page_table'[req[u].table_idx], pos)
    BY <1>1, <1>2, <1>3, <2>2, <2>4, Zenon
  <2>6. u \in Us /\ pos \in Positions(u) /\ Slot(u, pos) = <<p, o>>
    BY <2>1, <2>2, <2>3, <2>4, Zenon
  <2>7. Writes(rs, u, pos, <<p, o>>)
    BY <1>1, <2>6 DEF Writes, Batch, SlotThen
  <2> QED BY <2>5, <2>7 DEF SlotAfter
<1>4. CASE ~\E u \in Us : \E pos \in Positions(u) : Slot(u, pos) = <<p, o>>
  <2>1. kv'[p][o] = Scrub(victims)[p][o]
    BY <1>2, <1>4, Zenon
  <2>2. \A u, pos : ~Writes(rs, u, pos, <<p, o>>)
    BY <1>1, <1>4 DEF Writes, Batch, SlotThen
  <2> QED BY <2>1, <2>2 DEF SlotAfter, victims
<1> QED BY <1>3, <1>4

\* A row keeps its pages, and a request in the batch has computed every token.
RowThen(rs, v) ==
    /\ req'[v].table_idx = req[v].table_idx /\ req'[v].handle = req[v].handle
    /\ \A i \in 1 .. Len(Row(v)) : Row(v)'[i] = Row(v)[i]
    /\ req[v].cached_len <= req'[v].cached_len
    /\ IF v \in Batch(rs)
       THEN req'[v].cached_len = req[v].device_len /\ req[v].device_len \in Nat
       ELSE req'[v].cached_len = req[v].cached_len

\* What a forward does to the tree and to the rows.
Moved(rs, E) ==
    /\ tree' = RemoveNodes(tree_after_plan, E)
    /\ E \in SUBSET Nodes(tree_after_plan)
    /\ \A m \in E : Children(tree_after_plan, m) \subseteq E
    /\ Holders' = Holders /\ Batch(rs) \subseteq Holders
    /\ \A v \in Holders : RowThen(rs, v)

\* What is new in a row is one of the first n slots.
TakesFrom(v, slots, n) ==
    \A i \in 1 .. Len(Row(v)') : i \in 1 .. Len(Row(v)) \/ \E j \in 1 .. n : Row(v)'[i] = slots[j]

(* The rows of a launch begin with what they had, and take the batch's pages. *)
LEMMA ForwardRows ==
  ASSUME ControlInv, StreamInv, MemoryInv, pc = "plan", NEW rs \in Planned,
         NEW E \in IF missing_pages(rs) > 0
                   THEN Evictions(tree_after_plan, missing_pages(rs) * PageSize) ELSE {{}},
         NEW sampled, Forward(rs, E, sampled)
  PROVE  /\ Moved(rs, E)
         /\ \A v \in Holders : TakesFrom(v, free_slots \o SetToSeq(PagesOf(tree_after_plan, E)),
                                         PagesBefore(rs, Len(rs) + 1))
<1>1. PICK slots, n : /\ slots = free_slots \o SetToSeq(PagesOf(tree_after_plan, E))
                      /\ n = PagesBefore(rs, Len(rs) + 1)
  OBVIOUS
<1>2. Launched(rs, E, slots, n)
  BY <1>1, ForwardUpdates
<1>3. PICK F : SlotsOK(tree_after_plan, E, n, slots, F)
  <2>1. PICK F, L, own : /\ Partition(F, L, PagesIn(tree), own, Holders, PoolPages)
                         /\ Once(free_slots, F) /\ free_slots \in Seq(PoolPages)
    BY FreeLists
  <2>2. F \cap PagesIn(tree) = {}
    BY <2>1 DEF Partition
  <2>3. SlotsOK(tree_after_plan, E, PagesBefore(rs, Len(rs) + 1),
                free_slots \o SetToSeq(PagesOf(tree_after_plan, E)), F)
    BY <2>1, <2>2, LaunchSlots, Zenon
  <2> QED BY <1>1, <2>3
<1>4. /\ Len(rs) \in Nat /\ n \in Nat
      /\ \A i \in 1 .. Len(rs) : rs[i].uid \in Uids /\ rs[i].uid \in Holders
  BY <1>1, PlannedFacts, BatchPages DEF Holders
<1>5. ASSUME NEW v \in Holders, v \in Batch(rs) PROVE RowThen(rs, v) /\ TakesFrom(v, slots, n)
  <2>1. PICK i \in 1 .. Len(rs) : v = rs[i].uid
    BY <1>5 DEF Batch
  <2>2. req'[v] = [req[v] EXCEPT !.cached_len = req[v].device_len, !.device_len = @ + 1]
        /\ page_table'[req[v].table_idx] = RowAfter(rs, i, SubSeq(slots, 1, n)) /\ v \in Uids
    BY <1>2, <1>4, <2>1 DEF Launched
  <2>3. /\ req'[v].cached_len = req[v].device_len /\ req'[v].handle = req[v].handle
        /\ req'[v].table_idx = req[v].table_idx
    BY <2>2, LaunchedReq
  <2>4. /\ req[v].cached_len \in Nat /\ req[v].device_len \in Nat
        /\ req[v].cached_len <= req[v].device_len /\ new_pages(v) \in Nat
    <3>1. /\ req[rs[i].uid].cached_len \in Nat /\ req[rs[i].uid].device_len \in Nat
          /\ req[rs[i].uid].cached_len <= req[rs[i].uid].device_len
          /\ CeilPages(req[rs[i].uid].cached_len) \in Nat
          /\ new_pages(rs[i].uid) \in 0 .. CeilPages(ConfigMaxSeqLen)
      BY EntryPages
    <3> QED BY <2>1, <3>1
  <2>5. PICK old \in Seq(PoolPages) : old = Row(v) /\ Len(old) = CeilPages(req[v].cached_len)
    BY HolderFacts DEF HolderOK
  <2>6. PICK alloc \in Seq(PoolPages) : alloc = SubSeq(slots, 1, n) /\ Len(alloc) = n
    <3>1. PICK N : N = PoolPages /\ slots \in Seq(N) /\ n \in 0 .. Len(slots)
      BY <1>3, <1>4 DEF SlotsOK
    <3>2. Prefix(slots, n) \in Seq(N) /\ Len(Prefix(slots, n)) = n
      BY <3>1, PrefixProperties
    <3> QED BY <3>1, <3>2 DEF Prefix
  <2>7. PICK a \in Nat, b \in Nat : a = PagesBefore(rs, i) /\ b = a + new_pages(v) /\ b <= n
    <3>1. PICK m, f, before : /\ m = Len(rs) /\ m \in Nat
                              /\ f = [j \in 1 .. m |-> new_pages(rs[j].uid)]
                              /\ before = [j \in 1 .. m + 1 |-> PagesBefore(rs, j)]
                              /\ Running(before, f, m)
      BY <1>4, BatchPages
    <3>2. i \in 1 .. m + 1 /\ i + 1 \in 1 .. m + 1 /\ m + 1 \in 1 .. m + 1 /\ i + 1 <= m + 1
          /\ i \in 1 .. m
      BY <3>1
    <3>3. /\ before[i] = PagesBefore(rs, i) /\ f[i] = new_pages(v) /\ before[m + 1] = n
      BY <1>1, <2>1, <3>1, <3>2
    <3>4. before[i] \in Nat /\ before[i + 1] = before[i] + f[i] /\ before[i + 1] <= before[m + 1]
      BY <3>1, <3>2 DEF Running
    <3> QED BY <2>4, <3>3, <3>4
  <2>8. PICK chunk \in Seq(PoolPages) : chunk = SubSeq(alloc, a + 1, b)
    <3>1. PICK N : N = PoolPages /\ alloc \in Seq(N) /\ b <= Len(alloc)
      BY <2>6, <2>7
    <3>2. SubSeq(alloc, a + 1, b) \in Seq(N)
      BY ONLY <3>1, a \in Nat, b \in Nat
    <3> QED BY <3>1, <3>2
  <2>9. Row(v)' = old \o chunk
    <3>1. Prefix(old, CeilPages(req[v].cached_len)) = old
      BY <2>5 DEF Prefix
    <3>2. RowAfter(rs, i, alloc) = old \o chunk
      BY <2>1, <2>5, <2>7, <2>8, <3>1 DEF RowAfter, Row
    <3> QED BY <2>2, <2>3, <2>6, <3>2 DEF Row
  <2>10. \A k \in 1 .. Len(old) : (old \o chunk)[k] = old[k]
    OBVIOUS
  <2>11. ASSUME NEW k \in 1 .. Len(old \o chunk), k \notin 1 .. Len(old)
         PROVE  \E j \in 1 .. n : (old \o chunk)[k] = slots[j]
    <3>1. PICK l \in 1 .. Len(chunk) : l = k - Len(old) /\ (old \o chunk)[k] = chunk[l]
      BY <2>11
    <3>2. a + l \in 1 .. b /\ chunk[l] = alloc[a + l]
      <4>1. a <= b /\ b <= Len(alloc)
        BY <2>4, <2>6, <2>7
      <4>2. Len(SubSeq(alloc, a + 1, b)) = b - a
            /\ \A j \in 1 .. b - a : SubSeq(alloc, a + 1, b)[j] = alloc[a + j]
        BY <4>1, SubRow
      <4>3. l \in 1 .. b - a
        BY <2>8, <3>1, <4>2
      <4> QED BY <2>8, <4>2, <4>3
    <3>3. a + l \in 1 .. n
      BY <1>4, <2>7, <3>2
    <3>4. alloc[a + l] = slots[a + l]
      BY <2>6, <3>3
    <3> QED BY <3>1, <3>2, <3>3, <3>4
  <2>12. TakesFrom(v, slots, n)
    BY <2>5, <2>9, <2>11 DEF TakesFrom
  <2> QED BY <1>5, <2>3, <2>4, <2>5, <2>9, <2>10, <2>12 DEF RowThen
<1>6. ASSUME NEW v \in Holders, v \notin Batch(rs) PROVE RowThen(rs, v) /\ TakesFrom(v, slots, n)
  <2>1. v \in Uids /\ \A i \in 1 .. Len(rs) : rs[i].uid # v
    BY <1>6 DEF Holders, Batch
  <2>2. req'[v] = req[v]
    BY <1>2, <2>1 DEF Launched
  <2>3. \A i \in 1 .. Len(rs) : req[rs[i].uid].table_idx # req[v].table_idx
    <3>1. \A u, w \in Holders : req[u].table_idx = req[w].table_idx => u = w
      BY DEF ControlInv, TablesOK
    <3> QED BY <1>4, <2>1, <3>1
  <2>4. req[v].table_idx \in Tables /\ req[v].cached_len \in Nat
    BY HolderFacts DEF HolderOK
  <2>5. page_table'[req[v].table_idx] = page_table[req[v].table_idx]
    BY <1>2, <2>3, <2>4 DEF Launched
  <2> QED BY <1>6, <2>2, <2>4, <2>5 DEF RowThen, Row, TakesFrom
<1>7. Holders' = Holders
  <2>1. ASSUME NEW u \in Uids PROVE Held(u)' <=> Held(u)
    <3>1. CASE u \in Holders
      BY <1>5, <1>6, <3>1 DEF RowThen, Held
    <3>2. CASE u \notin Holders
      <4>1. \A i \in 1 .. Len(rs) : rs[i].uid # u
        BY <1>4, <3>2
      <4> QED BY <1>2, <4>1 DEF Launched, Held
    <3> QED BY <3>1, <3>2
  <2> QED BY <2>1 DEF Holders
<1>8. Batch(rs) \subseteq Holders
  BY <1>4 DEF Batch
<1>9. Moved(rs, E)
  BY <1>2, <1>3, <1>5, <1>6, <1>7, <1>8 DEF Moved, Launched, SlotsOK
<1> QED BY <1>1, <1>5, <1>6, <1>9

\* The tokens a launch computes, it does not overwrite.
TokensThen(rs, v) ==
    IF v \in Batch(rs)
    THEN /\ req[v].device_len <= ConfigMaxSeqLen
         /\ \A k \in 1 .. req[v].device_len :
              token_pool'[req[v].table_idx][k] = token_pool[req[v].table_idx][k]
    ELSE token_pool'[req[v].table_idx] = token_pool[req[v].table_idx]

(* A sampled token goes behind the tokens computed. *)
LEMMA ForwardTokens ==
  ASSUME ControlInv, StreamInv, Launch, pc = "plan", NEW rs \in Planned, NEW E, NEW sampled,
         Forward(rs, E, sampled), NEW v \in Holders
  PROVE  TokensThen(rs, v)
<1>1. v \in Uids /\ Held(v) /\ Planning
  BY DEF Holders, Planning
<1>2. /\ Len(rs) \in Nat /\ Len(ongoing'.reqs) = Len(rs)
      /\ \A i \in 1 .. Len(rs) : ongoing'.reqs[i].uid = rs[i].uid
  <2>1. Len(rs) \in Nat
    BY PlannedFacts
  <2>2. ongoing' = [phase |-> phase,
                    reqs |-> [i \in 1 .. Len(rs) |->
                               [uid |-> rs[i].uid, n |-> rs[i].n, chunked |-> rs[i].chunked,
                                token |-> sampled[rs[i].uid]]]]
    BY Zenon DEF Forward
  <2> QED BY <2>1, <2>2
<1>3. CASE v \notin Batch(rs)
  <2>1. \A i \in 1 .. Len(ongoing'.reqs) : ongoing'.reqs[i].uid # v
    BY <1>2, <1>3 DEF Batch
  <2> QED BY <1>1, <1>3, <2>1, LaunchTokens DEF TokensThen
<1>4. CASE v \in Batch(rs)
  <2>1. PICK i \in 1 .. Len(rs) : rs[i].uid = v
    BY <1>4 DEF Batch
  <2>2. i \in 1 .. Len(ongoing'.reqs) /\ ongoing'.reqs[i].uid = v
    BY <1>2, <2>1
  <2>3. PICK w, x : /\ w = write_position(v)
                    /\ token_pool'[req[v].table_idx] = [token_pool[req[v].table_idx] EXCEPT ![w] = x]
    <3>1. token_pool'[req[v].table_idx] =
            [token_pool[req[v].table_idx] EXCEPT ![write_position(v)] = ongoing'.reqs[i].token]
      BY <1>1, <2>2, LaunchTokens
    <3> QED BY <3>1
  <2>4. ~req[v].aborted /\ (Processed(v) \/ v \in running_reqs)
    <3>1. ~req[v].aborted
      BY <2>1, PlannedFacts
    <3>2. IF adder.reqs # <<>> THEN rs = adder.reqs
                               ELSE \A k \in 1 .. Len(rs) : rs[k].uid \in running_reqs
      BY PlannedFacts
    <3> QED BY <2>1, <3>1, <3>2, <1>1 DEF Processed
  <2>5. PICK d \in Nat : d = req[v].device_len /\ d < ConfigMaxSeqLen /\ d < w
    <3>1. /\ req[v].device_len \in Nat /\ max_device_len(v) \in Nat /\ ConfigMaxSeqLen \in Nat
          /\ req[v].device_len < max_device_len(v) /\ max_device_len(v) <= ConfigMaxSeqLen
          /\ write_position(v) = IF req[v].chunked THEN ConfigMaxSeqLen ELSE req[v].device_len + 1
      BY <1>1, <2>4, LaunchSizes
    <3> QED BY <2>3, <3>1
  <2>6. PICK a \in [1 .. ConfigMaxSeqLen -> Vocab \cup {0}] : a = token_pool[req[v].table_idx]
    <3>1. req[v].table_idx \in Tables
      BY <1>1 DEF ControlInv, ControlTypes, Reqs, Held
    <3> QED BY <3>1 DEF StreamInv, DeviceOK
  <2>7. ASSUME NEW k \in 1 .. d PROVE [a EXCEPT ![w] = x][k] = a[k]
    <3>1. k \in 1 .. ConfigMaxSeqLen /\ k # w
      <4>1. ConfigMaxSeqLen \in Nat
        BY SchedulerAssumption
      <4>2. k # w
        BY <2>5
      <4> QED BY <2>5, <4>1, <4>2
    <3> QED BY <3>1
  <2>8. d <= ConfigMaxSeqLen
    <3>1. ConfigMaxSeqLen \in Nat
      BY SchedulerAssumption
    <3> QED BY <2>5, <3>1
  <2> QED BY <1>4, <2>3, <2>5, <2>6, <2>7, <2>8 DEF TokensThen
<1> QED BY <1>3, <1>4

(* A position computed has its page in the row. *)
LEMMA SlotInRow ==
  ASSUME NEW n \in Nat, NEW len, len = CeilPages(n), NEW pos \in Nat, pos < n
  PROVE  pos \div PageSize + 1 \in 1 .. len
<1>1. PICK c \in Nat : c = CeilPages(n) /\ n <= c * PageSize
  BY CeilIs
<1>2. pos < c * PageSize
  <2>1. c * PageSize \in Nat
    BY Multiples
  <2> QED BY <1>1, <2>1
<1>3. PICK j \in Nat : j = pos \div PageSize /\ j + 1 <= c
  BY <1>2, SlotOf
<1> QED BY <1>1, <1>3

\* What is left of the tree, and what was evicted, after a launch.
LeftApart(E) ==
    /\ PagesStay /\ \A b \in Blocks(tree') : b \in Blocks(tree)
    /\ PagesOf(tree_after_plan, E) \subseteq PagesIn(tree)
    /\ \A b \in Blocks(tree') : tree'.page[b] \notin PagesOf(tree_after_plan, E)
    /\ \A v \in Holders : OnHandle(tree', Row(v)', req'[v].handle)

(* An eviction takes no page that a row still has of the tree. *)
LEMMA ForwardPages ==
  ASSUME ControlInv, MemoryInv, ContentInv, ControlInv', MemoryInv', pc = "plan",
         NEW rs, NEW E, Moved(rs, E)
  PROVE  LeftApart(E)
<1>1. PICK st : st = tree_after_plan
  OBVIOUS
<1>2. st.page = tree.page /\ Blocks(st) = Blocks(tree) /\ TreeOf(st, PoolPages)
  BY <1>1, PlanPages, PlanWalked DEF Blocks, Walked
<1>3. E \in SUBSET Nodes(st) /\ \A m \in E : Children(st, m) \subseteq E
  BY <1>1 DEF Moved
<1>4. tree'.page = [b \in {c \in Blocks(st) : NodeOf(st, c) \notin E} |-> st.page[b]]
  BY <1>1 DEF Moved, RemoveNodes
<1>5. \A b \in Blocks(tree') : b \in Blocks(tree) /\ tree'.page[b] = tree.page[b]
  BY <1>2, <1>4 DEF Blocks
<1>6. PagesStay
  BY <1>5 DEF PagesStay
<1>7. PagesOf(st, E) \subseteq PagesIn(st) /\ PagesIn(st) = PagesIn(tree)
  BY <1>2, <1>3, EvictedPages DEF PagesIn
<1>8. PagesIn(tree') = PagesIn(st) \ PagesOf(st, E)
  <2>1. PagesIn(RemoveNodes(st, E)) = PagesIn(st) \ PagesOf(st, E)
    BY <1>2, <1>3, EvictedTree
  <2> QED BY <1>1, <2>1 DEF Moved
<1>9. \A b \in Blocks(tree') : tree'.page[b] \in PagesIn(tree')
  BY DEF PagesIn
<1>10. ASSUME NEW v \in Holders, NEW i \in 1 .. Len(req'[v].handle) \div PageSize
       PROVE  Row(v)'[i] = tree'.page[Prefix(req'[v].handle, i * PageSize)]
  <2>1. PICK handle : handle = req[v].handle /\ req'[v].handle = handle
    BY DEF Moved, RowThen
  <2>2. v \in Holders' /\ handle \in Nodes(tree') \cup {<<>>} /\ IsTree(tree', Vocab, PoolPages')
    <3>1. v \in Holders'
      BY DEF Moved
    <3>2. HolderOK(v)'
      BY <3>1, AllHoldersThen
    <3> QED BY <2>1, <3>1, <3>2, OwnersThen DEF HolderOK, TreeOf
  <2>3. PICK b : b = Prefix(handle, i * PageSize) /\ b \in Blocks(tree')
    BY <1>10, <2>1, <2>2, PathBlocks
  <2>4. Row(v)[i] = tree.page[b]
    BY <1>10, <2>1, <2>3, ContentIs DEF ReadsOwn, OnHandle
  <2>5. i \in 1 .. Len(Row(v))
    <3>1. Shared(v) \in Nat /\ Shared(v) <= Len(Row(v)) /\ Row(v) \in Seq(PoolPages)
      BY HolderFacts DEF HolderOK
    <3>2. Shared(v) = Len(handle) \div PageSize
      BY <2>1 DEF Shared
    <3> QED BY <1>10, <2>1, <3>1, <3>2
  <2>6. Row(v)'[i] = Row(v)[i]
    BY <2>5 DEF Moved, RowThen
  <2> QED BY <1>5, <2>1, <2>3, <2>4, <2>6
<1>11. \A v \in Holders : OnHandle(tree', Row(v)', req'[v].handle)
  BY <1>10 DEF OnHandle
<1> QED BY <1>1, <1>5, <1>6, <1>7, <1>8, <1>9, <1>11 DEF LeftApart

\* Where the slot of a write is: in a page that is the writer's own.
WriterAt(u, q, p, o) ==
    /\ u \in Holders' /\ q \in Nat /\ req[u].cached_len <= q /\ q % PageSize = o
    /\ q \div PageSize + 1 \in Shared(u)' + 1 .. Len(Row(u)')
    /\ Row(u)'[q \div PageSize + 1] = p /\ p \in Own(u)'

(* A launch writes to the requests' own pages only. *)
LEMMA WriterOwns ==
  ASSUME ControlInv, MemoryInv, ControlInv', MemoryInv', NEW rs, NEW E, Moved(rs, E),
         NEW u, NEW q, NEW p, NEW o, Writes(rs, u, q, <<p, o>>)
  PROVE  WriterAt(u, q, p, o)
<1>1. /\ u \in Holders /\ u \in Holders' /\ u \in Batch(rs) /\ RowThen(rs, u)
  BY DEF Writes, Moved
<1>2. HolderOK(u) /\ HolderOK(u)'
  BY <1>1, HolderFacts, AllHoldersThen
<1>3. PICK c \in Nat, d \in Nat : /\ c = req[u].cached_len /\ d = req[u].device_len
                                  /\ req'[u].cached_len = d
  BY <1>1, <1>2 DEF HolderOK, RowThen
<1>4. q \in Nat /\ c <= q /\ q < d
  BY <1>3 DEF Writes
<1>5. Row(u)'[q \div PageSize + 1] = p /\ q % PageSize = o
  BY <1>1 DEF Writes, SlotThen, RowThen, Row
<1>6. Shared(u)' = Shared(u)
  BY <1>1 DEF Shared, RowThen
<1>7. PICK k \in Nat : k = Shared(u) /\ k * PageSize <= q
  <2>1. PICK k \in Nat, l \in Nat : k = Shared(u) /\ l = Len(req[u].handle) /\ l = k * PageSize /\ l <= c
    BY <1>2, <1>3 DEF HolderOK
  <2> QED BY <1>4, <2>1
<1>8. k <= q \div PageSize /\ q \div PageSize \in Nat
  BY <1>4, <1>7, SlotOf
<1>9. q \div PageSize + 1 \in 1 .. Len(Row(u)')
  <2>1. Len(Row(u)') = CeilPages(d)
    BY <1>2, <1>3 DEF HolderOK
  <2> QED BY <1>3, <1>4, <2>1, SlotInRow
<1>10. q \div PageSize + 1 \in Shared(u)' + 1 .. Len(Row(u)')
  BY <1>6, <1>7, <1>8, <1>9
<1>11. p \in Own(u)'
  BY <1>5, <1>10 DEF Own
<1> QED BY <1>1, <1>3, <1>4, <1>5, <1>10, <1>11 DEF WriterAt

\* The slot of a position, after the launch: one that v reads.
SlotOfRow(v, pos) == <<Row(v)'[pos \div PageSize + 1], pos % PageSize>>

(* Only the request itself writes a slot that it will read, at that position. *)
LEMMA SoleWriter ==
  ASSUME ControlInv, MemoryInv, ContentInv, ControlInv', MemoryInv', pc = "plan",
         NEW rs, NEW E, Moved(rs, E),
         NEW v \in Holders, NEW pos \in Nat, pos < req'[v].cached_len,
         NEW u, NEW q, Writes(rs, u, q, SlotOfRow(v, pos))
  PROVE  u = v /\ q = pos
<1>1. PICK p, o : p = Row(v)'[pos \div PageSize + 1] /\ o = pos % PageSize
  OBVIOUS
<1>2. WriterAt(u, q, p, o)
  <2>1. Writes(rs, u, q, <<p, o>>)
    BY <1>1 DEF SlotOfRow
  <2> QED BY <2>1, WriterOwns
<1>3. v \in Holders' /\ u \in Holders' /\ HolderOK(v)' /\ HolderOK(u)'
  BY <1>2, AllHoldersThen DEF WriterAt, Moved
<1>4. PICK row, k, i, j : /\ row = Row(v)' /\ k = Shared(v)' /\ i = pos \div PageSize + 1
                          /\ j = q \div PageSize + 1
  OBVIOUS
<1>5. /\ i \in 1 .. Len(row) /\ k \in Nat /\ k <= Len(row) /\ OwnOnce(row, k)
  <2>1. req'[v].cached_len \in Nat /\ Len(row) = CeilPages(req'[v].cached_len)
        /\ k \in Nat /\ k <= Len(row) /\ OwnOnce(row, k)
    BY <1>3, <1>4 DEF HolderOK
  <2> QED BY <1>4, <2>1, SlotInRow
<1>6. k < i
  <2>1. ASSUME ~(k < i) PROVE FALSE
    <3>1. PICK handle : handle = req'[v].handle
      OBVIOUS
    <3>2. OnHandle(tree', row, handle)
      BY <1>4, <3>1, ForwardPages DEF LeftApart
    <3>3. i \in 1 .. Len(handle) \div PageSize
      <4>1. k = Len(handle) \div PageSize
        BY <1>4, <3>1 DEF Shared
      <4> QED BY <1>5, <2>1, <4>1
    <3>4. Prefix(handle, i * PageSize) \in Blocks(tree')
      <4>1. handle \in Nodes(tree') \cup {<<>>}
        BY <1>3, <3>1 DEF HolderOK
      <4>2. IsTree(tree', Vocab, PoolPages')
        BY OwnersThen DEF TreeOf
      <4> QED BY <3>3, <4>1, <4>2, PathBlocks
    <3>5. p = tree'.page[Prefix(handle, i * PageSize)]
      BY <1>1, <1>4, <3>2, <3>3 DEF OnHandle
    <3>6. p \in Own(u)'
      BY <1>2 DEF WriterAt
    <3> QED BY <1>3, <3>4, <3>5, <3>6, OwnersThen
  <2> QED BY <2>1
<1>7. p \in Own(v)' /\ i \in k + 1 .. Len(row)
  <2>1. i \in k + 1 .. Len(row)
    BY <1>5, <1>6
  <2> QED BY <1>1, <1>4, <2>1 DEF Own
<1>8. u = v
  BY <1>2, <1>3, <1>7, OwnersThen DEF WriterAt
<1>9. j \in k + 1 .. Len(row) /\ row[j] = row[i] /\ q \in Nat /\ q % PageSize = o
  BY <1>1, <1>2, <1>4, <1>8 DEF WriterAt
<1>10. i = j
  BY <1>5, <1>7, <1>9 DEF OwnOnce
<1>11. PICK a \in Nat, b \in Nat : a = pos \div PageSize /\ b = q \div PageSize
  BY <1>9, SlotOf
<1>12. a = b
  BY <1>4, <1>5, <1>9, <1>10, <1>11
<1>13. pos = ((pos \div PageSize) * PageSize) + (pos % PageSize)
  BY SlotOf
<1>14. q = ((q \div PageSize) * PageSize) + (q % PageSize)
  BY <1>9, SlotOf
<1>15. pos % PageSize = q % PageSize
  BY <1>1, <1>9
<1> QED BY <1>8, <1>11, <1>12, <1>13, <1>14, <1>15

\* A page that is read on is not blanked by the eviction.
LEMMA NotBlanked ==
  ASSUME ControlInv, MemoryInv, pc = "plan",
         NEW E, E \in SUBSET Nodes(tree_after_plan),
         NEW p \in Pages, p \notin PagesOf(tree_after_plan, E)
  PROVE  Scrub(SetToSeq(PagesOf(tree_after_plan, E)))[p] = kv[p]
<1>1. PICK V : V = PagesOf(tree_after_plan, E)
  OBVIOUS
<1>2. PICK N : N = PoolPages
  OBVIOUS
<1>3. V \in SUBSET N /\ IsFiniteSet(V)
  <2>1. TreeOf(tree_after_plan, PoolPages)
    BY PlanWalked DEF Walked
  <2> QED BY <1>1, <1>2, <2>1, EvictedPages
<1>4. PICK s : s = SetToSeq(V) /\ s \in Seq(N) /\ Once(s, V)
  BY <1>3, Enumerated
<1>5. p \notin ToSet(s)
  BY <1>1, <1>4 DEF Once, ToSet
<1> QED BY <1>1, <1>4, <1>5 DEF Scrub

\* The launch of the batch rs, which evicts E.
LaunchOf(rs, E) ==
    /\ rs \in Planned /\ Moved(rs, E)
    /\ \A p \in Pages, o \in 0 .. PageSize - 1 :
         SlotAfter(rs, SetToSeq(PagesOf(tree_after_plan, E)), p, o)
    /\ \A v \in Holders : TokensThen(rs, v)

(* What a request had computed is where it was. *)
LEMMA OldSlot ==
  ASSUME ControlInv, MemoryInv, ContentInv, ControlInv', MemoryInv', pc = "plan",
         NEW rs, NEW E, LaunchOf(rs, E), NEW v \in Holders, NEW pos \in Nat, pos < req[v].cached_len
  PROVE  kv'[Row(v)'[pos \div PageSize + 1]][pos % PageSize]
           = kv[Row(v)[pos \div PageSize + 1]][pos % PageSize]
<1>1. PICK i, o : i = pos \div PageSize + 1 /\ o = pos % PageSize
  OBVIOUS
<1>2. HolderOK(v) /\ RowThen(rs, v) /\ Moved(rs, E)
  BY HolderFacts DEF LaunchOf, Moved
<1>3. i \in 1 .. Len(Row(v)) /\ Row(v)[i] \in PoolPages /\ Row(v)'[i] = Row(v)[i]
  <2>1. req[v].cached_len \in Nat /\ Len(Row(v)) = CeilPages(req[v].cached_len)
        /\ Row(v) \in Seq(PoolPages)
    BY <1>2 DEF HolderOK
  <2>2. i \in 1 .. Len(Row(v))
    BY <1>1, <2>1, SlotInRow
  <2> QED BY <1>2, <2>1, <2>2 DEF RowThen
<1>4. PICK p : p = Row(v)[i] /\ p \in Pages
  BY <1>3, PoolFits
<1>5. p \notin PagesOf(tree_after_plan, E)
  <2>1. CASE i <= Shared(v)
    <3>1. PICK handle : handle = req'[v].handle /\ handle = req[v].handle
      BY <1>2 DEF RowThen
    <3>2. i \in 1 .. Len(handle) \div PageSize
      BY <1>2, <1>3, <2>1, <3>1 DEF Shared, HolderOK
    <3>3. p = tree'.page[Prefix(handle, i * PageSize)]
      BY <1>2, <1>3, <1>4, <3>1, <3>2, ForwardPages DEF LeftApart, OnHandle
    <3>4. Prefix(handle, i * PageSize) \in Blocks(tree')
      <4>1. v \in Holders'
        BY <1>2 DEF Moved
      <4>2. handle \in Nodes(tree') \cup {<<>>}
        BY <3>1, <4>1, AllHoldersThen DEF HolderOK
      <4>3. IsTree(tree', Vocab, PoolPages')
        BY OwnersThen DEF TreeOf
      <4> QED BY <3>2, <4>2, <4>3, PathBlocks
    <3> QED BY <1>2, <3>3, <3>4, ForwardPages DEF LeftApart
  <2>2. CASE ~(i <= Shared(v))
    <3>1. i \in Shared(v) + 1 .. Len(Row(v))
      BY <1>2, <1>3, <2>2 DEF HolderOK
    <3>2. p \in Own(v)
      BY <1>4, <3>1 DEF Own
    <3> QED BY <1>2, <3>2, ForwardPages DEF HolderOK, LeftApart
  <2> QED BY <2>1, <2>2
<1>6. Scrub(SetToSeq(PagesOf(tree_after_plan, E)))[p] = kv[p]
  <2>1. E \in SUBSET Nodes(tree_after_plan)
    BY <1>2 DEF Moved
  <2> QED BY <1>4, <1>5, <2>1, NotBlanked
<1>7. SlotOfRow(v, pos) = <<p, o>>
  BY <1>1, <1>3, <1>4 DEF SlotOfRow
<1>8. o \in 0 .. PageSize - 1
  BY <1>1, SlotOf
<1>9. \A u, q : ~Writes(rs, u, q, <<p, o>>)
  <2> SUFFICES ASSUME NEW u, NEW q, Writes(rs, u, q, <<p, o>>) PROVE FALSE
    OBVIOUS
  <2>1. PICK c \in Nat : c = req[v].cached_len
    BY <1>2 DEF HolderOK
  <2>2. PICK d \in Nat : d = req'[v].cached_len
    <3>1. v \in Holders'
      BY <1>2 DEF Moved
    <3> QED BY <3>1, AllHoldersThen DEF HolderOK
  <2>3. pos < d
    BY <1>2, <2>1, <2>2 DEF RowThen
  <2>4. u = v /\ q = pos
    BY <1>2, <1>7, <2>2, <2>3, SoleWriter
  <2>5. c <= q
    <3>1. WriterAt(u, q, p, o)
      BY <1>2, WriterOwns
    <3> QED BY <2>1, <2>4, <3>1 DEF WriterAt
  <2> QED BY <2>1, <2>4, <2>5
<1>10. kv'[p][o] = Scrub(SetToSeq(PagesOf(tree_after_plan, E)))[p][o]
  BY <1>4, <1>8, <1>9 DEF LaunchOf, SlotAfter
<1> QED BY <1>1, <1>3, <1>4, <1>6, <1>10

(* What the forward computes is where the row has it. *)
LEMMA NewSlot ==
  ASSUME ControlInv, MemoryInv, ContentInv, ControlInv', MemoryInv', pc = "plan",
         NEW rs, NEW E, LaunchOf(rs, E), NEW v \in Holders, v \in Batch(rs),
         NEW pos \in Nat, req[v].cached_len <= pos, pos < req'[v].cached_len
  PROVE  kv'[Row(v)'[pos \div PageSize + 1]][pos % PageSize] = Computed(v, Row(v)', pos)
<1>1. PICK p, o : p = Row(v)'[pos \div PageSize + 1] /\ o = pos % PageSize
  OBVIOUS
<1>2. Moved(rs, E) /\ RowThen(rs, v) /\ v \in Holders' /\ HolderOK(v) /\ HolderOK(v)'
  <2>1. Moved(rs, E) /\ v \in Holders'
    BY DEF LaunchOf, Moved
  <2> QED BY <2>1, HolderFacts, AllHoldersThen DEF Moved
<1>3. p \in Pages /\ o \in 0 .. PageSize - 1
  <2>1. req'[v].cached_len \in Nat /\ Len(Row(v)') = CeilPages(req'[v].cached_len)
        /\ Row(v)' \in Seq(PoolPages')
    BY <1>2 DEF HolderOK
  <2>2. pos \div PageSize + 1 \in 1 .. Len(Row(v)')
    BY <2>1, SlotInRow
  <2>3. p \in PoolPages'
    BY <1>1, <2>1, <2>2
  <2> QED BY <1>1, <2>3, PoolFitsThen, SlotOf
<1>4. SlotOfRow(v, pos) = <<p, o>>
  BY <1>1 DEF SlotOfRow
<1>5. Row(v)' = page_table'[req[v].table_idx]
  BY <1>2 DEF RowThen, Row
<1>6. Writes(rs, v, pos, <<p, o>>)
  <2>1. PICK c \in Nat, d \in Nat : c = req[v].cached_len /\ d = req[v].device_len /\ d = req'[v].cached_len
    BY <1>2 DEF HolderOK, RowThen
  <2>2. pos \in c .. d - 1
    BY <2>1
  <2> QED BY <1>1, <1>5, <2>1, <2>2 DEF Writes, SlotThen
<1>7. PICK u, q : /\ Writes(rs, u, q, <<p, o>>)
                  /\ kv'[p][o] = Computed(u, page_table'[req[u].table_idx], q)
  BY <1>3, <1>6 DEF LaunchOf, SlotAfter
<1>8. u = v /\ q = pos
  BY <1>2, <1>4, <1>7, SoleWriter
<1> QED BY <1>1, <1>5, <1>7, <1>8

(* The tree's pages are written by nobody. *)
LEMMA TreeSlot ==
  ASSUME ControlInv, MemoryInv, ContentInv, ControlInv', MemoryInv', pc = "plan",
         NEW rs, NEW E, LaunchOf(rs, E), NEW b \in Blocks(tree'), NEW o \in 0 .. PageSize - 1
  PROVE  kv'[tree'.page[b]][o] = kv[tree.page[b]][o]
<1>1. PICK p : p = tree'.page[b]
  OBVIOUS
<1>2. Moved(rs, E)
  BY DEF LaunchOf
<1>3. /\ p \in Pages /\ p = tree.page[b] /\ p \notin PagesOf(tree_after_plan, E)
      /\ \A w \in Holders' : p \notin Own(w)'
  <2>1. p \in PoolPages' /\ \A w \in Holders' : p \notin Own(w)'
    BY <1>1, OwnersThen
  <2>2. p = tree.page[b] /\ p \notin PagesOf(tree_after_plan, E)
    BY <1>1, <1>2, ForwardPages DEF LeftApart, PagesStay
  <2> QED BY <2>1, <2>2, PoolFitsThen
<1>4. \A u, q : ~Writes(rs, u, q, <<p, o>>)
  BY <1>2, <1>3, WriterOwns DEF WriterAt
<1>5. kv'[p][o] = Scrub(SetToSeq(PagesOf(tree_after_plan, E)))[p][o]
  BY <1>3, <1>4 DEF LaunchOf, SlotAfter
<1>6. Scrub(SetToSeq(PagesOf(tree_after_plan, E)))[p] = kv[p]
  <2>1. E \in SUBSET Nodes(tree_after_plan)
    BY <1>2 DEF Moved
  <2> QED BY <1>3, <2>1, NotBlanked
<1> QED BY <1>1, <1>3, <1>5, <1>6

\* The forward of a request: KV of its own tokens, whatever it read them with.
LEMMA ComputedOwn ==
  ASSUME NEW v, NEW row, NEW a \in [1 .. ConfigMaxSeqLen -> Vocab \cup {0}],
         a = token_pool[req[v].table_idx], NEW c \in Nat, c = req[v].cached_len,
         NEW pos \in Nat, c <= pos, pos < ConfigMaxSeqLen, RowHas(kv, v, row, a, c)
  PROVE  Computed(v, row, pos) = Embedded(v, Prefix(a, pos + 1))
<1>1. ConfigMaxSeqLen \in Nat /\ pos + 1 \in Nat /\ c <= pos + 1 /\ pos + 1 <= ConfigMaxSeqLen
  <2>1. ConfigMaxSeqLen \in Nat
    BY SchedulerAssumption
  <2> QED BY <2>1
<1>2. Embedded(v, Prefix(a, pos + 1))
        = Embedded(v, Prefix(a, c)) \o Embedded(v, SubSeq(a, c + 1, pos + 1))
  <2>1. PICK n, m, T : /\ n = ConfigMaxSeqLen /\ m = pos + 1 /\ T = Vocab \cup {0}
                      /\ n \in Nat /\ m \in Nat
    BY <1>1
  <2>2. a \in [1 .. n -> T] /\ c <= m /\ m <= n
    BY <1>1, <2>1
  <2>3. Joins(v, a, c, m)
    <3>1. n \in Nat /\ m \in Nat /\ c \in Nat
      BY <2>1
    <3> QED BY ONLY <2>2, <3>1, EmbeddedJoin
  <2> QED BY <2>1, <2>3 DEF Joins
<1>3. CASE c = 0
  <2>1. Prefix(a, c) = [j \in 1 .. 0 |-> a[j]]
    BY <1>3, CutIs
  <2>2. Embedded(v, Prefix(a, c)) = <<>>
    BY <2>1 DEF Embedded
  <2> QED BY <1>2, <1>3, <2>2 DEF Computed
<1>4. CASE c # 0
  <2>1. PICK k \in Nat : k = c - 1 /\ k + 1 = c /\ k \in 0 .. c - 1
    BY <1>4
  <2>2. kv[row[k \div PageSize + 1]][k % PageSize] = Embedded(v, Prefix(a, c))
    BY <2>1 DEF RowHas
  <2>3. Computed(v, row, pos)
          = kv[row[(c - 1) \div PageSize + 1]][(c - 1) % PageSize] \o Embedded(v, SubSeq(a, c + 1, pos + 1))
    BY <1>4 DEF Computed
  <2> QED BY <1>2, <2>1, <2>2, <2>3
<1> QED BY <1>3, <1>4

(* A launch computes KV of each request's own tokens, in pages no other reads. *)
LEMMA LaunchContent ==
  ASSUME ControlInv, ContractInv, StreamInv, MemoryInv, ContentInv, ControlInv', StreamInv', MemoryInv',
         Launch
  PROVE  ContentInv'
<1>1. pc = "plan"
  BY LaunchUpdates
<1>2. PICK rs \in Planned :
        \E E \in IF missing_pages(rs) > 0
                 THEN Evictions(tree_after_plan, missing_pages(rs) * PageSize) ELSE {{}} :
          \E sampled : Forward(rs, E, sampled)
  BY Zenon DEF Launch
<1>3. PICK E \in IF missing_pages(rs) > 0
                 THEN Evictions(tree_after_plan, missing_pages(rs) * PageSize) ELSE {{}} :
        \E sampled : Forward(rs, E, sampled)
  BY <1>2
<1>4. PICK sampled : Forward(rs, E, sampled)
  BY <1>3
<1>5. LaunchOf(rs, E)
  <2>1. Moved(rs, E)
    BY <1>1, <1>4, ForwardRows
  <2>2. \A p \in Pages, o \in 0 .. PageSize - 1 :
          SlotAfter(rs, SetToSeq(PagesOf(tree_after_plan, E)), p, o)
    BY <1>4, ForwardSlots
  <2>3. \A v \in Holders : TokensThen(rs, v)
    BY <1>1, <1>4, ForwardTokens
  <2> QED BY <2>1, <2>2, <2>3 DEF LaunchOf
<1>6. Moved(rs, E) /\ Holders' = Holders
  BY <1>5 DEF LaunchOf, Moved
<1>7. ASSUME NEW v \in Holders PROVE ReadsOwn(v)'
  <2>1. v \in Holders' /\ RowThen(rs, v) /\ TokensThen(rs, v) /\ HolderOK(v) /\ HolderOK(v)'
    BY <1>5, <1>6, HolderFacts, AllHoldersThen DEF LaunchOf, Moved
  <2>2. PICK c \in Nat, n \in Nat : c = req[v].cached_len /\ n = req'[v].cached_len /\ c <= n
    BY <2>1 DEF HolderOK, RowThen
  <2>3. PICK t \in Tables : t = req[v].table_idx /\ t = req'[v].table_idx
    BY <2>1 DEF HolderOK, RowThen
  <2>4. PICK a \in [1 .. ConfigMaxSeqLen -> Vocab \cup {0}], b \in [1 .. ConfigMaxSeqLen -> Vocab \cup {0}] :
          a = token_pool[t] /\ b = token_pool'[t]
    BY <2>3 DEF StreamInv, DeviceOK
  <2>5. PICK row : row = Row(v)'
    OBVIOUS
  <2>6. Device(v) = a /\ Device(v)' = b
    BY <2>3, <2>4 DEF Device
  <2>7. RowHas(kv, v, Row(v), a, c) /\ OnHandle(tree', row, req'[v].handle)
    BY <1>1, <1>6, <2>2, <2>5, <2>6, ContentIs, ForwardPages DEF ReadsOwn, LeftApart
  <2>8. RowHas(kv, v, row, a, c)
    <3> SUFFICES ASSUME NEW pos \in 0 .. c - 1
                 PROVE  kv[row[pos \div PageSize + 1]][pos % PageSize] = Embedded(v, Prefix(a, pos + 1))
      BY DEF RowHas
    <3>1. pos \in Nat /\ pos < c
      OBVIOUS
    <3>2. pos \div PageSize + 1 \in 1 .. Len(Row(v))
      BY <2>1, <2>2, <3>1, SlotInRow DEF HolderOK
    <3>3. row[pos \div PageSize + 1] = Row(v)[pos \div PageSize + 1]
      BY <2>1, <2>5, <3>2 DEF RowThen
    <3> QED BY <2>7, <3>3 DEF RowHas
  <2>9. RowHas(kv', v, row, a, n)
    <3> SUFFICES ASSUME NEW pos \in 0 .. n - 1
                 PROVE  kv'[row[pos \div PageSize + 1]][pos % PageSize] = Embedded(v, Prefix(a, pos + 1))
      BY DEF RowHas
    <3>1. pos \in Nat /\ pos < n
      OBVIOUS
    <3>2. CASE pos < c
      <4>1. pos \in 0 .. c - 1
        BY <3>1, <3>2
      <4>2. kv'[row[pos \div PageSize + 1]][pos % PageSize]
              = kv[Row(v)[pos \div PageSize + 1]][pos % PageSize]
        BY <1>1, <1>5, <2>2, <2>5, <3>1, <3>2, OldSlot
      <4> QED BY <2>7, <4>1, <4>2 DEF RowHas
    <3>3. CASE ~(pos < c)
      <4>1. v \in Batch(rs) /\ n = req[v].device_len
        BY <2>1, <2>2, <3>1, <3>3 DEF RowThen
      <4>2. pos < ConfigMaxSeqLen
        <5>1. n <= ConfigMaxSeqLen /\ ConfigMaxSeqLen \in Nat
          BY <2>1, <4>1, SchedulerAssumption DEF TokensThen
        <5> QED BY <3>1, <5>1
      <4>3. c <= pos
        BY <3>1, <3>3
      <4>4. kv'[row[pos \div PageSize + 1]][pos % PageSize] = Computed(v, row, pos)
        BY <1>1, <1>5, <2>2, <2>5, <3>1, <4>1, <4>3, NewSlot
      <4>5. Computed(v, row, pos) = Embedded(v, Prefix(a, pos + 1))
        <5>1. a = token_pool[req[v].table_idx] /\ c = req[v].cached_len /\ pos \in Nat
          BY <2>2, <2>3, <2>4, <3>1
        <5> QED BY ONLY <5>1, <2>8, <4>2, <4>3, c \in Nat, ComputedOwn,
                        a \in [1 .. ConfigMaxSeqLen -> Vocab \cup {0}]
      <4> QED BY <4>4, <4>5
    <3> QED BY <3>2, <3>3
  <2>10. \A k \in 1 .. n : a[k] = b[k]
    <3>1. CASE v \in Batch(rs)
      BY <2>1, <2>2, <2>3, <2>4, <3>1 DEF TokensThen, RowThen
    <3>2. CASE v \notin Batch(rs)
      BY <2>1, <2>3, <2>4, <3>2 DEF TokensThen
    <3> QED BY <3>1, <3>2
  <2>11. RowHas(kv', v, row, b, n)
    BY <2>9, <2>10, SameReads
  <2> QED BY <2>2, <2>5, <2>6, <2>7, <2>11 DEF ReadsOwn
<1>8. ASSUME NEW b \in Blocks(tree') PROVE BlockHas(kv', tree'.page[b], b)
  <2>1. b \in Blocks(tree)
    BY <1>1, <1>6, ForwardPages DEF LeftApart
  <2>2. BlockHas(kv, tree.page[b], b)
    BY <2>1, ContentIs DEF TreeHas
  <2>3. \A o \in 0 .. PageSize - 1 : kv'[tree'.page[b]][o] = kv[tree.page[b]][o]
    BY <1>1, <1>5, TreeSlot
  <2> QED BY <2>2, <2>3 DEF BlockHas
<1>9. TreeHas(kv, tree)'
  BY <1>8 DEF TreeHas
<1>10. (\A v \in Holders : ReadsOwn(v))'
  BY <1>6, <1>7
<1> QED BY <1>9, <1>10, ContentThen

\* Every step of the scheduler keeps what the slots hold.
LEMMA NextContent ==
  ASSUME ControlInv, ContractInv, StreamInv, MemoryInv, ContentInv,
         ControlInv', StreamInv', MemoryInv', [Next]_vars
  PROVE  ContentInv'
<1>1. CASE Receive
  BY <1>1, ReceiveContent
<1>2. CASE EndReceive \/ RebuildRejected \/ ChunkMultimodal \/ NoLaunch \/ Quiescent \/ UNCHANGED vars
  BY <1>2, StillContent
<1>3. CASE RebuildDone
  BY <1>3, RebuildContent
<1>4. CASE AdmitContinuation
  BY <1>4, ContinuationContent
<1>5. CASE AdmitFresh
  BY <1>5, AdmitFreshContent
<1>6. CASE Launch
  BY <1>6, LaunchContent
<1>7. CASE DrainChunk \/ DrainAborted \/ DrainStale \/ DrainFinished \/ DrainPrefilled \/ DrainDecoded
  BY <1>7, DrainContent
<1>8. CASE EndIteration
  BY <1>8, EndIterationContent
<1> QED BY <1>1, <1>2, <1>3, <1>4, <1>5, <1>6, <1>7, <1>8 DEF Next, Loop

\* What the pool holds goes with what cache.py and scheduler.py record of it,
\* through every admission, forward, commit, eviction, free and rebuild.
THEOREM ContentInvariant == Spec => []ContentInv
<1>1. Init => ContentInv
  BY InitContent
<1>2. ControlInv /\ ContractInv /\ StreamInv /\ MemoryInv /\ ContentInv
        /\ ControlInv' /\ StreamInv' /\ MemoryInv' /\ [Next]_vars => ContentInv'
  BY NextContent
<1> QED BY <1>1, <1>2, ControlInvariant, ContractInvariant, StreamInvariant, MemoryInvariant, PTL
        DEF Spec

\* At every position it has computed, a request's row leads to KV of exactly its
\* own tokens: no page is recycled, re-pointed or shared under a request that
\* still reads it.
THEOREM RowsReadOwnKV == Spec => []RowsHoldOwnKV
<1>1. ContentInv => RowsHoldOwnKV
  BY DEF ContentInv
<1> QED BY <1>1, ContentInvariant, PTL

\* What the prefix cache would serve to a later prompt is the KV of that prefix,
\* computed without any image.
THEOREM CacheServesPrefixes == Spec => []TreeHoldsPrefixKV
<1>1. ContentInv => TreeHoldsPrefixKV
  BY DEF ContentInv
<1> QED BY <1>1, ContentInvariant, PTL

(***************************************************************************)
(* Counting the pages promised.                                            *)
(***************************************************************************)

\* f[u] cells for each u of U: what Needs, PagesBefore and inflight_tokens count.
Cells(U, f) == UNION {{u} \X (1 .. f[u]) : u \in U}

\* What a cell is.
LEMMA InCells ==
  ASSUME NEW U, NEW f, NEW c
  PROVE  c \in Cells(U, f) <=> \E u \in U : \E k \in 1 .. f[u] : c = <<u, k>>
<1>1. c \in Cells(U, f) <=> \E u \in U : c \in {u} \X (1 .. f[u])
  BY DEF Cells
<1>2. ASSUME NEW u PROVE c \in {u} \X (1 .. f[u]) <=> \E k \in 1 .. f[u] : c = <<u, k>>
  OBVIOUS
<1> QED BY <1>1, <1>2

\* Bounded counts of a finite set are a finite set of cells.
LEMMA CellsFinite ==
  ASSUME NEW U, IsFiniteSet(U), NEW m \in Nat, NEW f, \A u \in U : f[u] \in 0 .. m
  PROVE  IsFiniteSet(Cells(U, f)) /\ Cardinality(Cells(U, f)) \in Nat
<1>1. IsFiniteSet(1 .. m)
  BY FS_Interval
<1>2. IsFiniteSet(U \X (1 .. m))
  BY <1>1, FS_Product
<1>3. Cells(U, f) \subseteq U \X (1 .. m)
  <2> SUFFICES ASSUME NEW c \in Cells(U, f) PROVE c \in U \X (1 .. m)
    OBVIOUS
  <2>1. PICK u \in U : \E k \in 1 .. f[u] : c = <<u, k>>
    BY InCells
  <2>2. PICK k \in 1 .. f[u] : c = <<u, k>>
    BY <2>1
  <2>3. PICK n \in 0 .. m : n = f[u]
    OBVIOUS
  <2>4. k \in 1 .. m
    BY <2>2, <2>3
  <2> QED BY <2>2, <2>4
<1>4. IsFiniteSet(Cells(U, f))
  BY <1>2, <1>3, FS_Subset
<1> QED BY <1>4, FS_CardinalityType

\* Fewer to count, and no more for each.
LEMMA CellsFewer ==
  ASSUME NEW V, IsFiniteSet(V), NEW U \in SUBSET V, NEW m \in Nat,
         NEW g, \A u \in V : g[u] \in 0 .. m, NEW f, \A u \in U : f[u] \in Nat /\ f[u] <= g[u]
  PROVE  /\ Cells(U, f) \subseteq Cells(V, g)
         /\ IsFiniteSet(Cells(U, f)) /\ IsFiniteSet(Cells(V, g))
         /\ Cardinality(Cells(U, f)) \in Nat /\ Cardinality(Cells(V, g)) \in Nat
         /\ Cardinality(Cells(U, f)) <= Cardinality(Cells(V, g))
<1>1. IsFiniteSet(Cells(V, g)) /\ Cardinality(Cells(V, g)) \in Nat
  BY CellsFinite
<1>2. Cells(U, f) \subseteq Cells(V, g)
  <2> SUFFICES ASSUME NEW c \in Cells(U, f) PROVE c \in Cells(V, g)
    OBVIOUS
  <2>1. PICK u \in U : \E k \in 1 .. f[u] : c = <<u, k>>
    BY InCells
  <2>2. PICK k \in 1 .. f[u] : c = <<u, k>>
    BY <2>1
  <2>3. PICK a \in Nat, b \in Nat : a = f[u] /\ b = g[u] /\ a <= b
    OBVIOUS
  <2>4. k \in 1 .. b
    BY <2>2, <2>3
  <2> QED BY <2>2, <2>3, <2>4, InCells
<1>3. IsFiniteSet(Cells(U, f)) /\ Cardinality(Cells(U, f)) <= Cardinality(Cells(V, g))
  BY <1>1, <1>2, FS_Subset
<1>4. Cardinality(Cells(U, f)) \in Nat
  BY <1>3, FS_CardinalityType
<1> QED BY <1>1, <1>2, <1>3, <1>4

\* One more to count.
LEMMA CellsAdd ==
  ASSUME NEW U, IsFiniteSet(U), NEW w, NEW m \in Nat, NEW f, \A u \in U \cup {w} : f[u] \in 0 .. m
  PROVE  /\ Cardinality(Cells(U \cup {w}, f)) <= Cardinality(Cells(U, f)) + f[w]
         /\ Cardinality(Cells(U \cup {w}, f)) \in Nat /\ Cardinality(Cells(U, f)) \in Nat
<1>1. IsFiniteSet(Cells(U, f)) /\ Cardinality(Cells(U, f)) \in Nat
  <2>1. \A u \in U : f[u] \in 0 .. m
    OBVIOUS
  <2> QED BY <2>1, CellsFinite
<1>2. PICK n \in 0 .. m : n = f[w]
  OBVIOUS
<1>3. IsFiniteSet({w} \X (1 .. n)) /\ Cardinality({w} \X (1 .. n)) = n
  <2>1. IsFiniteSet({w}) /\ Cardinality({w}) = 1
    BY FS_Singleton
  <2>2. IsFiniteSet(1 .. n) /\ Cardinality(1 .. n) = n
    BY FS_Interval
  <2>3. Cardinality({w} \X (1 .. n)) = 1 * n /\ IsFiniteSet({w} \X (1 .. n))
    BY <2>1, <2>2, FS_Product
  <2> QED BY <2>3
<1>4. Cells(U \cup {w}, f) = Cells(U, f) \cup ({w} \X (1 .. n))
  BY <1>2, Zenon DEF Cells
<1>5. Cardinality(Cells(U \cup {w}, f))
        = Cardinality(Cells(U, f)) + n - Cardinality(Cells(U, f) \cap ({w} \X (1 .. n)))
      /\ IsFiniteSet(Cells(U \cup {w}, f))
  <2>1. PICK A, B : A = Cells(U, f) /\ B = {w} \X (1 .. n)
    OBVIOUS
  <2>2. IsFiniteSet(A \cup B) /\ Cardinality(A \cup B) = Cardinality(A) + Cardinality(B) - Cardinality(A \cap B)
    BY <1>1, <1>3, <2>1, FS_Union
  <2> QED BY <1>3, <1>4, <2>1, <2>2
<1>6. Cardinality(Cells(U, f) \cap ({w} \X (1 .. n))) \in Nat
  BY <1>1, FS_Intersection, FS_CardinalityType
<1>7. Cardinality(Cells(U \cup {w}, f)) \in Nat
  BY <1>5, FS_CardinalityType
<1> QED BY <1>1, <1>2, <1>5, <1>6, <1>7

\* Counts with room for one page less a token in each of p, in units of p.
LEMMA CellsPad ==
  ASSUME NEW U, IsFiniteSet(U), NEW m \in Nat, NEW p \in Nat \ {0},
         NEW f, \A u \in U : f[u] \in 0 .. m, NEW g, \A u \in U : g[u] \in 0 .. m,
         \A u \in U : f[u] * p <= g[u] + p - 1
  PROVE  Cardinality(Cells(U, f)) * p <= Cardinality(Cells(U, g)) + (p - 1) * Cardinality(U)
<1> DEFINE A == Cells(U, f) \X (0 .. p - 1)
           W == U \X (2 - p .. 0)
           B == Cells(U, g) \cup W
           h == [a \in A |-> <<a[1][1], ((a[1][2] - 1) * p + a[2] + 1) - (p - 1)>>]
<1>1. /\ IsFiniteSet(Cells(U, f)) /\ Cardinality(Cells(U, f)) \in Nat
      /\ IsFiniteSet(Cells(U, g)) /\ Cardinality(Cells(U, g)) \in Nat
  BY CellsFinite
<1>2. IsFiniteSet(A) /\ Cardinality(A) = Cardinality(Cells(U, f)) * p
  <2>1. IsFiniteSet(0 .. p - 1) /\ Cardinality(0 .. p - 1) = p
    BY FS_Interval
  <2> QED BY <1>1, <2>1, FS_Product
<1>3. IsFiniteSet(W) /\ Cardinality(W) = Cardinality(U) * (p - 1) /\ Cardinality(U) \in Nat
  <2>1. IsFiniteSet(2 - p .. 0) /\ Cardinality(2 - p .. 0) = p - 1
    BY FS_Interval
  <2> QED BY <2>1, FS_Product, FS_CardinalityType
<1>4. IsFiniteSet(B) /\ Cardinality(B) <= Cardinality(Cells(U, g)) + Cardinality(W) /\ Cardinality(B) \in Nat
  <2>1. PICK C, D : C = Cells(U, g) /\ D = W
    OBVIOUS
  <2>2. IsFiniteSet(C \cup D) /\ Cardinality(C \cup D) = Cardinality(C) + Cardinality(D) - Cardinality(C \cap D)
    BY <1>1, <1>3, <2>1, FS_Union
  <2>3. Cardinality(C \cap D) \in Nat /\ Cardinality(C \cup D) \in Nat /\ Cardinality(D) \in Nat
    BY <1>1, <1>3, <2>1, <2>2, FS_Intersection, FS_CardinalityType
  <2> QED BY <1>1, <2>1, <2>2, <2>3
<1>5. ASSUME NEW a \in A
      PROVE  \E u \in U : \E k \in 1 .. f[u], o \in 0 .. p - 1 : a = <<<<u, k>>, o>>
  <2>1. PICK c \in Cells(U, f), o \in 0 .. p - 1 : a = <<c, o>>
    OBVIOUS
  <2>2. PICK u \in U : \E k \in 1 .. f[u] : c = <<u, k>>
    BY InCells
  <2> QED BY <2>1, <2>2
<1>6. ASSUME NEW u \in U, NEW k \in 1 .. f[u], NEW o \in 0 .. p - 1
      PROVE  h[<<<<u, k>>, o>>] = <<u, ((k - 1) * p + o + 1) - (p - 1)>>
  <2>1. <<u, k>> \in Cells(U, f)
    BY InCells
  <2> QED BY <2>1
<1>7. \A a \in A : h[a] \in B
  <2> SUFFICES ASSUME NEW a \in A PROVE h[a] \in B
    OBVIOUS
  <2>1. PICK u \in U : \E k \in 1 .. f[u], o \in 0 .. p - 1 : a = <<<<u, k>>, o>>
    BY <1>5
  <2>2. PICK k \in 1 .. f[u], o \in 0 .. p - 1 : a = <<<<u, k>>, o>>
    BY <2>1
  <2>3. PICK n \in 0 .. m, r \in 0 .. m : n = f[u] /\ r = g[u] /\ n * p <= r + p - 1
    OBVIOUS
  <2>4. PICK j \in Int : j = ((k - 1) * p + o + 1) - (p - 1)
    BY <2>3
  <2>5. k \in Nat /\ 1 <= k /\ k <= n
    BY <2>3
  <2>6. k * p <= n * p /\ (k - 1) * p = k * p - p /\ (k - 1) * p >= 0 /\ n * p \in Nat /\ k * p \in Nat
    BY ONLY <2>5, n \in 0 .. m, m \in Nat, p \in Nat \ {0}, Z3
  <2>7. j <= r /\ j >= 2 - p
    BY <2>3, <2>4, <2>6
  <2>8. <<u, j>> \in B
    <3>1. CASE j >= 1
      <4>1. j \in 1 .. g[u]
        BY <2>3, <2>7, <3>1
      <4> QED BY <4>1, InCells
    <3>2. CASE ~(j >= 1)
      BY <2>7, <3>2
    <3> QED BY <3>1, <3>2
  <2> QED BY <1>6, <2>2, <2>4, <2>8
<1>8. \A a, b \in A : h[a] = h[b] => a = b
  <2> SUFFICES ASSUME NEW a \in A, NEW b \in A, h[a] = h[b] PROVE a = b
    OBVIOUS
  <2>1. PICK u \in U : \E k \in 1 .. f[u], o \in 0 .. p - 1 : a = <<<<u, k>>, o>>
    BY <1>5
  <2>2. PICK k \in 1 .. f[u], o \in 0 .. p - 1 : a = <<<<u, k>>, o>>
    BY <2>1
  <2>3. PICK v \in U : \E k2 \in 1 .. f[v], o2 \in 0 .. p - 1 : b = <<<<v, k2>>, o2>>
    BY <1>5
  <2>4. PICK k2 \in 1 .. f[v], o2 \in 0 .. p - 1 : b = <<<<v, k2>>, o2>>
    BY <2>3
  <2>5. k \in Int /\ k2 \in Int
    OBVIOUS
  <2>6. h[a] = <<u, ((k - 1) * p + o + 1) - (p - 1)>> /\ h[b] = <<v, ((k2 - 1) * p + o2 + 1) - (p - 1)>>
    BY <1>6, <2>2, <2>4
  <2>7. u = v /\ ((k - 1) * p + o + 1) - (p - 1) = ((k2 - 1) * p + o2 + 1) - (p - 1)
    BY <2>6
  <2>8. (k - 1) * p + o = (k2 - 1) * p + o2
    <3>1. PICK x \in Int, y \in Int : x = (k - 1) * p /\ y = (k2 - 1) * p
      BY <2>5
    <3> QED BY <2>7, <3>1
  <2>9. k = k2 /\ o = o2
    BY ONLY <2>5, <2>8, p \in Nat \ {0}, o \in 0 .. p - 1, o2 \in 0 .. p - 1, Z3
  <2> QED BY <2>2, <2>4, <2>7, <2>9
<1>9. h \in Injection(A, B)
  <2>1. h \in [A -> B]
    BY <1>7
  <2> QED BY <1>8, <2>1 DEF Injection, IsInjective
<1>10. Cardinality(A) <= Cardinality(B)
  BY <1>4, <1>9, FS_Injection
<1>11. Cardinality(U) * (p - 1) = (p - 1) * Cardinality(U)
  BY <1>3
<1> QED
  <2>1. PICK x \in Int, y \in Int : x = Cardinality(Cells(U, f)) * p /\ y = (p - 1) * Cardinality(U)
    BY <1>1, <1>3
  <2> QED BY <1>1, <1>2, <1>3, <1>4, <1>10, <1>11, <2>1

\* What is left to count after n[u] of each u of B.
LEMMA CellsUsed ==
  ASSUME NEW U, IsFiniteSet(U), NEW m \in Nat, NEW f, \A u \in U : f[u] \in 0 .. m,
         NEW B \in SUBSET U, NEW n, \A u \in B : n[u] \in Nat /\ n[u] <= f[u],
         NEW V \in SUBSET U, NEW g,
         \A u \in V : g[u] \in Nat /\ g[u] <= f[u] - (IF u \in B THEN n[u] ELSE 0)
  PROVE  /\ Cardinality(Cells(V, g)) + Cardinality(Cells(B, n)) <= Cardinality(Cells(U, f))
         /\ Cardinality(Cells(V, g)) \in Nat /\ Cardinality(Cells(B, n)) \in Nat
         /\ Cardinality(Cells(U, f)) \in Nat
<1> DEFINE Used(u) == IF u \in B THEN n[u] ELSE 0
           R == Cells(U, f) \ Cells(B, n)
           h == [c \in Cells(V, g) |-> <<c[1], c[2] + Used(c[1])>>]
<1>1. /\ Cells(B, n) \subseteq Cells(U, f)
      /\ IsFiniteSet(Cells(B, n)) /\ IsFiniteSet(Cells(U, f))
      /\ Cardinality(Cells(B, n)) \in Nat /\ Cardinality(Cells(U, f)) \in Nat
  BY CellsFewer
<1>2. IsFiniteSet(R) /\ Cardinality(R) = Cardinality(Cells(U, f)) - Cardinality(Cells(B, n))
  <2>1. PICK X, Y : X = Cells(U, f) /\ Y = Cells(B, n)
    OBVIOUS
  <2>2. X \cap Y = Y
    BY <1>1, <2>1
  <2>3. IsFiniteSet(X \ Y) /\ Cardinality(X \ Y) = Cardinality(X) - Cardinality(X \cap Y)
    BY <1>1, <2>1, FS_Difference
  <2> QED BY <2>1, <2>2, <2>3
<1>3. ASSUME NEW u \in V
      PROVE  Used(u) \in Nat /\ g[u] \in Nat /\ g[u] + Used(u) <= f[u] /\ f[u] \in Nat
  OBVIOUS
<1>4. ASSUME NEW c \in Cells(V, g)
      PROVE  \E u \in V : \E k \in 1 .. g[u] : c = <<u, k>> /\ h[c] = <<u, k + Used(u)>>
  <2>1. PICK u \in V : \E k \in 1 .. g[u] : c = <<u, k>>
    BY InCells
  <2> QED BY <2>1
<1>5. \A c \in Cells(V, g) : h[c] \in R
  <2> SUFFICES ASSUME NEW c \in Cells(V, g) PROVE h[c] \in R
    OBVIOUS
  <2>1. PICK u \in V : \E k \in 1 .. g[u] : c = <<u, k>> /\ h[c] = <<u, k + Used(u)>>
    BY <1>4
  <2>2. PICK k \in 1 .. g[u] : h[c] = <<u, k + Used(u)>>
    BY <2>1
  <2>3. PICK a \in Nat, b \in Nat, d \in Nat : a = f[u] /\ b = g[u] /\ d = Used(u) /\ b + d <= a
    BY <1>3
  <2>4. k + d \in 1 .. a /\ ~(k + d <= d)
    BY <2>2, <2>3
  <2>5. h[c] \in Cells(U, f)
    BY <2>2, <2>3, <2>4, InCells
  <2>6. h[c] \notin Cells(B, n)
    <3> SUFFICES ASSUME h[c] \in Cells(B, n) PROVE FALSE
      OBVIOUS
    <3>1. PICK w \in B : \E j \in 1 .. n[w] : h[c] = <<w, j>>
      BY InCells
    <3>2. PICK j \in 1 .. n[w] : h[c] = <<w, j>>
      BY <3>1
    <3>3. w = u /\ j = k + d
      BY <2>2, <2>3, <3>2
    <3>4. d = n[w]
      BY <2>3, <3>3
    <3> QED BY <2>3, <2>4, <3>2, <3>3, <3>4
  <2> QED BY <2>5, <2>6
<1>6. \A c, d \in Cells(V, g) : h[c] = h[d] => c = d
  <2> SUFFICES ASSUME NEW c \in Cells(V, g), NEW d \in Cells(V, g), h[c] = h[d] PROVE c = d
    OBVIOUS
  <2>1. PICK u \in V : \E k \in 1 .. g[u] : c = <<u, k>> /\ h[c] = <<u, k + Used(u)>>
    BY <1>4
  <2>2. PICK k \in 1 .. g[u] : c = <<u, k>> /\ h[c] = <<u, k + Used(u)>>
    BY <2>1
  <2>3. PICK v \in V : \E j \in 1 .. g[v] : d = <<v, j>> /\ h[d] = <<v, j + Used(v)>>
    BY <1>4
  <2>4. PICK j \in 1 .. g[v] : d = <<v, j>> /\ h[d] = <<v, j + Used(v)>>
    BY <2>3
  <2>5. u = v /\ k + Used(u) = j + Used(v)
    BY <2>2, <2>4
  <2>6. k \in Int /\ j \in Int /\ Used(u) \in Nat
    BY <1>3
  <2> QED BY <2>2, <2>4, <2>5, <2>6
<1>7. h \in Injection(Cells(V, g), R)
  <2>1. h \in [Cells(V, g) -> R]
    BY <1>5
  <2> QED BY <1>6, <2>1 DEF Injection, IsInjective
<1>8. IsFiniteSet(Cells(V, g)) /\ Cardinality(Cells(V, g)) <= Cardinality(R)
  BY <1>2, <1>7, FS_Injection
<1>9. Cardinality(Cells(V, g)) \in Nat
  BY <1>8, FS_CardinalityType
<1> QED BY <1>1, <1>2, <1>8, <1>9

(***************************************************************************)
(* The requests' needs.                                                    *)
(***************************************************************************)

Rooms == [u \in Uids |-> Room(u)]

\* Needs is a count of cells.
LEMMA NeedsAre ==
  ASSUME NEW U \in SUBSET Uids
  PROVE  Needs(U) = Cells(U, Rooms)
BY DEF Needs, Cells, Rooms

\* What a holder may still take.
LEMMA RoomIs ==
  ASSUME ControlInv, StreamInv, NEW u \in Holders
  PROVE  /\ req[u].cached_len \in Nat /\ req[u].device_len \in Nat /\ max_device_len(u) \in Nat
         /\ req[u].cached_len <= req[u].device_len /\ req[u].device_len <= max_device_len(u)
         /\ u \in running_reqs => req[u].device_len < max_device_len(u)
         /\ Ending_len(u) \in Nat /\ req[u].cached_len <= Ending_len(u)
         /\ Ending_len(u) <= ConfigMaxSeqLen
         /\ Room(u) \in 0 .. CeilPages(ConfigMaxSeqLen) /\ Rooms[u] = Room(u)
         /\ CeilPages(Ending_len(u)) = CeilPages(req[u].cached_len) + Room(u)
         /\ CeilPages(ConfigMaxSeqLen) \in Nat
<1>1. u \in Uids /\ Held(u) /\ req[u] \in Reqs /\ req[u].n # 0
  BY DEF Holders, ControlInv, ControlTypes, UnbornOK
<1>2. PICK c \in Nat, d \in Nat, l \in Nat, e \in {max_device_len(u)} :
        /\ c = req[u].cached_len /\ d = req[u].device_len /\ e = max_device_len(u)
        /\ l = ConfigMaxSeqLen
  BY <1>1, SchedulerAssumption DEF Reqs
<1>3. e \in Nat
  <2>1. Prompt[u] \in Seq(Vocab)
    BY <1>1, SchedulerAssumption
  <2>2. Len(Prompt[u]) \in Nat /\ req[u].output_len \in 0 .. l
    BY <1>1, <1>2, <2>1 DEF Reqs
  <2> QED BY <1>2, <2>2 DEF max_device_len
<1>4. c <= d /\ d <= e /\ e <= l
  BY <1>1, <1>2 DEF StreamInv, BudgetsOK
<1>5. u \in running_reqs => d < e
  BY <1>2 DEF ControlInv, RunningOK
<1>6. PICK x \in Nat : x = Ending_len(u) /\ c <= x /\ x <= e
  <2>1. CASE u \in running_reqs
    BY <1>2, <1>3, <1>4, <1>5, <2>1 DEF Ending_len
  <2>2. CASE u \notin running_reqs
    BY <1>2, <1>3, <1>4, <2>2 DEF Ending_len
  <2> QED BY <2>1, <2>2
<1>7. /\ CeilPages(c) \in Nat /\ CeilPages(x) \in Nat /\ CeilPages(l) \in Nat
      /\ CeilPages(c) <= CeilPages(x) /\ CeilPages(x) <= CeilPages(l)
  <2>1. x <= l
    BY <1>2, <1>3, <1>4, <1>6
  <2> QED BY <1>2, <1>6, <2>1, CeilIs, CeilOrder
<1>8. Room(u) = CeilPages(x) - CeilPages(c)
  BY <1>2, <1>6 DEF Room
<1>9. Rooms[u] = Room(u)
  BY <1>1 DEF Rooms
<1> QED BY <1>2, <1>3, <1>4, <1>5, <1>6, <1>7, <1>8, <1>9

\* Who is promised pages holds a row.
LEMMA PromisedHold ==
  ASSUME ControlInv
  PROVE  /\ Promised \in SUBSET Holders /\ running_reqs \in SUBSET Holders /\ Holders \subseteq Uids
         /\ \A u \in Uids : Processed(u) => u \in Holders /\ Queued(u) /\ u \notin running_reqs
         /\ IsFiniteSet(Holders)
<1>1. running_reqs \subseteq Holders
  BY DEF ControlInv, RunningOK, Holders, ControlTypes
<1>2. ASSUME NEW u \in Uids, Processed(u) PROVE u \in Holders /\ Queued(u) /\ u \notin running_reqs
  <2>1. PICK i \in 1 .. Len(adder.reqs) : adder.reqs[i].uid = u
    BY <1>2 DEF Processed
  <2>2. PlanTypes /\ PlanPrefix /\ TakenOK(adder.reqs[i])
    BY <1>2 DEF Processed, ControlInv, PlanOK
  <2>3. Held(u)
    BY <2>1, <2>2 DEF TakenOK
  <2>4. i \in 1 .. Len(pending_list)
    <3>1. Len(adder.reqs) \in Nat /\ Len(adder.rest) \in Nat
      BY <2>2 DEF PlanTypes
    <3>2. Len(pending_list) = Len(adder.reqs) + Len(adder.rest)
      BY <2>2 DEF PlanPrefix
    <3>3. PICK a \in Nat, b \in Nat : a = Len(adder.reqs) /\ b = Len(adder.rest)
      BY <3>1
    <3>4. i \in 1 .. a /\ Len(pending_list) = a + b
      BY <3>2, <3>3
    <3>5. a \in Nat /\ b \in Nat
      OBVIOUS
    <3> QED BY ONLY <3>4, <3>5
  <2>5. Queued(u)
    BY <2>1, <2>2, <2>4 DEF PlanPrefix, Queued
  <2> QED BY <2>3, <2>5 DEF Holders, ControlInv, RunningOK
<1>3. IsFiniteSet(Holders)
  BY HoldersFinite
<1> QED BY <1>1, <1>2, <1>3 DEF Promised, Holders

\* Whose needs are counted: a finite set of cells.
LEMMA NeedsFinite ==
  ASSUME ControlInv, StreamInv, NEW U \in SUBSET Holders
  PROVE  /\ Needs(U) = Cells(U, Rooms) /\ IsFiniteSet(U) /\ U \in SUBSET Uids
         /\ IsFiniteSet(Needs(U)) /\ Cardinality(Needs(U)) \in Nat
         /\ CeilPages(ConfigMaxSeqLen) \in Nat /\ \A u \in U : Rooms[u] \in 0 .. CeilPages(ConfigMaxSeqLen)
<1>1. IsFiniteSet(U) /\ U \in SUBSET Uids
  BY PromisedHold, FS_Subset
<1>2. \A u \in U : Rooms[u] \in 0 .. CeilPages(ConfigMaxSeqLen)
  BY RoomIs
<1>3. CeilPages(ConfigMaxSeqLen) \in Nat
  BY SchedulerAssumption, CeilIs
<1>4. Needs(U) = Cells(U, Rooms)
  BY <1>1, NeedsAre
<1>5. IsFiniteSet(Cells(U, Rooms)) /\ Cardinality(Cells(U, Rooms)) \in Nat
  BY <1>1, <1>2, <1>3, CellsFinite
<1> QED BY <1>1, <1>2, <1>3, <1>4, <1>5

(***************************************************************************)
(* The pages no request holds are the free and the evictable ones.         *)
(***************************************************************************)

EvictableBlocks(tr) == {b \in Blocks(tr) : tr.ref[NodeOf(tr, b)] = 0}

\* A block is protected exactly when it is under a handle.
LEMMA ProtectedIs ==
  ASSUME ControlInv, MemoryInv, NEW b \in Blocks(tree)
  PROVE  /\ tree.ref[NodeOf(tree, b)] \in Nat
         /\ tree.ref[NodeOf(tree, b)] = 0 <=> \A u \in Holders : ~IsPrefix(b, req[u].handle)
<1>1. /\ IsTree(tree, Vocab, PoolPages) /\ Points(tree, Handles, Holders)
      /\ Counts(tree, Handles, Holders) /\ IsFiniteSet(Holders)
  BY LocksAre
<1>2. PICK n \in Seq(Vocab) : /\ n = NodeOf(tree, b) /\ n \in Nodes(tree) /\ IsPrefix(b, n) /\ b \in Seq(Vocab)
                              /\ \A m \in Nodes(tree) : IsPrefix(b, m) => IsPrefix(n, m)
  BY <1>1, NodeOfIs, BlockFacts
<1>3. tree.ref[n] = Cardinality(Covering(Handles, Holders, n))
  BY <1>1, <1>2 DEF Counts
<1>4. IsFiniteSet(Covering(Handles, Holders, n))
  BY <1>1, FS_Subset DEF Covering
<1>5. tree.ref[n] \in Nat /\ (tree.ref[n] = 0 <=> Covering(Handles, Holders, n) = {})
  BY <1>3, <1>4, FS_EmptySet, FS_CardinalityType
<1>6. ASSUME NEW u \in Holders
      PROVE  u \in Covering(Handles, Holders, n) <=> IsPrefix(b, req[u].handle)
  <2>1. Handles[u] = req[u].handle /\ HolderOK(u)
    BY HolderFacts DEF Handles, Holders
  <2>2. PICK h \in Seq(Vocab) : h = req[u].handle /\ h \in Nodes(tree) \cup {<<>>}
    BY <2>1 DEF HolderOK
  <2>3. IsPrefix(n, h) => IsPrefix(b, h)
    BY <1>2, <2>2, PrefixTrans
  <2>4. ASSUME IsPrefix(b, h) PROVE IsPrefix(n, h)
    <3>1. h # <<>>
      BY <1>1, <1>2, <2>4, BlockFacts, PrefixEmpty
    <3> QED BY <1>2, <2>2, <2>4, <3>1
  <2> QED BY <2>1, <2>2, <2>3, <2>4 DEF Covering
<1>7. \A u \in Covering(Handles, Holders, n) : u \in Holders
  BY DEF Covering
<1> QED BY <1>2, <1>5, <1>6, <1>7

\* A list of pages without repetition is as long as its pages are many.
LEMMA OnceCounts ==
  ASSUME NEW N, NEW s \in Seq(N), NEW R, Once(s, R)
  PROVE  IsFiniteSet(R) /\ Cardinality(R) = Len(s)
<1>1. PICK n \in Nat : n = Len(s)
  OBVIOUS
<1>2. s \in Bijection(1 .. n, R)
  <2>1. \A i \in 1 .. n : s[i] \in R
    BY <1>1 DEF Once
  <2>2. s \in [1 .. n -> R]
    BY <1>1, <2>1
  <2>3. \A i, j \in 1 .. n : s[i] = s[j] => i = j
    BY <1>1 DEF Once
  <2>4. \A p \in R : \E i \in 1 .. n : s[i] = p
    BY <1>1 DEF Once
  <2> QED BY <2>2, <2>3, <2>4 DEF Bijection, Injection, Surjection, IsInjective
<1>3. IsFiniteSet(1 .. n) /\ Cardinality(1 .. n) = n
  BY FS_Interval
<1> QED BY <1>1, <1>2, <1>3, FS_Bijection DEF ExistsBijection

\* The pages of evictable blocks, as many as the blocks.
LEMMA EvictableCounts ==
  ASSUME NEW tr, NEW N, TreeOf(tr, N)
  PROVE  LET E == EvictableBlocks(tr)
         IN  /\ IsFiniteSet({tr.page[b] : b \in E}) /\ Cardinality({tr.page[b] : b \in E}) = Cardinality(E)
             /\ Cardinality(E) \in Nat /\ EvictableSize(tr) = PageSize * Cardinality(E)
<1> DEFINE E == EvictableBlocks(tr)
           Q == {tr.page[b] : b \in E}
           f == [b \in E |-> tr.page[b]]
<1>1. IsFiniteSet(Blocks(tr)) /\ \A b, c \in Blocks(tr) : tr.page[b] = tr.page[c] => b = c
  BY DEF TreeOf, IsTree, WellFormed
<1>2. E \subseteq Blocks(tr)
  BY DEF EvictableBlocks
<1>3. IsFiniteSet(E) /\ Cardinality(E) \in Nat
  BY <1>1, <1>2, FS_Subset, FS_CardinalityType
<1>4. f \in Bijection(E, Q)
  <2>1. f \in [E -> Q] /\ \A q \in Q : \E b \in E : f[b] = q
    OBVIOUS
  <2>2. \A b, c \in E : f[b] = f[c] => b = c
    BY <1>1, <1>2
  <2> QED BY <2>1, <2>2 DEF Bijection, Injection, Surjection, IsInjective
<1>5. IsFiniteSet(Q) /\ Cardinality(Q) = Cardinality(E)
  BY <1>3, <1>4, FS_Bijection DEF ExistsBijection
<1>6. EvictableSize(tr) = PageSize * Cardinality(E)
  BY DEF EvictableSize, EvictableBlocks
<1> QED BY <1>3, <1>5, <1>6

\* The page of a row is its own, or a block's under its handle.
LEMMA RowPagesAre ==
  ASSUME ControlInv, MemoryInv, ContentInv, NEW u \in Holders, NEW i \in 1 .. Len(Row(u))
  PROVE  \/ Row(u)[i] \in Own(u) /\ i > Shared(u)
         \/ \E b \in Blocks(tree) : /\ Row(u)[i] = tree.page[b] /\ IsPrefix(b, req[u].handle)
                                    /\ i <= Shared(u)
<1>0. TreeOf(tree, PoolPages) /\ IsTree(tree, Vocab, PoolPages)
  BY LocksAre
<1>1. HolderOK(u)
  BY HolderFacts
<1>2. PICK h \in Seq(Vocab), k \in Nat : h = req[u].handle /\ k = Shared(u) /\ Len(h) = k * PageSize
                                        /\ h \in Nodes(tree) \cup {<<>>}
  BY <1>1 DEF HolderOK
<1>3. CASE i > k
  BY <1>2, <1>3 DEF Own
<1>4. CASE ~(i > k)
  <2>1. i \in 1 .. k /\ i \in Nat
    BY <1>4
  <2>2. PICK n \in Nat : n = i * PageSize /\ n % PageSize = 0 /\ n <= Len(h) /\ n > 0
    <3>1. i * PageSize \in Nat /\ (i * PageSize) % PageSize = 0 /\ i * PageSize <= k * PageSize
      BY <2>1, Multiples, MultipleOrder
    <3>2. i * PageSize > 0
      <4>1. 0 * PageSize = 0 /\ 0 \in Nat /\ 0 < i
        BY <2>1, PageSizeAssumption
      <4> QED BY <2>1, <4>1, MultipleOrder
    <3> QED BY <1>2, <3>1, <3>2
  <2>3. PICK b \in Seq(Vocab) : b = Prefix(h, n) /\ Len(b) = n /\ IsPrefix(b, h)
    BY <2>2, PrefixProperties
  <2>4. b # <<>> /\ h # <<>>
    BY <2>2, <2>3
  <2>5. h \in Blocks(tree)
    BY <1>0, <1>2, <2>4, NodeOfNode
  <2>6. b \in Blocks(tree)
    BY <1>0, <2>2, <2>3, <2>4, <2>5, BlockAbove
  <2>7. Row(u)[i] = tree.page[b]
    BY <1>2, <2>1, <2>2, <2>3 DEF ContentInv, RowsShared
  <2> QED BY <1>2, <1>4, <2>3, <2>6, <2>7
<1> QED BY <1>2, <1>3, <1>4

\* The pages of rows: where they are in the pool.
LEMMA UnheldAre ==
  ASSUME ControlInv, MemoryInv, ContentInv
  PROVE  Unheld = {free_slots[i] : i \in 1 .. Len(free_slots)}
                    \cup {lazy_free_list[i] : i \in 1 .. Len(lazy_free_list)}
                    \cup {tree.page[b] : b \in EvictableBlocks(tree)}
<1> DEFINE F == {free_slots[i] : i \in 1 .. Len(free_slots)}
           L == {lazy_free_list[i] : i \in 1 .. Len(lazy_free_list)}
           Q == {tree.page[b] : b \in EvictableBlocks(tree)}
<1>1. /\ F \cap TreePages = {} /\ L \cap TreePages = {}
      /\ \A u \in Holders : Own(u) \cap F = {} /\ Own(u) \cap L = {} /\ Own(u) \cap TreePages = {}
      /\ F \subseteq PoolPages /\ L \subseteq PoolPages /\ TreePages \subseteq PoolPages
      /\ \A p \in PoolPages : p \in F \/ p \in L \/ p \in TreePages \/ \E u \in Holders : p \in Own(u)
  <2>1. PICK own : own = [u \in Uids |-> Own(u)]
    OBVIOUS
  <2>2. \A u \in Holders : own[u] = Own(u)
    BY <2>1 DEF Holders
  <2>3. Partition(F, L, TreePages, own, Holders, PoolPages)
    BY <2>1 DEF MemoryInv, PagesOK
  <2>4. \A p \in UNION {own[u] : u \in Holders} : \E u \in Holders : p \in Own(u)
    BY <2>2
  <2> QED BY <2>2, <2>3, <2>4 DEF Partition
<1>2. TreeOf(tree, PoolPages) /\ IsTree(tree, Vocab, PoolPages)
  BY LocksAre
<1>3. ASSUME NEW u \in Holders, NEW i \in 1 .. Len(Row(u))
      PROVE  \/ Row(u)[i] \in Own(u) /\ i > Shared(u)
             \/ \E b \in Blocks(tree) : /\ Row(u)[i] = tree.page[b] /\ IsPrefix(b, req[u].handle)
                                        /\ i <= Shared(u)
  BY RowPagesAre
<1>4. \A p : p \in HeldPages <=> \E u \in Holders : \E i \in 1 .. Len(Row(u)) : Row(u)[i] = p
  BY DEF HeldPages
<1>5. ASSUME NEW p \in F \cup L PROVE p \in Unheld
  <2>1. p \in PoolPages /\ p \notin TreePages
    BY <1>1
  <2>2. SUFFICES ASSUME p \in HeldPages PROVE FALSE
    BY <2>1 DEF Unheld
  <2>3. PICK u \in Holders : \E i \in 1 .. Len(Row(u)) : Row(u)[i] = p
    BY <1>4, <2>2
  <2>4. PICK i \in 1 .. Len(Row(u)) : Row(u)[i] = p
    BY <2>3
  <2>5. p \in Own(u) \/ p \in TreePages
    BY <1>3, <2>4 DEF TreePages
  <2> QED BY <1>1, <2>1, <2>5
<1>6. ASSUME NEW b \in EvictableBlocks(tree) PROVE tree.page[b] \in Unheld
  <2>1. b \in Blocks(tree) /\ \A u \in Holders : ~IsPrefix(b, req[u].handle)
    BY ProtectedIs DEF EvictableBlocks
  <2>2. tree.page[b] \in TreePages /\ tree.page[b] \in PoolPages
    BY <1>1, <2>1 DEF TreePages
  <2>3. SUFFICES ASSUME tree.page[b] \in HeldPages PROVE FALSE
    BY <2>2 DEF Unheld
  <2>4. PICK u \in Holders : \E i \in 1 .. Len(Row(u)) : Row(u)[i] = tree.page[b]
    BY <1>4, <2>3
  <2>5. PICK i \in 1 .. Len(Row(u)) : Row(u)[i] = tree.page[b]
    BY <2>4
  <2>6. Row(u)[i] \notin Own(u)
    BY <1>1, <2>2, <2>5
  <2>7. PICK c \in Blocks(tree) : Row(u)[i] = tree.page[c] /\ IsPrefix(c, req[u].handle)
    BY <1>3, <2>6
  <2>8. c = b
    BY <1>2, <2>1, <2>5, <2>7 DEF TreeOf
  <2> QED BY <2>1, <2>7, <2>8
<1>7. ASSUME NEW p \in Unheld PROVE p \in F \/ p \in L \/ p \in Q
  <2>1. p \in PoolPages /\ p \notin HeldPages
    BY DEF Unheld
  <2>2. \A u \in Holders : p \notin Own(u)
    <3> SUFFICES ASSUME NEW u \in Holders, p \in Own(u) PROVE FALSE
      OBVIOUS
    <3>1. Shared(u) \in Nat /\ Len(Row(u)) \in Nat
      BY HolderFacts DEF HolderOK
    <3>2. PICK i \in Shared(u) + 1 .. Len(Row(u)) : Row(u)[i] = p
      BY DEF Own
    <3>3. i \in 1 .. Len(Row(u))
      BY <3>1
    <3> QED BY <1>4, <2>1, <3>2, <3>3
  <2>3. SUFFICES ASSUME p \in TreePages PROVE p \in Q
    BY <1>1, <2>1, <2>2
  <2>4. PICK b \in Blocks(tree) : p = tree.page[b]
    BY <2>3 DEF TreePages
  <2>5. SUFFICES ASSUME NEW u \in Holders, IsPrefix(b, req[u].handle) PROVE FALSE
    BY <2>4, ProtectedIs DEF EvictableBlocks
  <2>6. HolderOK(u)
    BY HolderFacts
  <2>7. PICK h \in Seq(Vocab), k \in Nat : h = req[u].handle /\ k = Shared(u) /\ Len(h) = k * PageSize
    BY <2>6 DEF HolderOK
  <2>8. PICK n \in Nat \ {0} : n = Len(b) /\ n % PageSize = 0 /\ b \in Seq(Vocab)
    BY <1>2, BlockFacts
  <2>9. b = Prefix(h, n) /\ n <= Len(h)
    BY <2>5, <2>7, <2>8, PrefixIsCut
  <2>10. PICK i \in Nat : i = n \div PageSize /\ n = i * PageSize
    BY <2>8, MultipleOf
  <2>11. i \in 1 .. k
    <3>1. i <= k
      BY <2>7, <2>9, <2>10, MultipleOrder
    <3>2. i # 0
      BY <2>8, <2>10, PageSizeAssumption
    <3> QED BY <2>10, <3>1, <3>2
  <2>12. Row(u)[i] = tree.page[b]
    BY <2>5, <2>7, <2>9, <2>10, <2>11 DEF ContentInv, RowsShared
  <2>13. i \in 1 .. Len(Row(u))
    BY <2>6, <2>7, <2>11 DEF HolderOK
  <2> QED BY <1>4, <2>1, <2>4, <2>12, <2>13
<1>8. \A p : p \in Unheld <=> p \in F \cup L \cup Q
  BY <1>5, <1>6, <1>7
<1> QED BY <1>8

\* They are as many as the available size says.
LEMMA UnheldCounts ==
  ASSUME ControlInv, MemoryInv, ContentInv
  PROVE  /\ IsFiniteSet(Unheld) /\ Cardinality(Unheld) \in Nat /\ Cardinality(EvictableBlocks(tree)) \in Nat
         /\ Cardinality(Unheld) = Len(free_slots) + Len(lazy_free_list)
                                    + Cardinality(EvictableBlocks(tree))
         /\ EvictableSize(tree) = PageSize * Cardinality(EvictableBlocks(tree))
         /\ Len(free_slots) \in Nat /\ Len(lazy_free_list) \in Nat
<1>1. PICK F, L, own : /\ Partition(F, L, PagesIn(tree), own, Holders, PoolPages)
                       /\ Once(free_slots, F) /\ Once(lazy_free_list, L)
                       /\ free_slots \in Seq(PoolPages) /\ lazy_free_list \in Seq(PoolPages)
  BY FreeLists
<1>2. PICK Q : Q = {tree.page[b] : b \in EvictableBlocks(tree)}
  OBVIOUS
<1>3. /\ IsFiniteSet(F) /\ Cardinality(F) = Len(free_slots)
      /\ IsFiniteSet(L) /\ Cardinality(L) = Len(lazy_free_list)
  BY <1>1, OnceCounts
<1>4. /\ IsFiniteSet(Q) /\ Cardinality(Q) = Cardinality(EvictableBlocks(tree))
      /\ Cardinality(Q) \in Nat /\ EvictableSize(tree) = PageSize * Cardinality(EvictableBlocks(tree))
  BY <1>2, LocksAre, EvictableCounts
<1>5. F \cap L = {} /\ (F \cup L) \cap Q = {}
  <2>1. F \cap PagesIn(tree) = {} /\ L \cap PagesIn(tree) = {} /\ F \cap L = {}
    BY <1>1 DEF Partition
  <2>2. Q \subseteq PagesIn(tree)
    BY <1>2 DEF EvictableBlocks, PagesIn
  <2> QED BY <2>1, <2>2
<1>6. Unheld = (F \cup L) \cup Q
  BY <1>1, <1>2, UnheldAre DEF Once
<1>7. IsFiniteSet(F \cup L) /\ Cardinality(F \cup L) = Cardinality(F) + Cardinality(L)
  <2>1. IsFiniteSet(F \cup L) /\ Cardinality(F \cup L) = Cardinality(F) + Cardinality(L) - Cardinality(F \cap L)
    BY <1>3, FS_Union
  <2>2. Cardinality(F \cap L) = 0
    BY <1>5, FS_EmptySet
  <2>3. Cardinality(F) \in Nat /\ Cardinality(L) \in Nat
    BY <1>3, FS_CardinalityType
  <2> QED BY <2>1, <2>2, <2>3
<1>8. IsFiniteSet(Unheld) /\ Cardinality(Unheld) = Cardinality(F \cup L) + Cardinality(Q)
  <2>1. PICK X : X = F \cup L
    OBVIOUS
  <2>2. /\ IsFiniteSet(X \cup Q)
        /\ Cardinality(X \cup Q) = Cardinality(X) + Cardinality(Q) - Cardinality(X \cap Q)
    BY <1>4, <1>7, <2>1, FS_Union
  <2>3. Cardinality(X) \in Nat
    BY <1>7, <2>1, FS_CardinalityType
  <2>4. Cardinality(X \cap Q) = 0
    BY <1>5, <2>1, FS_EmptySet
  <2> QED BY <1>4, <1>6, <2>1, <2>2, <2>3, <2>4
<1>9. Len(free_slots) \in Nat /\ Len(lazy_free_list) \in Nat
  BY <1>1
<1> QED BY <1>3, <1>4, <1>7, <1>8, <1>9

(***************************************************************************)
(* AllocationSucceeds.                                                     *)
(***************************************************************************)

\* The pages of a planned batch are among those its requests may still take.
LEMMA BatchNeeds ==
  ASSUME ControlInv, StreamInv, pc = "plan", NEW rs \in Planned
  PROVE  LET short == PagesBefore(rs, Len(rs) + 1)
             B == Batch(rs)
             n == [u \in B |-> new_pages(u)]
         IN  /\ B \in SUBSET Promised /\ short \in Nat
             /\ \A u \in B : new_pages(u) \in Nat /\ new_pages(u) <= Room(u)
             /\ IsFiniteSet(Cells(B, n)) /\ Cardinality(Cells(B, n)) \in Nat
             /\ short <= Cardinality(Cells(B, n))
<1> DEFINE B == Batch(rs)
           n == [u \in B |-> new_pages(u)]
           P == UNION {{j} \X (1 .. new_pages(rs[j].uid)) : j \in 1 .. Len(rs)}
           h == [c \in P |-> <<rs[c[1]].uid, c[2]>>]
<1>1. /\ Len(rs) \in Nat /\ Distinct(rs) /\ \A i \in 1 .. Len(rs) : rs[i].uid \in Holders
      /\ IF adder.reqs # <<>> THEN rs = adder.reqs
         ELSE \A i \in 1 .. Len(rs) : rs[i].uid \in running_reqs
  BY PlannedFacts DEF Holders
<1>2. PagesBefore(rs, Len(rs) + 1) \in Nat
  BY BatchPages
<1>3. PagesBefore(rs, Len(rs) + 1) = Cardinality(P)
  <2>1. 1 .. (Len(rs) + 1) - 1 = 1 .. Len(rs)
    BY <1>1
  <2> QED BY <2>1 DEF PagesBefore
<1>4. ASSUME NEW u \in B
      PROVE  u \in Promised /\ u \in Holders /\ new_pages(u) \in Nat /\ new_pages(u) <= Room(u)
  <2>1. PICK i \in 1 .. Len(rs) : rs[i].uid = u
    BY DEF Batch
  <2>2. u \in Holders
    BY <1>1, <2>1
  <2>3. u \in running_reqs \/ Processed(u)
    <3>1. CASE adder.reqs # <<>>
      BY <1>1, <2>1, <3>1 DEF Processed, Planning
    <3>2. CASE adder.reqs = <<>>
      BY <1>1, <2>1, <3>2
    <3> QED BY <3>1, <3>2
  <2>4. u \in Promised /\ u \in Uids
    BY <2>2, <2>3, PromisedHold DEF Promised
  <2>5. PICK c \in Nat, d \in Nat, e \in Nat : c = req[u].cached_len /\ d = req[u].device_len
                                              /\ e = Ending_len(u) /\ c <= d
    BY <2>2, RoomIs
  <2>6. d <= e
    <3>1. PICK m \in Nat : m = max_device_len(u) /\ d <= m /\ (u \in running_reqs => d < m)
      BY <2>2, <2>5, RoomIs
    <3>2. CASE u \in running_reqs
      <4>1. e = m - 1 /\ d < m
        BY <2>5, <3>1, <3>2 DEF Ending_len
      <4> QED BY <4>1
    <3>3. CASE u \notin running_reqs
      BY <2>5, <3>1, <3>3 DEF Ending_len
    <3> QED BY <3>2, <3>3
  <2>7. CeilPages(c) \in Nat /\ CeilPages(d) \in Nat /\ CeilPages(e) \in Nat
        /\ CeilPages(c) <= CeilPages(d) /\ CeilPages(d) <= CeilPages(e)
    BY <2>5, <2>6, CeilIs, CeilOrder
  <2>8. new_pages(u) = CeilPages(d) - CeilPages(c) /\ Room(u) = CeilPages(e) - CeilPages(c)
    BY <2>5 DEF new_pages, Room
  <2> QED BY <2>2, <2>4, <2>7, <2>8
<1>5. IsFiniteSet(Cells(B, n)) /\ Cardinality(Cells(B, n)) \in Nat
  <2>1. IsFiniteSet(B) /\ CeilPages(ConfigMaxSeqLen) \in Nat
    BY <1>4, NeedsFinite
  <2>2. \A u \in B : n[u] \in 0 .. CeilPages(ConfigMaxSeqLen)
    <3> SUFFICES ASSUME NEW u \in B PROVE n[u] \in 0 .. CeilPages(ConfigMaxSeqLen)
      OBVIOUS
    <3>1. PICK x \in Nat, r \in Nat, m \in Nat : /\ x = new_pages(u) /\ r = Room(u) /\ m = CeilPages(ConfigMaxSeqLen)
                                                /\ x <= r /\ r <= m
      BY <1>4, RoomIs
    <3> QED BY <3>1
  <2> QED BY <2>1, <2>2, CellsFinite
<1>6. ASSUME NEW c \in P
      PROVE  \E j \in 1 .. Len(rs) : \E k \in 1 .. new_pages(rs[j].uid) :
               c = <<j, k>> /\ h[c] = <<rs[j].uid, k>>
  <2>1. PICK j \in 1 .. Len(rs) : c \in {j} \X (1 .. new_pages(rs[j].uid))
    OBVIOUS
  <2>2. PICK k \in 1 .. new_pages(rs[j].uid) : c = <<j, k>>
    BY <2>1
  <2>3. h[c] = <<rs[j].uid, k>>
    BY <2>2
  <2> QED BY <2>2, <2>3
<1>7. \A c \in P : h[c] \in Cells(B, n)
  <2> SUFFICES ASSUME NEW c \in P PROVE h[c] \in Cells(B, n)
    OBVIOUS
  <2>1. PICK j \in 1 .. Len(rs) : \E k \in 1 .. new_pages(rs[j].uid) : h[c] = <<rs[j].uid, k>>
    BY <1>6
  <2>2. PICK k \in 1 .. new_pages(rs[j].uid) : h[c] = <<rs[j].uid, k>>
    BY <2>1
  <2>3. rs[j].uid \in B /\ n[rs[j].uid] = new_pages(rs[j].uid)
    BY DEF Batch
  <2> QED BY <2>2, <2>3, InCells
<1>8. \A c, d \in P : h[c] = h[d] => c = d
  <2> SUFFICES ASSUME NEW c \in P, NEW d \in P, h[c] = h[d] PROVE c = d
    OBVIOUS
  <2>1. PICK j \in 1 .. Len(rs) : \E k \in 1 .. new_pages(rs[j].uid) :
               c = <<j, k>> /\ h[c] = <<rs[j].uid, k>>
    BY <1>6
  <2>2. PICK i \in 1 .. Len(rs) : \E k \in 1 .. new_pages(rs[i].uid) :
               d = <<i, k>> /\ h[d] = <<rs[i].uid, k>>
    BY <1>6
  <2>3. j = i
    BY <1>1, <2>1, <2>2 DEF Distinct
  <2> QED BY <2>1, <2>2, <2>3
<1>9. h \in Injection(P, Cells(B, n))
  <2>1. h \in [P -> Cells(B, n)]
    BY <1>7
  <2> QED BY <1>8, <2>1 DEF Injection, IsInjective
<1>10. Cardinality(P) <= Cardinality(Cells(B, n))
  BY <1>5, <1>9, FS_Injection
<1>11. B \in SUBSET Promised
  BY <1>4
<1> HIDE DEF B, n
<1>12. /\ \A u \in B : new_pages(u) \in Nat /\ new_pages(u) <= Room(u)
       /\ PagesBefore(rs, Len(rs) + 1) <= Cardinality(Cells(B, n))
  BY <1>3, <1>4, <1>10
<1> QED BY <1>2, <1>5, <1>11, <1>12 DEF B, n

\* A walk that splits a node leaves every block as protected as it was.
LEMMA WalkAvailable ==
  ASSUME ControlInv, MemoryInv, NEW ids \in Seq(Vocab)
  PROVE  EvictableBlocks(Walk(tree, ids).tree) = EvictableBlocks(tree)
<1>1. IsTree(tree, Vocab, PoolPages)
  BY LocksAre
<1>2. PICK at : at = Prefix(ids, MatchLen(tree, ids))
  OBVIOUS
<1>3. at \in Blocks(tree) \cup {<<>>}
  <2>1. PICK k \in 0 .. Len(ids) : k = MatchLen(tree, ids) /\ (k # 0 => Prefix(ids, k) \in Blocks(tree))
    BY <1>1, MatchLenIs
  <2>2. k = 0 => Prefix(ids, k) = <<>>
    BY PrefixEmpty
  <2> QED BY <1>2, <2>1, <2>2
<1>4. PICK st : st = SplitAt(tree, at)
  OBVIOUS
<1>5. /\ st.page = tree.page
      /\ \A c \in Blocks(tree) : st.ref[NodeOf(st, c)] = tree.ref[NodeOf(tree, c)]
  BY <1>1, <1>3, <1>4, SplitTree
<1>6. Walk(tree, ids).tree = st
  BY <1>2, <1>4 DEF Walk
<1>7. Blocks(st) = Blocks(tree)
  BY <1>5 DEF Blocks
<1>8. ASSUME NEW b PROVE b \in EvictableBlocks(st) <=> b \in EvictableBlocks(tree)
  <2>1. CASE b \in Blocks(tree)
    <3>1. st.ref[NodeOf(st, b)] = tree.ref[NodeOf(tree, b)]
      BY <1>5, <2>1
    <3> QED BY <1>7, <2>1, <3>1 DEF EvictableBlocks
  <2> QED BY <1>7, <2>1 DEF EvictableBlocks
<1>9. EvictableBlocks(st) = EvictableBlocks(tree)
  BY <1>8
<1> QED BY <1>6, <1>9

\* The adder's walks split nodes and evict nothing: what the launch may evict is the same.
LEMMA PlanAvailable ==
  ASSUME ControlInv, MemoryInv, pc = "plan"
  PROVE  EvictableSize(tree_after_plan) = EvictableSize(tree)
<1>1. CASE tree_after_plan = tree
  BY <1>1
<1>2. CASE tree_after_plan # tree
  <2>1. PICK st : st = match_req(candidate.uid).tree
    OBVIOUS
  <2>2. st = tree_after_plan /\ adder.rest # <<>> /\ ~(adder.token_budget <= 0)
    BY <1>2, <2>1 DEF tree_after_plan
  <2>3. candidate.uid \in Uids
    <3>1. adder.token_budget \in Int
      BY DEF ControlInv, PlanOK, PlanTypes, Planning
    <3>2. CanTry
      BY <2>2, <3>1 DEF CanTry
    <3> QED BY <3>2, Candidate
  <2>4. PICK ids \in Seq(Vocab) : match_req(candidate.uid) = Walk(tree, ids)
    <3>1. Prompt[candidate.uid] \in Seq(Vocab) /\ Len(Prompt[candidate.uid]) > 0
      BY <2>3, SchedulerAssumption
    <3>2. Front(Prompt[candidate.uid]) \in Seq(Vocab) /\ <<>> \in Seq(Vocab)
      BY <3>1 DEF Front
    <3> QED BY <3>2 DEF match_req, match_prefix
  <2>5. EvictableBlocks(st) = EvictableBlocks(tree)
    BY <2>1, <2>4, WalkAvailable
  <2>6. \A t : EvictableSize(t) = PageSize * Cardinality(EvictableBlocks(t))
    BY DEF EvictableSize, EvictableBlocks
  <2> QED BY <2>2, <2>5, <2>6
<1> QED BY <1>1, <1>2

\* What is reserved for the requests admitted covers the batch.
LEMMA CapacitySuffices ==
  ASSUME ControlInv, StreamInv, MemoryInv, ContentInv, CapacityInv
  PROVE  AllocationSucceeds
<1> SUFFICES ASSUME Refused, NEW rs \in Planned
             PROVE  missing_pages(rs) * PageSize <= EvictableSize(tree_after_plan)
  BY DEF AllocationSucceeds
<1>1. pc = "plan"
  BY DEF Refused
<1> DEFINE B == Batch(rs)
           n == [u \in B |-> new_pages(u)]
<1>2. PICK short \in Nat : /\ short = PagesBefore(rs, Len(rs) + 1) /\ short <= Cardinality(Cells(B, n))
                           /\ B \in SUBSET Promised /\ Cardinality(Cells(B, n)) \in Nat
                           /\ \A u \in B : new_pages(u) \in Nat /\ new_pages(u) <= Room(u)
  BY <1>1, BatchNeeds
<1>3. Cardinality(Cells(B, n)) <= Cardinality(Needs(Promised)) /\ Cardinality(Needs(Promised)) \in Nat
  <2>1. /\ Needs(Promised) = Cells(Promised, Rooms) /\ IsFiniteSet(Promised)
        /\ CeilPages(ConfigMaxSeqLen) \in Nat
        /\ \A u \in Promised : Rooms[u] \in 0 .. CeilPages(ConfigMaxSeqLen)
        /\ Cardinality(Needs(Promised)) \in Nat /\ Promised \in SUBSET Uids
    BY PromisedHold, NeedsFinite
  <2>2. \A u \in B : n[u] \in Nat /\ n[u] <= Rooms[u]
    BY <1>2, <2>1 DEF Rooms
  <2>3. Cardinality(Cells(B, n)) <= Cardinality(Cells(Promised, Rooms))
    BY <1>2, <2>1, <2>2, CellsFewer
  <2> QED BY <2>1, <2>3
<1>4. Cardinality(Needs(Promised)) <= Cardinality(Unheld)
  BY DEF CapacityInv, RoomForAll
<1>5. PICK e \in Nat, f \in Nat : /\ e = Cardinality(EvictableBlocks(tree)) /\ f = Len(free_slots)
                                  /\ EvictableSize(tree) = PageSize * e
                                  /\ Cardinality(Unheld) = f + Len(lazy_free_list) + e
  BY UnheldCounts
<1>6. Len(lazy_free_list) = 0
  BY <1>1 DEF MemoryInv, FreeOK
<1>7. short - f <= e
  BY <1>2, <1>3, <1>4, <1>5, <1>6
<1>8. (short - f) * PageSize <= PageSize * e
  <2>1. PICK p \in Nat : p = PageSize
    BY PageSizeAssumption
  <2>2. (short - f) * p <= p * e
    BY ONLY <1>7, <2>1, short \in Nat, f \in Nat, e \in Nat, p \in Nat, Z3
  <2> QED BY <2>1, <2>2
<1>9. missing_pages(rs) = short - f
  BY <1>2, <1>5 DEF missing_pages
<1> QED BY <1>1, <1>5, <1>8, <1>9, PlanAvailable

(***************************************************************************)
(* From one state to the next.                                             *)
(***************************************************************************)

\* What is counted, in this state and the next.
PromisedFacts ==
    /\ Promised \in SUBSET Holders /\ Holders \subseteq Uids /\ running_reqs \in SUBSET Promised
    /\ {u \in Uids : Processed(u)} \in SUBSET Promised
    /\ IsFiniteSet(Promised) /\ IsFiniteSet(Holders)
    /\ \A U \in SUBSET Promised : /\ Needs(U) = Cells(U, Rooms) /\ IsFiniteSet(U)
                                  /\ Cardinality(Needs(U)) \in Nat
    /\ \A u \in Holders : Rooms[u] = Room(u) /\ Room(u) \in 0 .. CeilPages(ConfigMaxSeqLen)
    /\ CeilPages(ConfigMaxSeqLen) \in Nat

\* The counts make sense in this state ...
LEMMA PromisedAre == ControlInv /\ StreamInv => PromisedFacts
<1> SUFFICES ASSUME ControlInv, StreamInv PROVE PromisedFacts
  OBVIOUS
<1>1. /\ Promised \in SUBSET Holders /\ Holders \subseteq Uids /\ IsFiniteSet(Holders)
      /\ running_reqs \in SUBSET Promised /\ {u \in Uids : Processed(u)} \in SUBSET Promised
  BY PromisedHold DEF Promised
<1>2. \A u \in Holders : Rooms[u] = Room(u) /\ Room(u) \in 0 .. CeilPages(ConfigMaxSeqLen)
  BY RoomIs
<1>3. ASSUME NEW U \in SUBSET Promised
      PROVE  Needs(U) = Cells(U, Rooms) /\ IsFiniteSet(U) /\ Cardinality(Needs(U)) \in Nat
  BY <1>1, NeedsFinite
<1>4. IsFiniteSet(Promised) /\ CeilPages(ConfigMaxSeqLen) \in Nat
  BY <1>1, NeedsFinite
<1> QED BY <1>1, <1>2, <1>3, <1>4 DEF PromisedFacts

\* ... and in the next.
LEMMA PromisedThen == ControlInv' /\ StreamInv' => PromisedFacts'
BY PromisedAre, PTL

\* The pool and the part of it rows lead to.
PoolFacts ==
    /\ IsFiniteSet(PoolPages) /\ HeldPages \in SUBSET PoolPages
    /\ IsFiniteSet(Unheld) /\ Cardinality(Unheld) \in Nat

\* So do those of the pool in this state ...
LEMMA PoolIs == ControlInv /\ MemoryInv => PoolFacts
<1> SUFFICES ASSUME ControlInv, MemoryInv PROVE PoolFacts
  OBVIOUS
<1>1. num_pages \in Nat
  BY SchedulerAssumption DEF ControlInv, ControlTypes
<1>2. IsFiniteSet(PoolPages)
  BY <1>1, FS_Interval DEF PoolPages
<1>3. HeldPages \in SUBSET PoolPages
  <2>1. ASSUME NEW u \in Holders, NEW i \in 1 .. Len(Row(u)) PROVE Row(u)[i] \in PoolPages
    BY HolderFacts DEF HolderOK
  <2> QED BY <2>1 DEF HeldPages
<1>4. IsFiniteSet(Unheld) /\ Cardinality(Unheld) \in Nat
  BY <1>2, FS_Subset, FS_CardinalityType DEF Unheld
<1> QED BY <1>2, <1>3, <1>4 DEF PoolFacts

\* ... and in the next.
LEMMA PoolThen == ControlInv' /\ MemoryInv' => PoolFacts'
BY PoolIs, PTL

\* What is left of N when D is given back and C taken.
LEMMA PagesSwapped ==
  ASSUME NEW N, IsFiniteSet(N), NEW H \in SUBSET N, NEW D \in SUBSET H, NEW C, IsFiniteSet(C),
         NEW K, K \subseteq (H \ D) \cup C
  PROVE  /\ Cardinality(N \ H) + Cardinality(D) <= Cardinality(N \ K) + Cardinality(C)
         /\ Cardinality(N \ H) \in Nat /\ Cardinality(D) \in Nat /\ Cardinality(N \ K) \in Nat
         /\ Cardinality(C) \in Nat
<1>1. PICK A, X : A = N \ H /\ X = A \cup D
  OBVIOUS
<1>2. /\ IsFiniteSet(A) /\ IsFiniteSet(D) /\ IsFiniteSet(N \ K)
      /\ Cardinality(A) \in Nat /\ Cardinality(D) \in Nat /\ Cardinality(N \ K) \in Nat
      /\ Cardinality(C) \in Nat
  <2>1. A \subseteq N /\ D \subseteq N /\ N \ K \subseteq N
    BY <1>1
  <2> QED BY <2>1, FS_Subset, FS_CardinalityType
<1>3. IsFiniteSet(X) /\ Cardinality(X) = Cardinality(A) + Cardinality(D)
  <2>1. A \cap D = {}
    BY <1>1
  <2>2. IsFiniteSet(A \cup D) /\ Cardinality(A \cup D) = Cardinality(A) + Cardinality(D) - Cardinality(A \cap D)
    BY <1>2, FS_Union
  <2>3. Cardinality(A \cap D) = 0
    BY <2>1, FS_EmptySet
  <2> QED BY <1>1, <1>2, <2>2, <2>3
<1>4. Cardinality(X \ C) = Cardinality(X) - Cardinality(X \cap C)
  BY <1>3, FS_Difference
<1>5. Cardinality(X \cap C) <= Cardinality(C) /\ Cardinality(X \cap C) \in Nat
  <2>1. X \cap C \subseteq C
    OBVIOUS
  <2> QED BY <2>1, FS_Subset, FS_CardinalityType
<1>6. Cardinality(X \ C) <= Cardinality(N \ K) /\ Cardinality(X \ C) \in Nat
  <2>1. X \ C \subseteq N \ K
    BY <1>1
  <2>2. IsFiniteSet(X \ C) /\ Cardinality(X \ C) <= Cardinality(N \ K)
    BY <1>2, <2>1, FS_Subset
  <2> QED BY <2>2, FS_CardinalityType
<1> QED BY <1>1, <1>2, <1>3, <1>4, <1>5, <1>6

\* The promises kept when pages C are taken and D given back.
LEMMA PromisesKept ==
  ASSUME ControlInv, StreamInv, MemoryInv, ControlInv', StreamInv', RoomForAll,
         num_pages' = num_pages,
         NEW D \in SUBSET HeldPages, NEW C, IsFiniteSet(C), HeldPages' \subseteq (HeldPages \ D) \cup C,
         Cardinality(Needs(Promised)') + Cardinality(C) <= Cardinality(Needs(Promised)) + Cardinality(D)
  PROVE  RoomForAll'
<1>1. PoolPages' = PoolPages /\ PoolFacts
  BY PoolIs DEF PoolPages
<1>2. /\ Cardinality(PoolPages \ HeldPages) + Cardinality(D)
           <= Cardinality(PoolPages \ HeldPages') + Cardinality(C)
      /\ Cardinality(PoolPages \ HeldPages) \in Nat /\ Cardinality(D) \in Nat
      /\ Cardinality(PoolPages \ HeldPages') \in Nat /\ Cardinality(C) \in Nat
  BY <1>1, PagesSwapped DEF PoolFacts
<1>3. Cardinality(Needs(Promised)) \in Nat /\ Cardinality(Needs(Promised)') \in Nat
  BY PromisedAre, PromisedThen DEF PromisedFacts
<1>4. Cardinality(Needs(Promised)) <= Cardinality(PoolPages \ HeldPages)
  BY DEF RoomForAll, Unheld
<1>5. Cardinality(Needs(Promised)') <= Cardinality(PoolPages \ HeldPages')
  BY <1>2, <1>3, <1>4
<1> QED BY <1>1, <1>5 DEF RoomForAll, Unheld

\* A step that launches and admits nothing: who holds a row held it, with the
\* same cursors, and is not queued or running anew.
Calm ==
    /\ num_pages' = num_pages /\ running_reqs' \subseteq running_reqs
    /\ \A v \in Holders' : v \in Holders /\ SameSizes(v) /\ (Queued(v)' => Queued(v))

\* A calm step needs no more than the state before it.
LEMMA CalmNeeds ==
  ASSUME ControlInv, StreamInv, ControlInv', StreamInv', Calm, DecodesNext
  PROVE  /\ DecodesNext' /\ Cardinality(Needs(Promised)') <= Cardinality(Needs(Promised))
         /\ Cardinality(Needs(Promised)) \in Nat /\ Cardinality(Needs(Promised)') \in Nat
<1>1. PromisedFacts /\ PromisedFacts'
  BY PromisedAre, PromisedThen
<1>2. DecodesNext'
  <2>1. ASSUME NEW u \in running_reqs' PROVE req'[u].device_len = req'[u].cached_len + 1
    <3>1. u \in running_reqs /\ u \in Holders'
      BY <1>1 DEF Calm, PromisedFacts
    <3> QED BY <3>1 DEF DecodesNext, Calm, SameSizes
  <2> QED BY <2>1 DEF DecodesNext
<1>3. ASSUME NEW u \in Promised' PROVE u \in Promised /\ Room(u)' = Room(u)
  <2>1. u \in Holders' /\ u \in Holders /\ SameSizes(u) /\ (Queued(u)' => Queued(u)) /\ u \in Uids
    BY <1>1 DEF PromisedFacts, Calm
  <2>2. u \in running_reqs' \/ Queued(u)'
    BY DEF Promised
  <2>3. u \in running_reqs => ~Queued(u)
    BY DEF ControlInv, RunningOK
  <2>4. u \in running_reqs' <=> u \in running_reqs
    BY <2>1, <2>2, <2>3 DEF Calm
  <2>5. u \in Promised
    BY <2>1, <2>2, <2>4 DEF Promised
  <2>6. Ending_len(u)' = Ending_len(u)
    BY <2>1, <2>4 DEF Ending_len, max_device_len, SameSizes
  <2> QED BY <2>1, <2>5, <2>6 DEF Room, SameSizes
<1>4. Promised' \in SUBSET Promised
  BY <1>3
<1>5. \A u \in Promised' : Rooms'[u] \in Nat /\ Rooms'[u] <= Rooms[u]
  <2> SUFFICES ASSUME NEW u \in Promised' PROVE Rooms'[u] \in Nat /\ Rooms'[u] <= Rooms[u]
    OBVIOUS
  <2>1. u \in Holders /\ u \in Holders' /\ Room(u)' = Room(u)
    BY <1>1, <1>3 DEF PromisedFacts
  <2>2. Rooms[u] = Room(u) /\ Rooms'[u] = Room(u)' /\ Room(u) \in 0 .. CeilPages(ConfigMaxSeqLen)
    BY <1>1, <2>1 DEF PromisedFacts
  <2> QED BY <1>1, <2>1, <2>2 DEF PromisedFacts
<1>6. \A u \in Promised : Rooms[u] \in 0 .. CeilPages(ConfigMaxSeqLen)
  BY <1>1 DEF PromisedFacts
<1>7. Needs(Promised) = Cells(Promised, Rooms) /\ Needs(Promised)' = Cells(Promised', Rooms')
  BY <1>1 DEF PromisedFacts, Cells
<1>8. IsFiniteSet(Promised) /\ CeilPages(ConfigMaxSeqLen) \in Nat
  BY <1>1 DEF PromisedFacts
<1>9. /\ Cardinality(Cells(Promised', Rooms')) <= Cardinality(Cells(Promised, Rooms))
      /\ Cardinality(Cells(Promised', Rooms')) \in Nat /\ Cardinality(Cells(Promised, Rooms)) \in Nat
  BY <1>4, <1>5, <1>6, <1>8, CellsFewer
<1> QED BY <1>2, <1>7, <1>9

\* Rows that go, or stay as they are, lead to no page they did not lead to.
LEMMA RowsFewer ==
  ASSUME \A v \in Holders' : v \in Holders /\ Row(v)' = Row(v)
  PROVE  HeldPages' \subseteq HeldPages
BY DEF HeldPages

\* Such a step, with every row left as it was or gone.
LEMMA CalmStep ==
  ASSUME ControlInv, StreamInv, MemoryInv, ControlInv', StreamInv', CapacityInv, Calm,
         \A v \in Holders' : Row(v)' = Row(v)
  PROVE  DecodesNext' /\ RoomForAll'
<1>1. /\ DecodesNext' /\ Cardinality(Needs(Promised)') <= Cardinality(Needs(Promised))
      /\ Cardinality(Needs(Promised)) \in Nat /\ Cardinality(Needs(Promised)') \in Nat
  BY CalmNeeds DEF CapacityInv
<1>2. HeldPages' \subseteq HeldPages
  BY RowsFewer DEF Calm
<1>3. PICK D : D = {}
  OBVIOUS
<1>4. IsFiniteSet(D) /\ Cardinality(D) = 0
  BY <1>3, FS_EmptySet
<1>5. RoomForAll'
  <2>1. Cardinality(Needs(Promised)') + Cardinality(D) <= Cardinality(Needs(Promised)) + Cardinality(D)
    BY <1>1, <1>4
  <2>2. D \in SUBSET HeldPages /\ HeldPages' \subseteq (HeldPages \ D) \cup D /\ RoomForAll
        /\ num_pages' = num_pages
    BY <1>2, <1>3 DEF CapacityInv, Calm
  <2> QED BY <1>4, <2>1, <2>2, PromisesKept
<1> QED BY <1>1, <1>5

\* The queue as it was, or without one entry.
LEMMA QueueKept ==
  ASSUME ControlInv, ChunkFirst,
         \A v \in Holders' : v \in Holders /\ SameSizes(v),
         \/ pending_list' = pending_list
         \/ \E i \in 1 .. Len(pending_list) : pending_list' = RemoveAt(pending_list, i)
  PROVE  ChunkFirst'
<1>1. pending_list \in Seq(PendingReqs)
  BY DEF ControlInv, ControlTypes
<1>2. \A j \in 1 .. Len(pending_list') : \E k \in 1 .. Len(pending_list) :
        pending_list'[j] = pending_list[k] /\ (k = 1 => j = 1)
  <2>1. CASE pending_list' = pending_list
    BY <2>1
  <2>2. CASE \E i \in 1 .. Len(pending_list) : pending_list' = RemoveAt(pending_list, i)
    <3>1. PICK i \in 1 .. Len(pending_list) : pending_list' = RemoveAt(pending_list, i)
      BY <2>2
    <3>2. /\ Len(pending_list') = Len(pending_list) - 1
          /\ \A j \in 1 .. Len(pending_list) - 1 : pending_list'[j] = pending_list[IF j < i THEN j ELSE j + 1]
      BY <1>1, <3>1, RemoveAtProperties
    <3>3. Len(pending_list) \in Nat
      BY <1>1
    <3> SUFFICES ASSUME NEW j \in 1 .. Len(pending_list')
                 PROVE  \E k \in 1 .. Len(pending_list) :
                          pending_list'[j] = pending_list[k] /\ (k = 1 => j = 1)
      OBVIOUS
    <3>4. PICK k : k = IF j < i THEN j ELSE j + 1
      OBVIOUS
    <3>5. k \in 1 .. Len(pending_list) /\ (k = 1 => j = 1)
      BY <3>2, <3>3, <3>4
    <3> QED BY <3>2, <3>4, <3>5
  <2> QED BY <2>1, <2>2
<1>3. ASSUME NEW j \in 1 .. Len(pending_list')
      PROVE  \E u \in Uids : /\ u = pending_list'[j].uid /\ (pending_list'[j].chunked => j = 1)
                             /\ Held(u)' => pending_list'[j].output_len = req'[u].output_len
  <2>1. PICK k \in 1 .. Len(pending_list) : pending_list'[j] = pending_list[k] /\ (k = 1 => j = 1)
    BY <1>2
  <2>2. /\ pending_list[k].chunked => k = 1
        /\ Held(pending_list[k].uid) => pending_list[k].output_len = req[pending_list[k].uid].output_len
    BY DEF ChunkFirst
  <2>3. PICK u \in Uids : u = pending_list[k].uid
    <3>1. pending_list[k] \in PendingReqs
      BY <1>1
    <3> QED BY <3>1 DEF PendingReqs
  <2>4. Held(u)' => Held(u) /\ req'[u].output_len = req[u].output_len
    BY DEF Holders, SameSizes
  <2> QED BY <2>1, <2>2, <2>3, <2>4
<1>4. ASSUME NEW j \in 1 .. Len(pending_list')
      PROVE  /\ pending_list'[j].chunked => j = 1
             /\ req'[pending_list'[j].uid].table_idx # NoTable =>
                  pending_list'[j].output_len = req'[pending_list'[j].uid].output_len
  BY <1>3 DEF Held
<1> QED BY <1>4 DEF ChunkFirst, Held

\* Out of a pass.
LEMMA NoPlan ==
  ASSUME ~Planning'
  PROVE  PlanSpent' /\ PlanReserved'
BY DEF PlanSpent, PlanReserved

\* A step that only takes: rows, running requests and queue entries stay or go.
Fades ==
    /\ num_pages' = num_pages /\ running_reqs' \subseteq running_reqs
    /\ \A v \in Holders' : /\ v \in Holders /\ SameSizes(v) /\ Row(v)' = Row(v)
                           /\ Queued(v)' => Queued(v)

\* Such a step keeps the promises that are left.
LEMMA FadesKeep ==
  ASSUME ControlInv, StreamInv, MemoryInv, ControlInv', StreamInv', CapacityInv, Fades
  PROVE  /\ DecodesNext' /\ RoomForAll'
         /\ (\/ pending_list' = pending_list
             \/ \E i \in 1 .. Len(pending_list) : pending_list' = RemoveAt(pending_list, i))
              => ChunkFirst'
<1>1. Calm
  BY DEF Fades, Calm
<1>2. DecodesNext' /\ RoomForAll'
  BY <1>1, CalmStep DEF Fades
<1>3. (\/ pending_list' = pending_list
       \/ \E i \in 1 .. Len(pending_list) : pending_list' = RemoveAt(pending_list, i)) => ChunkFirst'
  BY QueueKept DEF Fades, CapacityInv
<1> QED BY <1>2, <1>3

\* No object changes, and none that holds a row is queued anew.
LEMMA StillFades ==
  ASSUME ControlInv, UNCHANGED <<req, page_table, num_pages>>, running_reqs' \subseteq running_reqs,
         \A v \in Holders : Queued(v)' => Queued(v)
  PROVE  Fades
<1>1. \A v \in Uids : Held(v)' = Held(v) /\ SameSizes(v) /\ Row(v)' = Row(v)
  BY DEF Held, SameSizes, Row
<1> QED BY <1>1 DEF Fades, Holders

\* Messages that touch no request that holds a row.
LEMMA UserCapacity ==
  ASSUME ControlInv, StreamInv, MemoryInv, ControlInv', StreamInv', CapacityInv,
         \/ \E u \in Uids : UserAborted(u) \/ UserTooLong(u)
         \/ \E n \in RebuildSizes : RebuildReceived(n)
  PROVE  CapacityInv'
<1>1. UNCHANGED <<req, page_table, num_pages, running_reqs, pending_list>> /\ pc' = "recv"
  BY DEF UserAborted, UserTooLong, RebuildReceived, Receiving, device
<1>2. Fades
  BY <1>1, StillFades DEF Queued
<1>3. DecodesNext' /\ RoomForAll' /\ ChunkFirst'
  BY <1>1, <1>2, FadesKeep
<1> QED BY <1>1, <1>3, NoPlan DEF CapacityInv, Planning

\* A request is queued.
LEMMA QueuedCapacity ==
  ASSUME ControlInv, StreamInv, MemoryInv, ControlInv', StreamInv', CapacityInv,
         NEW u \in Uids, UserQueued(u)
  PROVE  CapacityInv'
<1>1. UNCHANGED <<req, page_table, num_pages, running_reqs>> /\ pc' = "recv" /\ u \in inbox.user
  BY DEF UserQueued, Receiving, device
<1>2. ~Held(u)
  BY <1>1 DEF ControlInv, UnbornOK
<1>3. PICK p : pending_list' = Append(pending_list, p) /\ p.uid = u /\ p.chunked = FALSE
  <2> DEFINE len == Min({MaxTokens[u], max_seq_len - Len(Prompt[u])})
             e   == [uid |-> u, chunked |-> FALSE, output_len |-> len]
  <2>1. pending_list' = Append(pending_list, e)
    BY DEF UserQueued
  <2> HIDE DEF len
  <2>2. e.uid = u /\ e.chunked = FALSE
    OBVIOUS
  <2> HIDE DEF e
  <2> QED BY <2>1, <2>2
<1>4. pending_list \in Seq(PendingReqs)
  BY DEF ControlInv, ControlTypes
<1>5. /\ Len(pending_list') = Len(pending_list) + 1 /\ Len(pending_list) \in Nat
      /\ \A i \in 1 .. Len(pending_list) : pending_list'[i] = pending_list[i]
      /\ pending_list'[Len(pending_list) + 1] = p
  BY <1>3, <1>4
<1>6. ASSUME NEW v \in Holders, Queued(v)' PROVE Queued(v)
  <2>1. v # u
    BY <1>2 DEF Holders
  <2>2. PICK i \in 1 .. Len(pending_list') : pending_list'[i].uid = v
    BY <1>6 DEF Queued
  <2>3. i \in 1 .. Len(pending_list)
    BY <1>3, <1>5, <2>1, <2>2
  <2> QED BY <1>5, <2>2, <2>3 DEF Queued
<1>7. Fades
  BY <1>1, <1>6, StillFades
<1>8. DecodesNext' /\ RoomForAll'
  BY <1>7, FadesKeep
<1>9. ChunkFirst'
  <2>1. ASSUME NEW i \in 1 .. Len(pending_list')
        PROVE  /\ pending_list'[i].chunked => i = 1
               /\ req[pending_list'[i].uid].table_idx # NoTable =>
                    pending_list'[i].output_len = req[pending_list'[i].uid].output_len
    <3>1. CASE i \in 1 .. Len(pending_list)
      BY <1>5, <3>1 DEF CapacityInv, ChunkFirst, Held
    <3>2. CASE i = Len(pending_list) + 1
      BY <1>2, <1>3, <1>5, <3>2 DEF Held
    <3> QED BY <1>5, <3>1, <3>2
  <2> QED BY <1>1, <2>1 DEF ChunkFirst, Held
<1> QED BY <1>1, <1>8, <1>9, NoPlan DEF CapacityInv, Planning

\* What the running requests are reserved covers what they may take.
LEMMA InflightCovers ==
  ASSUME ControlInv, StreamInv, DecodesNext
  PROVE  /\ inflight_tokens \in Nat
         /\ Cardinality(Needs(running_reqs)) * PageSize <= inflight_tokens
<1> DEFINE R == running_reqs
           g == [u \in R |-> remain_len(u)]
<1>1. R \in SUBSET Holders /\ R \in SUBSET Uids /\ IsFiniteSet(R) /\ Cardinality(R) \in Nat
  BY PromisedHold, RunningFinite
<1>2. PICK p \in Nat \ {0} : p = PageSize
  BY PageSizeAssumption
<1>3. PICK l \in Nat, c \in Nat, m \in Nat :
         l = ConfigMaxSeqLen /\ c = CeilPages(ConfigMaxSeqLen) /\ m = l + c
  <2>1. ConfigMaxSeqLen \in Nat
    BY SchedulerAssumption
  <2> QED BY <2>1, CeilIs
<1>4. ASSUME NEW u \in R
      PROVE  Rooms[u] \in 0 .. m /\ g[u] \in 0 .. m /\ Rooms[u] * p <= g[u] + p - 1
  <2>1. u \in Holders
    BY <1>1
  <2>2. PICK a \in Nat, e \in Nat, q \in 0 .. c :
           /\ a = req[u].cached_len /\ e = max_device_len(u) /\ q = Room(u) /\ Rooms[u] = q
           /\ req[u].device_len < e /\ Ending_len(u) \in Nat /\ Ending_len(u) <= l
           /\ CeilPages(Ending_len(u)) = CeilPages(a) + q
    BY <1>3, <2>1, RoomIs
  <2>3. req[u].device_len = a + 1 /\ Ending_len(u) = e - 1
    BY <2>2 DEF DecodesNext, Ending_len
  <2>4. g[u] = e - (a + 1)
    BY <2>2, <2>3 DEF remain_len
  <2>5. PICK x \in Nat, y \in Nat : /\ x = CeilPages(a) /\ y = CeilPages(e - 1)
                                    /\ a <= x * p /\ y * p < (e - 1) + p
    <3>1. e - 1 \in Nat
      BY <2>2, <2>3
    <3> QED BY <1>2, <2>2, <3>1, CeilIs
  <2>6. y = x + q /\ e - 1 <= l /\ a + 1 < e
    BY <2>2, <2>3, <2>5
  <2>7. q * p = y * p - x * p
    BY ONLY <2>6, x \in Nat, y \in Nat, q \in 0 .. c, c \in Nat, p \in Nat \ {0}, Z3
  <2>8. q * p <= (e - (a + 1)) + p - 1
    <3>1. PICK i \in Int, j \in Int : i = y * p /\ j = x * p
      OBVIOUS
    <3> QED BY <2>5, <2>7, <3>1
  <2> QED BY <1>3, <2>2, <2>4, <2>6, <2>8
<1>5. Cardinality(Cells(R, Rooms)) * p <= Cardinality(Cells(R, g)) + (p - 1) * Cardinality(R)
  <2> HIDE DEF g
  <2> QED BY <1>1, <1>2, <1>3, <1>4, CellsPad
<1>6. Needs(R) = Cells(R, Rooms)
  BY <1>1, NeedsAre
<1>7. inflight_tokens = Cardinality(Cells(R, g)) + (p - 1) * Cardinality(R)
  <2>1. Cells(R, g) = UNION {{u} \X (1 .. remain_len(u)) : u \in R}
    BY DEF Cells
  <2> QED BY <1>2, <2>1 DEF inflight_tokens
<1>8. Cardinality(Cells(R, g)) \in Nat /\ (p - 1) * Cardinality(R) \in Nat
  <2>1. \A u \in R : g[u] \in 0 .. m
    BY <1>4
  <2>2. Cardinality(Cells(R, g)) \in Nat
    BY <1>1, <1>3, <2>1, CellsFinite
  <2> QED BY <1>1, <1>2, <2>2
<1> QED BY <1>2, <1>5, <1>6, <1>7, <1>8

\* The receive phase ends and a pass begins, with what is reserved for the
\* running requests.
LEMMA StartPlanCapacity ==
  ASSUME ControlInv, StreamInv, DecodesNext, StartPlan,
         UNCHANGED <<req, running_reqs>>
  PROVE  PlanSpent' /\ PlanReserved'
<1>1. /\ adder'.token_budget = PrefillBudget /\ adder'.reserved_size = inflight_tokens
      /\ adder'.reqs = <<>> /\ adder'.chunked_list = <<>>
  BY DEF StartPlan
<1>2. PlanSpent'
  BY <1>1, SchedulerAssumption DEF PlanSpent
<1>3. \A u : ~Processed(u)'
  BY <1>1 DEF Processed
<1>4. \A U : Needs(U)' = UNION {{u} \X (1 .. Room(u)') : u \in U}
  BY DEF Needs
<1>5. \A u : Room(u)' = Room(u)
  BY DEF Room, Ending_len, max_device_len
<1>6. running_reqs' \cup {u \in Uids : Processed(u)'} = running_reqs
  BY <1>3
<1>7. Needs(running_reqs \cup {u \in Uids : Processed(u)})' = Needs(running_reqs)
  BY <1>4, <1>5, <1>6 DEF Needs
<1> QED BY <1>1, <1>2, <1>7, InflightCovers DEF PlanReserved

\* The end of the receive phase, with or without a rebuild.
LEMMA ReceivedCapacity ==
  ASSUME ControlInv, StreamInv, MemoryInv, ControlInv', StreamInv', MemoryInv', CapacityInv,
         EndReceive \/ RebuildRejected \/ RebuildDone
  PROVE  CapacityInv'
<1>1. UNCHANGED <<req, running_reqs, pending_list>> /\ StartPlan /\ pc = "recv"
  BY DEF EndReceive, RebuildRejected, RebuildDone
<1>2. PlanSpent' /\ PlanReserved'
  BY <1>1, StartPlanCapacity DEF CapacityInv
<1>3. CASE EndReceive \/ RebuildRejected
  <2>1. UNCHANGED <<page_table, num_pages>>
    BY <1>3 DEF EndReceive, RebuildRejected, device
  <2>2. Fades
    BY <1>1, <2>1, StillFades DEF Queued
  <2>3. DecodesNext' /\ RoomForAll' /\ ChunkFirst'
    BY <1>1, <2>2, FadesKeep
  <2> QED BY <1>2, <2>3 DEF CapacityInv
<1>4. CASE RebuildDone
  <2>1. Holders = {}
    BY <1>1, <1>4, NobodyHolds DEF RebuildDone
  <2>2. Holders' = {}
    BY <1>1, <2>1 DEF Holders, Held
  <2>3. running_reqs' = {} /\ Promised' = {}
    BY <2>2, PromisedThen DEF PromisedFacts
  <2>4. Needs(Promised)' = {}
    BY <2>3 DEF Needs
  <2>5. Cardinality(Needs(Promised)') = 0
    BY <2>4, FS_EmptySet
  <2>6. RoomForAll'
    BY <2>5, PoolThen DEF PoolFacts, RoomForAll
  <2>7. ChunkFirst'
    BY <1>1, <2>2, QueueKept DEF CapacityInv
  <2> QED BY <1>2, <2>3, <2>6, <2>7 DEF CapacityInv, DecodesNext
<1> QED BY <1>3, <1>4

\* A pass ends with nothing to launch, or in an exception.
LEMMA NoLaunchCapacity ==
  ASSUME ControlInv, StreamInv, MemoryInv, ControlInv', StreamInv', CapacityInv,
         ChunkMultimodal \/ NoLaunch \/ EndIteration
  PROVE  CapacityInv'
<1>1. UNCHANGED <<req, page_table, num_pages, running_reqs, pending_list>>
  BY DEF ChunkMultimodal, NoLaunch, EndIteration, device
<1>2. Fades
  BY <1>1, StillFades DEF Queued
<1>3. DecodesNext' /\ RoomForAll' /\ ChunkFirst'
  BY <1>1, <1>2, FadesKeep
<1>4. CASE NoLaunch \/ EndIteration
  <2>1. ~Planning'
    BY <1>4 DEF NoLaunch, EndIteration, StartDrain, Planning
  <2> QED BY <1>3, <2>1, NoPlan DEF CapacityInv
<1>5. CASE ChunkMultimodal
  <2>1. Planning /\ adder' = adder /\ pc' = "raise_multimodal"
    BY <1>5 DEF ChunkMultimodal, Fits, CanTry, Planning
  <2>2. PlanSpent'
    BY <1>1, <2>1 DEF CapacityInv, PlanSpent
  <2>3. \A u : Processed(u)' = Processed(u)
    BY <2>1 DEF Processed, Planning
  <2>4. Needs(running_reqs \cup {u \in Uids : Processed(u)})'
          = Needs(running_reqs \cup {u \in Uids : Processed(u)})
    BY <1>1, <2>3 DEF Needs, Room, Ending_len, max_device_len
  <2>5. PlanReserved'
    BY <2>1, <2>4 DEF CapacityInv, PlanReserved
  <2> QED BY <1>3, <2>2, <2>5 DEF CapacityInv
<1> QED BY <1>4, <1>5

\* A step that changes nothing.
LEMMA StutterCapacity ==
  ASSUME CapacityInv, UNCHANGED vars
  PROVE  CapacityInv'
<1>1. UNCHANGED <<pc, req, page_table, num_pages, running_reqs, pending_list, adder>>
  BY DEF vars, device
<1>2. /\ \A u : /\ Held(u)' = Held(u) /\ Queued(u)' = Queued(u) /\ Processed(u)' = Processed(u)
                /\ Room(u)' = Room(u) /\ Row(u)' = Row(u)
      /\ Planning' = Planning
  BY <1>1 DEF Held, Queued, Processed, Planning, Room, Ending_len, max_device_len, Row
<1>3. Holders' = Holders /\ PoolPages' = PoolPages
  BY <1>1, <1>2 DEF Holders, PoolPages
<1>4. Promised' = Promised /\ Unheld' = Unheld
  BY <1>1, <1>2, <1>3 DEF Promised, Unheld, HeldPages
<1>5. /\ Needs(Promised)' = Needs(Promised)
      /\ Needs(running_reqs \cup {u \in Uids : Processed(u)})'
           = Needs(running_reqs \cup {u \in Uids : Processed(u)})
  BY <1>1, <1>2, <1>4 DEF Needs
<1>6. DecodesNext' /\ ChunkFirst' /\ PlanSpent'
  BY <1>1, <1>2 DEF CapacityInv, DecodesNext, ChunkFirst, PlanSpent
<1>7. PlanReserved' /\ RoomForAll'
  BY <1>1, <1>2, <1>4, <1>5 DEF CapacityInv, PlanReserved, RoomForAll
<1> QED BY <1>6, <1>7 DEF CapacityInv

\* The requests that keep their rows when u's goes.
LEMMA FreedRows ==
  ASSUME ControlInv, MemoryInv, NEW u \in Holders, NEW r \in Reqs, r.table_idx = req[u].table_idx,
         NEW commit, FreeRow(u, r, commit)
  PROVE  \A v \in Holders' : v \in Holders /\ SameSizes(v) /\ Row(v)' = Row(v)
<1>1. u \in Uids /\ Held(u)
  BY DEF Holders
<1>2. req'[u] = [r EXCEPT !.table_idx = NoTable] /\ \A v \in Uids \ {u} : req'[v] = req[v]
  BY <1>1, FreeRowTables DEF ControlInv
<1>3. ~Held(u)'
  <2>1. [r EXCEPT !.table_idx = NoTable].table_idx = NoTable
    BY DEF Reqs
  <2> QED BY <1>2, <2>1 DEF Held
<1>4. page_table' = [page_table EXCEPT ![r.table_idx] = <<>>]
  BY DEF FreeRow
<1> SUFFICES ASSUME NEW v \in Holders' PROVE v \in Holders /\ SameSizes(v) /\ Row(v)' = Row(v)
  OBVIOUS
<1>5. v \in Uids \ {u} /\ req'[v] = req[v]
  BY <1>2, <1>3 DEF Holders
<1>6. v \in Holders
  BY <1>5 DEF Holders, Held
<1>7. req[v].table_idx # r.table_idx
  BY <1>5, <1>6 DEF ControlInv, TablesOK
<1>8. /\ req[v].table_idx \in Tables /\ page_table \in [Tables -> Seq(PoolPages)]
      /\ page_table' = [page_table EXCEPT ![r.table_idx] = <<>>]
  BY <1>4, <1>6, HolderFacts DEF HolderOK, MemoryInv, RowsOK
<1>9. page_table'[req[v].table_idx] = page_table[req[v].table_idx]
  BY <1>7, <1>8
<1> QED BY <1>5, <1>6, <1>9 DEF SameSizes, Row

\* An abort gives back a row, or an entry of the queue, or leaves both to the drain.
LEMMA AbortCapacity ==
  ASSUME ControlInv, StreamInv, MemoryInv, ControlInv', StreamInv', CapacityInv,
         NEW u \in Uids, AbortUnheld(u) \/ AbortInFlight(u) \/ AbortHeld(u)
  PROVE  CapacityInv'
<1>1. AbortReceived(u)
  BY DEF AbortUnheld, AbortInFlight, AbortHeld
<1>2. /\ pc' = "recv" /\ running_reqs' \subseteq running_reqs /\ num_pages' = num_pages
      /\ \A j \in 1 .. Len(pending_list') : \E i \in 1 .. Len(pending_list) :
           pending_list'[j] = pending_list[i]
  BY <1>1, AbortReceivedFacts
<1>3. \A v : Queued(v)' => Queued(v)
  <2> SUFFICES ASSUME NEW v, Queued(v)' PROVE Queued(v)
    OBVIOUS
  <2>1. PICK j \in 1 .. Len(pending_list') : pending_list'[j].uid = v
    BY DEF Queued
  <2> QED BY <1>2, <2>1 DEF Queued
<1>4. \/ pending_list' = pending_list
      \/ \E i \in 1 .. Len(pending_list) : pending_list' = RemoveAt(pending_list, i)
  <2>1. PopPending(u)
    BY <1>1 DEF AbortReceived
  <2> QED BY <2>1 DEF PopPending
<1>5. req \in [Uids -> Reqs]
  BY DEF ControlInv, ControlTypes
<1>6. ASSUME UNCHANGED <<req, page_table>> PROVE Fades
  BY <1>2, <1>3, <1>6, StillFades
<1>7. ASSUME AbortInFlight(u) PROVE Fades
  <2>1. req' = [req EXCEPT ![u].aborted = TRUE] /\ page_table' = page_table
    BY <1>7 DEF AbortInFlight, device
  <2>2. PICK r \in Reqs : r = req[u]
    BY <1>5
  <2>3. PICK s : s = [r EXCEPT !.aborted = TRUE]
    OBVIOUS
  <2>4. req'[u] = s /\ \A v \in Uids \ {u} : req'[v] = req[v]
    BY <1>5, <2>1, <2>2, <2>3
  <2>5. /\ s.table_idx = r.table_idx /\ s.n = r.n /\ s.chunked = r.chunked
        /\ s.cached_len = r.cached_len /\ s.device_len = r.device_len
        /\ s.output_len = r.output_len
    BY <2>3 DEF Reqs
  <2>6. \A v \in Uids : SameSizes(v) /\ req'[v].table_idx = req[v].table_idx
    BY <2>2, <2>4, <2>5 DEF SameSizes
  <2>7. \A v \in Holders' : v \in Holders /\ SameSizes(v) /\ Row(v)' = Row(v)
    BY <2>1, <2>6 DEF Holders, Held, Row
  <2> QED BY <1>2, <1>3, <2>7 DEF Fades
<1>8. ASSUME AbortHeld(u), Held(u) PROVE Fades
  <2>1. PICK r \in Reqs : r = req[u]
    BY <1>5
  <2>2. FreeRow(u, r, cache_req(u, r, TRUE)) /\ u \in Holders
    BY <1>8, <2>1 DEF AbortHeld, Held, Holders
  <2>3. \A v \in Holders' : v \in Holders /\ SameSizes(v) /\ Row(v)' = Row(v)
    BY <2>1, <2>2, FreedRows
  <2> QED BY <1>2, <1>3, <2>3 DEF Fades
<1>9. Fades
  BY <1>6, <1>7, <1>8 DEF AbortUnheld, AbortHeld, Held, device
<1>10. DecodesNext' /\ RoomForAll' /\ ChunkFirst'
  BY <1>4, <1>9, FadesKeep
<1> QED BY <1>2, <1>10, NoPlan DEF CapacityInv, Planning

\* _free_req_resources in the drain.
LEMMA FreedLazily ==
  ASSUME ControlInv, MemoryInv, NEW u \in Uids, NEW r \in Reqs, r.table_idx = req[u].table_idx,
         FreeLazily(u, r)
  PROVE  \A v \in Holders' : v \in Holders /\ SameSizes(v) /\ Row(v)' = Row(v)
<1>1. CASE r.table_idx = NoTable
  <2>1. req' = [req EXCEPT ![u] = r] /\ page_table' = page_table
    BY <1>1 DEF FreeLazily
  <2>2. req'[u] = r /\ \A v \in Uids \ {u} : req'[v] = req[v]
    BY <2>1 DEF ControlInv, ControlTypes
  <2> SUFFICES ASSUME NEW v \in Holders' PROVE v \in Holders /\ SameSizes(v) /\ Row(v)' = Row(v)
    OBVIOUS
  <2>3. v # u /\ v \in Uids
    BY <1>1, <2>2 DEF Holders, Held
  <2>4. req'[v] = req[v]
    BY <2>2, <2>3
  <2> QED BY <2>1, <2>3, <2>4 DEF Holders, Held, SameSizes, Row
<1>2. CASE r.table_idx # NoTable
  <2>1. FreeRow(u, r, cache_req(u, r, TRUE))
    BY <1>2 DEF FreeLazily
  <2>2. u \in Holders
    BY <1>2 DEF Holders, Held
  <2> QED BY <2>1, <2>2, FreedRows
<1> QED BY <1>1, <1>2

\* The token of a request that goes on reaches the host.
LEMMA AppendedSizes ==
  ASSUME ControlInv, MemoryInv, Sampled, NEW u \in Uids, u = entry.uid,
         NEW r, r.table_idx = appended.table_idx, r.n = appended.n, r.chunked = appended.chunked,
         r.cached_len = appended.cached_len, r.device_len = appended.device_len,
         r.output_len = appended.output_len, req' = [req EXCEPT ![u] = r]
  PROVE  /\ u \in Holders /\ Holders' = Holders /\ \A v \in Uids : SameSizes(v)
         /\ \A v \in Uids \ {u} : req'[v] = req[v]
         /\ req'[u].table_idx = req[u].table_idx
<1>1. /\ u \in Holders /\ appended.cached_len = req[u].cached_len
      /\ appended.n = req[u].n /\ appended.table_idx = req[u].table_idx
      /\ appended.chunked = req[u].chunked
      /\ appended.device_len = req[u].device_len /\ appended.output_len = req[u].output_len
  BY SampledFacts, AppendedSame DEF SameObject
<1>2. req'[u] = r /\ \A v \in Uids \ {u} : req'[v] = req[v]
  BY DEF ControlInv, ControlTypes
<1>3. \A v \in Uids : SameSizes(v) /\ req'[v].table_idx = req[v].table_idx
  BY <1>1, <1>2 DEF SameSizes
<1>4. Holders' = Holders
  BY <1>3 DEF Holders, Held
<1> QED BY <1>1, <1>2, <1>3, <1>4

\* A visit of the drain that commits nothing into a row still held.
LEMMA VisitCapacity ==
  ASSUME ControlInv, ContractInv, StreamInv, MemoryInv, ControlInv', StreamInv', CapacityInv,
         DrainChunk \/ DrainAborted \/ DrainStale \/ DrainFinished \/ DrainDecoded
  PROVE  CapacityInv'
<1>1. Visit
  BY DEF DrainChunk, DrainAborted, DrainStale, DrainFinished, DrainDecoded, Sampled
<1>2. /\ pc' = "drain" /\ UNCHANGED <<pending_list, num_pages>>
      /\ \A v : Queued(v)' = Queued(v)
  BY <1>1, VisitFacts DEF Visit
<1>3. PICK u \in Uids : u = entry.uid
  BY <1>1, VisitFacts
<1>4. /\ req[u] \in Reqs /\ object = req[u] /\ req \in [Uids -> Reqs]
  BY <1>3 DEF ControlInv, ControlTypes, object
<1>5. running_reqs' \subseteq running_reqs
  BY DEF DrainChunk, DrainAborted, DrainStale, DrainFinished, DrainDecoded
<1>6. ASSUME UNCHANGED <<req, page_table>> PROVE Fades
  BY <1>2, <1>5, <1>6, StillFades
<1>7. ASSUME FreeLazily(u, object) PROVE Fades
  <2>1. \A v \in Holders' : v \in Holders /\ SameSizes(v) /\ Row(v)' = Row(v)
    BY <1>4, <1>7, FreedLazily
  <2> QED BY <1>2, <1>5, <2>1 DEF Fades
<1>8. ASSUME DrainFinished PROVE Fades
  <2>1. Sampled /\ FreeLazily(u, appended)
    BY <1>3, <1>8 DEF DrainFinished
  <2>2. appended \in Reqs /\ appended.table_idx = req[u].table_idx
    BY <1>3, <2>1, SampledFacts
  <2>3. \A v \in Holders' : v \in Holders /\ SameSizes(v) /\ Row(v)' = Row(v)
    BY <2>1, <2>2, FreedLazily
  <2> QED BY <1>2, <1>5, <2>3 DEF Fades
<1>9. ASSUME DrainDecoded PROVE Fades
  <2>1. Sampled /\ req' = [req EXCEPT ![u] = appended] /\ page_table' = page_table
    BY <1>3, <1>9 DEF DrainDecoded
  <2>2. /\ Holders' = Holders /\ \A v \in Uids : SameSizes(v)
        /\ \A v \in Uids \ {u} : req'[v] = req[v]
        /\ req'[u].table_idx = req[u].table_idx
    BY <1>3, <2>1, AppendedSizes
  <2>3. \A v \in Holders' : v \in Holders /\ SameSizes(v) /\ Row(v)' = Row(v)
    BY <2>1, <2>2 DEF Row, Holders
  <2> QED BY <1>2, <1>5, <2>3 DEF Fades
<1>10. Fades
  BY <1>3, <1>6, <1>7, <1>8, <1>9 DEF DrainChunk, DrainAborted, DrainStale
<1>11. DecodesNext' /\ RoomForAll' /\ ChunkFirst'
  BY <1>2, <1>10, FadesKeep
<1> QED BY <1>2, <1>11, NoPlan DEF CapacityInv, Planning

\* What a commit changes of the row: of its own pages, those already cached.
RowSwapped(u, new, k0, k1, canonical) ==
    /\ k0 = Shared(u) /\ k0 <= k1 /\ k1 <= Len(Row(u)) /\ Len(new) = Len(Row(u))
    /\ \A i \in 1 .. Len(Row(u)) : new[i] = IF i \in k0 + 1 .. k1 THEN canonical[i] ELSE Row(u)[i]

\* A commit re-points the pages between the handle and what the cache now has.
LEMMA CommitSwaps ==
  ASSUME ControlInv, MemoryInv, NEW u \in Holders, NEW r, SameObject(r, u), Shareable(u),
         NEW ins, ins = insert_prefix(tree, ComputedIds(r), Row(u)),
         NEW canonical, canonical = get_matched_indices(ins.tree, ins.path),
         NEW new, new = Repointed(Row(u), canonical, Len(req[u].handle), ins.cached_len)
  PROVE  \E k0, k1 \in Nat : RowSwapped(u, new, k0, k1, canonical)
<1>1. PICK ids, row, handle : ids = ComputedIds(r) /\ row = Row(u) /\ handle = req[u].handle
  OBVIOUS
<1>2. row \in Seq(PoolPages) /\ Len(handle) = Shared(u) * PageSize /\ Shared(u) \in Nat
  BY <1>1, HolderFacts DEF HolderOK
<1>3. CommitReady(tree, PoolPages, Handles, Holders, u, ids, row) /\ Handles[u] = handle
  BY <1>1, ReadyToCommit
<1>4. CommitResult(tree, PoolPages, Handles, Holders, u, ids, row)
  BY <1>3, CommitCuts
<1>5. PICK k0 \in Nat, k1 \in Nat, k2 \in Nat : Cuts(tree, handle, ids, row, k0, k1, k2)
  BY <1>3, <1>4 DEF CommitResult
<1>6. /\ Len(handle) \div PageSize = k0 /\ ins.cached_len \div PageSize = k1
      /\ k0 <= k1 /\ k1 <= k2 /\ k2 <= Len(row)
  BY <1>1, <1>5 DEF Cuts
<1>7. k0 = Shared(u)
  BY <1>1, <1>6 DEF Shared
<1>8. Len(new) = Len(row)
      /\ \A i \in 1 .. Len(row) : new[i] = IF i \in k0 + 1 .. k1 THEN canonical[i] ELSE row[i]
  BY <1>1, <1>2, <1>6 DEF Repointed
<1>9. k1 <= Len(row)
  BY <1>2, <1>6
<1>10. RowSwapped(u, new, k0, k1, canonical)
  BY <1>1, <1>6, <1>7, <1>8, <1>9 DEF RowSwapped
<1> QED BY <1>10

\* No other row changes.
OnlySwapped(u, k0, k1, canonical) ==
    /\ Holders' = Holders /\ \A v \in Holders : v # u => Row(v)' = Row(v)
    /\ RowSwapped(u, Row(u)', k0, k1, canonical)

\* Pages given back by u's row, which no row leads to any more, for as many.
Swap(D, C) ==
    /\ D \in SUBSET HeldPages /\ HeldPages' \subseteq (HeldPages \ D) \cup C
    /\ IsFiniteSet(C) /\ Cardinality(C) <= Cardinality(D)
    /\ Cardinality(C) \in Nat /\ Cardinality(D) \in Nat

\* What re-pointing takes from the unheld pages it gives back.
LEMMA SwappedPages ==
  ASSUME ControlInv, MemoryInv, ContentInv, NEW u \in Holders,
         NEW k0 \in Nat, NEW k1 \in Nat, NEW canonical, OnlySwapped(u, k0, k1, canonical)
  PROVE  \E D, C : Swap(D, C)
<1> /\ Holders' = Holders /\ \A v \in Holders : v # u => Row(v)' = Row(v)
    /\ RowSwapped(u, Row(u)', k0, k1, canonical)
  BY DEF OnlySwapped
<1>0. PICK D, C : /\ D = {Row(u)[i] : i \in k0 + 1 .. k1}
                  /\ C = {canonical[i] : i \in k0 + 1 .. k1}
  OBVIOUS
<1>1. PICK row, new, n : /\ row = Row(u) /\ new = Row(u)' /\ n = Len(row) /\ n \in Nat
                         /\ row \in Seq(PoolPages) /\ OwnOnce(row, k0) /\ k0 = Shared(u)
  <2>1. HolderOK(u) /\ k0 = Shared(u)
    BY HolderFacts DEF RowSwapped
  <2>2. Row(u) \in Seq(PoolPages) /\ OwnOnce(Row(u), k0)
    BY <2>1 DEF HolderOK
  <2>3. Len(Row(u)) \in Nat
    BY <2>2
  <2> QED BY <2>1, <2>2, <2>3, Zenon
<1>2. /\ k0 <= k1 /\ k1 <= n /\ Len(new) = n
      /\ \A i \in 1 .. n : new[i] = IF i \in k0 + 1 .. k1 THEN canonical[i] ELSE row[i]
  BY <1>1 DEF RowSwapped
<1>3. \A p \in D : p \in Own(u) /\ \E i \in k0 + 1 .. k1 : p = row[i]
  BY <1>0, <1>1, <1>2 DEF Own
<1>4. /\ Own(u) \cap TreePages = {}
      /\ \A v \in Holders \ {u} : Own(v) \cap Own(u) = {}
  <2>1. PICK own : own = [w \in Uids |-> Own(w)]
    OBVIOUS
  <2>2. \A v \in Holders : own[v] = Own(v)
    BY <2>1 DEF Holders
  <2>3. /\ \A v \in Holders : own[v] \cap TreePages = {}
        /\ \A v, w \in Holders : v # w => own[v] \cap own[w] = {}
    BY <2>1 DEF MemoryInv, PagesOK, Partition
  <2> QED BY <2>2, <2>3
<1>5. D \in SUBSET HeldPages
  BY <1>0, <1>1, <1>2 DEF HeldPages
<1>6. ASSUME NEW p \in HeldPages' PROVE p \in (HeldPages \ D) \cup C
  <2>1. PICK v \in Holders : \E i \in 1 .. Len(Row(v)') : p = Row(v)'[i]
    BY DEF HeldPages
  <2>2. PICK i \in 1 .. Len(Row(v)') : p = Row(v)'[i]
    BY <2>1
  <2>3. CASE v # u
    <3>1. i \in 1 .. Len(Row(v)) /\ p = Row(v)[i]
      BY <2>2, <2>3
    <3>2. p \in Own(v) \/ p \in TreePages
      BY <3>1, RowPagesAre DEF TreePages
    <3>3. p \notin D
      BY <1>3, <1>4, <2>3, <3>2
    <3> QED BY <3>1, <3>3 DEF HeldPages
  <2>4. CASE v = u
    <3>1. i \in 1 .. n /\ p = new[i]
      BY <1>1, <1>2, <2>2, <2>4
    <3>2. CASE i \in k0 + 1 .. k1
      BY <1>0, <1>2, <3>1, <3>2
    <3>3. CASE i \notin k0 + 1 .. k1
      <4>1. p = row[i] /\ p \in HeldPages
        BY <1>1, <1>2, <3>1, <3>3 DEF HeldPages
      <4>2. SUFFICES ASSUME p \in D PROVE FALSE
        BY <4>1
      <4>3. PICK j \in k0 + 1 .. k1 : p = row[j]
        BY <1>3, <4>2
      <4>4. CASE i > k0
        <5>1. i \in k0 + 1 .. Len(row) /\ j \in k0 + 1 .. Len(row)
          BY <1>1, <1>2, <3>1, <4>3, <4>4
        <5> QED BY <1>1, <3>3, <4>1, <4>3, <5>1 DEF OwnOnce
      <4>5. CASE ~(i > k0)
        <5>1. p \in TreePages
          BY <1>1, <3>1, <4>1, <4>5, RowPagesAre DEF TreePages
        <5> QED BY <1>3, <1>4, <4>2, <5>1
      <4> QED BY <4>4, <4>5
    <3> QED BY <3>2, <3>3
  <2> QED BY <2>3, <2>4
<1>7. IsFiniteSet(k0 + 1 .. k1) /\ Cardinality(k0 + 1 .. k1) = k1 - k0
  <2>1. PICK a, b : a = k0 + 1 /\ b = k1 /\ a <= b + 1 /\ a \in Int /\ b \in Int
    BY <1>1, <1>2
  <2>2. IsFiniteSet(a .. b) /\ Cardinality(a .. b) = IF a > b THEN 0 ELSE b - a + 1
    BY <2>1, FS_Interval
  <2> QED BY <1>2, <2>1, <2>2
<1>8. IsFiniteSet(C) /\ Cardinality(C) <= Cardinality(k0 + 1 .. k1)
  <2>1. PICK f : f = [i \in k0 + 1 .. k1 |-> canonical[i]]
    OBVIOUS
  <2>2. f \in Surjection(k0 + 1 .. k1, C)
    BY <1>0, <2>1 DEF Surjection
  <2> QED BY <1>7, <2>2, FS_Surjection
<1>9. IsFiniteSet(D) /\ Cardinality(D) = Cardinality(k0 + 1 .. k1)
  <2>1. PICK f : f = [i \in k0 + 1 .. k1 |-> row[i]]
    OBVIOUS
  <2>2. \A i, j \in k0 + 1 .. k1 : row[i] = row[j] => i = j
    <3>1. \A i \in k0 + 1 .. k1 : i \in k0 + 1 .. Len(row)
      BY <1>1, <1>2
    <3> QED BY <1>1, <3>1 DEF OwnOnce
  <2>3. f \in Bijection(k0 + 1 .. k1, D)
    <3>1. f \in [k0 + 1 .. k1 -> D] /\ \A p \in D : \E i \in k0 + 1 .. k1 : f[i] = p
      BY <1>0, <1>1, <2>1
    <3> QED BY <2>1, <2>2, <3>1 DEF Bijection, Injection, Surjection, IsInjective
  <2> QED BY <1>7, <2>3, FS_Bijection DEF ExistsBijection
<1>10. Cardinality(C) \in Nat
  BY <1>8, FS_CardinalityType
<1>11. Swap(D, C)
  BY <1>2, <1>5, <1>6, <1>7, <1>8, <1>9, <1>10 DEF Swap
<1> QED BY <1>11

\* The whole prompt is committed, and the row re-pointed.
LEMMA PrefilledCapacity ==
  ASSUME ControlInv, StreamInv, MemoryInv, ContentInv, ControlInv', StreamInv', CapacityInv,
         DrainPrefilled
  PROVE  CapacityInv'
<1>1. Sampled /\ Visit
  BY DEF DrainPrefilled, Sampled
<1>2. /\ pc' = "drain" /\ UNCHANGED <<pending_list, num_pages, running_reqs>>
      /\ \A v : Queued(v)' = Queued(v)
  BY <1>1, VisitFacts DEF Visit, DrainPrefilled
<1>3. PICK u \in Uids : u = entry.uid
  BY <1>1, VisitFacts
<1>4. PICK r \in Reqs : r = appended
  BY <1>1, <1>3, SampledFacts
<1>5. u \in Holders /\ SameObject(r, u) /\ object = req[u]
  BY <1>1, <1>3, <1>4, AppendedSame DEF object
<1>6. PICK commit : commit = cache_req(u, r, FALSE)
  OBVIOUS
<1>7. PICK t \in Tables : t = req[u].table_idx /\ page_table[t] = Row(u) /\ t = r.table_idx
  BY <1>5, HolderFacts DEF HolderOK, SameObject, Row
<1>8. /\ page_table' = [page_table EXCEPT ![t] = commit.row]
      /\ req' = [req EXCEPT ![u] = [r EXCEPT !.handle = commit.handle]]
  BY <1>3, <1>4, <1>5, <1>6, <1>7 DEF DrainPrefilled
<1>9. /\ Holders' = Holders /\ \A v \in Uids : SameSizes(v)
      /\ \A v \in Uids \ {u} : req'[v] = req[v]
      /\ req'[u].table_idx = req[u].table_idx
  <2>1. PICK s : s = [r EXCEPT !.handle = commit.handle]
    OBVIOUS
  <2>2. /\ s.table_idx = r.table_idx /\ s.n = r.n /\ s.chunked = r.chunked
        /\ s.cached_len = r.cached_len /\ s.device_len = r.device_len
        /\ s.output_len = r.output_len
    BY <2>1 DEF Reqs
  <2>3. /\ s.table_idx = appended.table_idx /\ s.n = appended.n /\ s.chunked = appended.chunked
        /\ s.cached_len = appended.cached_len /\ s.device_len = appended.device_len
        /\ s.output_len = appended.output_len
    BY <1>4, <2>2
  <2>4. req' = [req EXCEPT ![u] = s]
    BY <1>8, <2>1
  <2> QED BY <1>1, <1>3, <2>3, <2>4, AppendedSizes
<1>10. page_table \in [Tables -> Seq(PoolPages)] /\ Row(u)' = commit.row
  BY <1>7, <1>8, <1>9 DEF MemoryInv, RowsOK, Row
<1>11. \A v \in Holders : v # u => Row(v)' = Row(v)
  <2> SUFFICES ASSUME NEW v \in Holders, v # u PROVE Row(v)' = Row(v)
    OBVIOUS
  <2>1. req[v].table_idx # t
    <3>1. \A w1, w2 \in Holders : req[w1].table_idx = req[w2].table_idx => w1 = w2
      BY DEF ControlInv, TablesOK
    <3> QED BY <1>5, <1>7, <3>1
  <2>2. req[v].table_idx \in Tables /\ v \in Uids
    BY HolderFacts DEF HolderOK
  <2> QED BY <1>8, <1>9, <1>10, <2>1, <2>2 DEF Row
<1>12. Calm
  BY <1>2, <1>9 DEF Calm, Holders
<1>13. CASE ~Shareable(u)
  <2>1. commit.row = Row(u)
    BY <1>6, <1>7, <1>13 DEF cache_req
  <2>2. \A v \in Holders' : Row(v)' = Row(v)
    BY <1>9, <1>10, <1>11, <2>1
  <2>3. Fades
    BY <1>12, <2>2 DEF Calm, Fades
  <2>4. DecodesNext' /\ RoomForAll' /\ ChunkFirst'
    BY <1>2, <2>3, FadesKeep
  <2> QED BY <1>2, <2>4, NoPlan DEF CapacityInv, Planning
<1>14. CASE Shareable(u)
  <2>1. PICK ins : ins = insert_prefix(tree, ComputedIds(r), Row(u))
    OBVIOUS
  <2>2. PICK canonical : canonical = get_matched_indices(ins.tree, ins.path)
    OBVIOUS
  <2>3. Row(u)' = Repointed(Row(u), canonical, Len(req[u].handle), ins.cached_len)
    BY <1>5, <1>6, <1>7, <1>10, <1>14, <2>1, <2>2 DEF cache_req, SameObject
  <2>4. PICK k0 \in Nat, k1 \in Nat : RowSwapped(u, Row(u)', k0, k1, canonical)
    BY <1>5, <1>14, <2>1, <2>2, <2>3, CommitSwaps
  <2>5. OnlySwapped(u, k0, k1, canonical)
    BY <1>9, <1>11, <2>4 DEF OnlySwapped
  <2>6. PICK D, C : Swap(D, C)
    BY <1>5, <2>5, SwappedPages
  <2>7. /\ DecodesNext' /\ Cardinality(Needs(Promised)') <= Cardinality(Needs(Promised))
        /\ Cardinality(Needs(Promised)) \in Nat /\ Cardinality(Needs(Promised)') \in Nat
    BY <1>12, CalmNeeds DEF CapacityInv
  <2>8. Cardinality(Needs(Promised)') + Cardinality(C) <= Cardinality(Needs(Promised)) + Cardinality(D)
    BY <2>6, <2>7 DEF Swap
  <2>9. RoomForAll'
    BY <1>2, <2>6, <2>8, PromisesKept DEF CapacityInv, Swap
  <2>10. ChunkFirst'
    BY <1>2, <1>12, QueueKept DEF Calm, CapacityInv
  <2> QED BY <1>2, <2>7, <2>9, <2>10, NoPlan DEF CapacityInv, Planning
<1> QED BY <1>13, <1>14

\* What the pass has decided when the head of the queue is admitted.
Admitted(u, cached, upto, t) ==
    /\ CanTry /\ u = candidate.uid /\ pc' = "plan" /\ UNCHANGED <<pending_list, running_reqs>>
    /\ Took(u, cached, upto, t) /\ cached \in 0 .. Len(Prompt[u]) /\ t \in Tables
    /\ adder'.token_budget = adder.token_budget - chunk_size(cached)
    /\ adder'.reserved_size = adder.reserved_size + estimated_size(cached)
    /\ \E e : e.uid = u /\ adder'.reqs = Append(adder.reqs, e)
    /\ adder'.chunked_list = IF is_chunked(cached)
                             THEN Append(adder.chunked_list, [candidate EXCEPT !.chunked = TRUE])
                             ELSE adder.chunked_list

\* A chunk is what is left of the budget, and nothing was chunked before it.
LEMMA AdmittedSpends ==
  ASSUME ControlInv, PlanSpent, NEW u \in Uids, NEW cached, NEW upto, NEW t,
         Admitted(u, cached, upto, t)
  PROVE  PlanSpent'
<1>1. /\ CanTry /\ u = candidate.uid /\ Took(u, cached, upto, t) /\ cached \in 0 .. Len(Prompt[u])
      /\ adder'.token_budget = adder.token_budget - chunk_size(cached)
      /\ adder'.chunked_list = IF is_chunked(cached)
                               THEN Append(adder.chunked_list, [candidate EXCEPT !.chunked = TRUE])
                               ELSE adder.chunked_list
  BY DEF Admitted
<1>2. PICK b \in Int : b = adder.token_budget /\ b > 0 /\ chunk_size(cached) \in Nat
                       /\ chunk_size(cached) <= b
  BY <1>1, ChunkSize DEF CanTry
<1>3. adder.chunked_list = <<>>
  BY <1>1, <1>2 DEF PlanSpent, CanTry, Planning
<1>4. candidate \in PendingReqs
  BY <1>1, Candidate
<1>5. is_chunked(cached) => chunk_size(cached) = b
  <2>1. PICK left : left = Len(Prompt[u]) - cached /\ left \in Int
    <3>1. Prompt[u] \in Seq(Vocab)
      BY SchedulerAssumption
    <3> QED BY <1>1, <3>1
  <2>2. chunk_size(cached) = Min({b, left})
    BY <1>1, <1>2, <2>1 DEF chunk_size
  <2>3. Min({b, left}) = IF b <= left THEN b ELSE left
    BY ONLY <2>1, b \in Int, MinOfTwo, Zenon
  <2> QED BY <1>1, <1>2, <2>1, <2>2, <2>3 DEF is_chunked
<1>6. PICK c : c = [candidate EXCEPT !.chunked = TRUE]
  OBVIOUS
<1>7. c.uid = u /\ c.output_len = candidate.output_len
  BY <1>1, <1>4, <1>6 DEF PendingReqs
<1>8. req'[u].output_len = candidate.output_len
  BY <1>1 DEF Took
<1>9. CASE is_chunked(cached)
  <2>1. adder'.token_budget = 0
    BY <1>1, <1>2, <1>5, <1>9
  <2>2. adder'.chunked_list = <<c>>
    <3>1. adder'.chunked_list = Append(adder.chunked_list, c)
      BY <1>1, <1>6, <1>9
    <3>2. Append(<<>>, c) = <<c>>
      OBVIOUS
    <3> QED BY <1>3, <3>1, <3>2
  <2> QED BY <1>7, <1>8, <2>1, <2>2 DEF PlanSpent
<1>10. CASE ~is_chunked(cached)
  <2>1. adder'.token_budget >= 0
    BY <1>1, <1>2
  <2>2. adder'.chunked_list = <<>>
    BY <1>1, <1>3, <1>10
  <2> QED BY <2>1, <2>2 DEF PlanSpent
<1> QED BY <1>9, <1>10

\* The queue's entry of the request admitted is the candidate.
LEMMA AdmittedQueue ==
  ASSUME ControlInv, ChunkFirst, NEW u \in Uids, NEW cached, NEW upto, NEW t,
         Admitted(u, cached, upto, t)
  PROVE  ChunkFirst'
<1>1. /\ CanTry /\ u = candidate.uid /\ Took(u, cached, upto, t) /\ pending_list' = pending_list
  BY DEF Admitted
<1>2. PICK k \in 1 .. Len(pending_list) : pending_list[k] = candidate
  BY <1>1, Candidate
<1>3. pending_list \in Seq(PendingReqs) /\ Distinct(pending_list)
  BY DEF ControlInv, ControlTypes, QueueOK
<1>4. ASSUME NEW i \in 1 .. Len(pending_list)
      PROVE  /\ pending_list[i].chunked => i = 1
             /\ req'[pending_list[i].uid].table_idx # NoTable =>
                  pending_list[i].output_len = req'[pending_list[i].uid].output_len
  <2>1. /\ pending_list[i].chunked => i = 1
        /\ Held(pending_list[i].uid) =>
             pending_list[i].output_len = req[pending_list[i].uid].output_len
    BY DEF ChunkFirst
  <2>2. PICK v \in Uids : v = pending_list[i].uid
    <3>1. pending_list[i] \in PendingReqs
      BY <1>3
    <3> QED BY <3>1 DEF PendingReqs
  <2>3. CASE v = u
    <3>1. i = k
      BY <1>1, <1>2, <1>3, <2>2, <2>3 DEF Distinct
    <3>2. req'[u].output_len = candidate.output_len
      BY <1>1 DEF Took
    <3> QED BY <1>2, <2>1, <2>2, <2>3, <3>1, <3>2
  <2>4. CASE v # u
    <3>1. req'[v] = req[v]
      BY <1>1, <2>4 DEF Took
    <3> QED BY <2>1, <2>2, <3>1 DEF Held
  <2> QED BY <2>3, <2>4
<1> QED BY <1>1, <1>4 DEF ChunkFirst, Held

\* An admission leaves the running requests alone.
LEMMA AdmittedDecodes ==
  ASSUME ControlInv, DecodesNext, NEW u \in Uids, NEW cached, NEW upto, NEW t,
         Admitted(u, cached, upto, t)
  PROVE  DecodesNext' /\ u \notin running_reqs /\ running_reqs' = running_reqs
<1>1. CanTry /\ u = candidate.uid /\ Took(u, cached, upto, t) /\ running_reqs' = running_reqs
  BY DEF Admitted
<1>2. u \notin running_reqs
  BY <1>1, Candidate DEF ControlInv, RunningOK
<1>3. ASSUME NEW v \in running_reqs PROVE req'[v].device_len = req'[v].cached_len + 1
  <2>1. v \in Uids \ {u}
    BY <1>2 DEF ControlInv, ControlTypes
  <2>2. req'[v] = req[v]
    BY <1>1, <2>1 DEF Took
  <2> QED BY <2>2 DEF DecodesNext
<1> QED BY <1>1, <1>2, <1>3 DEF DecodesNext

\* What the pass reserves for it is what it may take.
LEMMA AdmittedReserves ==
  ASSUME ControlInv, StreamInv, ControlInv', StreamInv', DecodesNext, PlanReserved, pc = "plan",
         NEW u \in Uids, NEW cached, NEW upto, NEW t, Admitted(u, cached, upto, t)
  PROVE  /\ PlanReserved' /\ Processed(u)'
         /\ \A v : Processed(v) => Processed(v)'
<1>0. PICK S : S = running_reqs \cup {v \in Uids : Processed(v)}
  OBVIOUS
<1>1. /\ CanTry /\ u = candidate.uid /\ Took(u, cached, upto, t) /\ cached \in 0 .. Len(Prompt[u])
      /\ pc' = "plan" /\ adder'.reserved_size = adder.reserved_size + estimated_size(cached)
  BY DEF Admitted
<1>2. PICK e : e.uid = u /\ adder'.reqs = Append(adder.reqs, e)
  BY DEF Admitted
<1>3. running_reqs' = running_reqs /\ u \notin running_reqs
  BY AdmittedDecodes
<1>4. ~Processed(u) /\ Queued(u)
  BY <1>1, Candidate
<1>5. adder.reqs \in Seq(Taken)
  BY DEF ControlInv, PlanOK, PlanTypes, Planning
<1>6. \A v : Processed(v)' <=> Processed(v) \/ v = u
  <2>1. adder'.reqs[Len(adder.reqs) + 1] = e /\ Len(adder'.reqs) = Len(adder.reqs) + 1
        /\ \A i \in 1 .. Len(adder.reqs) : adder'.reqs[i] = adder.reqs[i]
    BY <1>2, <1>5
  <2>2. Len(adder.reqs) \in Nat
    BY <1>5
  <2>3. \A v : (\E i \in 1 .. Len(adder'.reqs) : adder'.reqs[i].uid = v)
                 <=> (\E i \in 1 .. Len(adder.reqs) : adder.reqs[i].uid = v) \/ v = u
    BY <1>2, <2>1, <2>2
  <2> QED BY <1>1, <2>3 DEF Processed, Planning
<1>7. (running_reqs \cup {v \in Uids : Processed(v)})' = S \cup {u}
  BY <1>0, <1>3, <1>6
<1>8. S \in SUBSET Holders /\ u \notin S
  BY <1>0, <1>3, <1>4, PromisedHold
<1>9. u \in Holders' /\ S \in SUBSET Holders'
  <2>1. u \in Holders'
    <3>1. req'[u].table_idx = t /\ t # NoTable
      BY <1>1, SchedulerAssumption DEF Admitted, Took, Tables, NoTable
    <3> QED BY <3>1 DEF Holders, Held
  <2>2. \A v \in S : v \in Holders'
    <3>1. \A v \in Uids \ {u} : req'[v] = req[v]
      BY <1>1 DEF Took
    <3> QED BY <1>8, <3>1 DEF Holders, Held
  <2> QED BY <2>1, <2>2
<1>10. PICK m \in Nat : m = CeilPages(ConfigMaxSeqLen)
  BY PromisedAre DEF PromisedFacts
<1>11. \A v \in S : Rooms'[v] = Rooms[v] /\ Rooms[v] \in 0 .. m
  <2> SUFFICES ASSUME NEW v \in S PROVE Rooms'[v] = Rooms[v] /\ Rooms[v] \in 0 .. m
    OBVIOUS
  <2>1. v \in Uids \ {u} /\ v \in Holders
    BY <1>8 DEF Holders
  <2>2. req'[v] = req[v]
    BY <1>1, <2>1 DEF Took
  <2>3. Room(v)' = Room(v)
    BY <1>3, <2>2 DEF Room, Ending_len, max_device_len
  <2>4. Rooms[v] = Room(v) /\ Rooms[v] \in 0 .. m
    BY <1>10, <2>1, RoomIs
  <2>5. Rooms'[v] = Room(v)'
    BY <2>1 DEF Rooms
  <2> QED BY <2>3, <2>4, <2>5
<1>12. Rooms'[u] \in 0 .. m /\ Rooms'[u] * PageSize = estimated_size(cached)
  <2>1. Rooms'[u] = Room(u)' /\ Room(u)' \in 0 .. m
    BY <1>9, <1>10, PromisedThen DEF PromisedFacts
  <2>2. Room(u)' = CeilPages(Len(Prompt[u]) + candidate.output_len) - CeilPages(cached)
    BY <1>1, <1>3 DEF Took, Room, Ending_len, max_device_len
  <2> QED BY <1>1, <2>1, <2>2 DEF estimated_size, kv_reservation_size
<1>13. IsFiniteSet(S)
  BY <1>8, NeedsFinite
<1>14. /\ Cardinality(Cells(S \cup {u}, Rooms')) <= Cardinality(Cells(S, Rooms')) + Rooms'[u]
       /\ Cardinality(Cells(S \cup {u}, Rooms')) \in Nat /\ Cardinality(Cells(S, Rooms')) \in Nat
  <2>1. \A v \in S \cup {u} : Rooms'[v] \in 0 .. m
    BY <1>11, <1>12
  <2> QED BY <1>13, <2>1, CellsAdd
<1>15. Cells(S, Rooms') = Needs(S)
  <2>1. Cells(S, Rooms') = Cells(S, Rooms)
    BY <1>11 DEF Cells
  <2>2. S \in SUBSET Uids
    BY <1>8 DEF Holders
  <2> QED BY <2>1, <2>2, NeedsAre
<1>16. Needs(S \cup {u})' = Cells(S \cup {u}, Rooms')
  <2>1. \A v \in S \cup {u} : Room(v)' = Rooms'[v]
    BY <1>8, <1>9 DEF Rooms, Holders
  <2> QED BY <2>1 DEF Needs, Cells
<1>17. adder.reserved_size \in Nat /\ Cardinality(Needs(S)) * PageSize <= adder.reserved_size
  BY <1>0 DEF PlanReserved, Planning
<1>18. PICK p \in Nat \ {0}, a \in Nat, b \in Nat, x \in Nat :
         /\ p = PageSize /\ a = Cardinality(Cells(S \cup {u}, Rooms')) /\ b = Cardinality(Cells(S, Rooms'))
         /\ x = Rooms'[u] /\ a <= b + x
  <2>1. Rooms'[u] \in Nat
    BY <1>12
  <2> QED BY <1>14, <2>1, PageSizeAssumption
<1>19. a * p <= b * p + x * p /\ a * p \in Nat /\ x * p \in Nat
  <2>1. a * p <= (b + x) * p
    BY ONLY <1>18, p \in Nat \ {0}, a \in Nat, b \in Nat, x \in Nat, Z3
  <2>2. (b + x) * p = b * p + x * p
    BY ONLY p \in Nat \ {0}, b \in Nat, x \in Nat, Z3
  <2> QED BY <2>1, <2>2
<1>20. /\ adder'.reserved_size \in Nat
       /\ Cardinality(Needs(S \cup {u})') * PageSize <= adder'.reserved_size
  <2>1. PICK ap \in Nat, xp \in Nat, bp \in Int : ap = a * p /\ xp = x * p /\ bp = b * p /\ ap <= bp + xp
    BY <1>19
  <2>2. estimated_size(cached) = xp
    BY <1>12, <1>18, <2>1
  <2>3. bp <= adder.reserved_size /\ bp \in Nat
    <3>1. b = Cardinality(Needs(S))
      BY <1>15, <1>18
    <3> QED BY <1>17, <1>18, <2>1, <3>1
  <2>4. Cardinality(Needs(S \cup {u})') * PageSize = ap
    BY <1>16, <1>18, <2>1
  <2> QED BY <1>1, <1>17, <2>1, <2>2, <2>3, <2>4
<1>21. PlanReserved'
  <2>1. Needs(running_reqs \cup {v \in Uids : Processed(v)})' = Needs(S \cup {u})'
    BY <1>7 DEF Needs
  <2> QED BY <1>20, <2>1 DEF PlanReserved
<1> QED BY <1>6, <1>21

\* The next chunk of a request: its cursor is where the last one left it.
LEMMA ContinuationCapacity ==
  ASSUME ControlInv, ContractInv, StreamInv, MemoryInv, ControlInv', StreamInv', CapacityInv,
         AdmitContinuation
  PROVE  CapacityInv'
<1>1. /\ CanTry /\ candidate.chunked /\ pc = "plan" /\ pc' = "plan"
      /\ UNCHANGED <<pending_list, running_reqs, page_table, num_pages>>
  BY DEF AdmitContinuation, CanTry
<1>2. PICK u \in Uids : u = candidate.uid /\ WaitingOK(candidate) /\ ~Processed(u) /\ Queued(u)
  BY <1>1, Candidate
<1>3. Held(u) /\ u \in Holders /\ req[u].cached_len <= Len(Prompt[u])
  BY <1>1, <1>2 DEF WaitingOK, Holders
<1>4. PICK cached \in Nat, upto \in Nat, t \in Tables : Took(u, cached, upto, t)
  BY <1>2, AdmitTokens
<1>5. AddOne(req[u].cached_len, req[u].table_idx, req[u].handle,
             estimated_size(req[u].cached_len), token_pool[req[u].table_idx])
  BY <1>2 DEF AdmitContinuation
<1>6. req \in [Uids -> Reqs]
  BY DEF ControlInv, ControlTypes
<1>7. req'[u].cached_len = req[u].cached_len /\ req'[u].table_idx = req[u].table_idx
  BY <1>2, <1>5, <1>6 DEF AddOne
<1>8. cached = req[u].cached_len /\ t = req[u].table_idx /\ cached \in 0 .. Len(Prompt[u])
  <2>1. Prompt[u] \in Seq(Vocab)
    BY SchedulerAssumption
  <2> QED BY <1>3, <1>4, <1>7, <2>1 DEF Took
<1>9. Admitted(u, cached, upto, t)
  <2>1. /\ adder'.token_budget = adder.token_budget - chunk_size(cached)
        /\ adder'.reserved_size = adder.reserved_size + estimated_size(cached)
        /\ adder'.reqs = Append(adder.reqs, [uid |-> u, n |-> req[u].n + 1, chunked |-> is_chunked(cached),
                                             token |-> 0, fresh |-> ~is_continuation])
        /\ adder'.chunked_list = IF is_chunked(cached)
                                 THEN Append(adder.chunked_list, [candidate EXCEPT !.chunked = TRUE])
                                 ELSE adder.chunked_list
    BY <1>2, <1>5, <1>8 DEF AddOne
  <2>2. \E e : e.uid = u /\ adder'.reqs = Append(adder.reqs, e)
    BY <2>1
  <2> QED BY <1>1, <1>2, <1>4, <1>8, <2>1, <2>2 DEF Admitted
<1>10. req'[u].output_len = req[u].output_len
  <2>1. PICK k \in 1 .. Len(pending_list) : pending_list[k] = candidate
    BY <1>1, Candidate
  <2>2. candidate.output_len = req[u].output_len
    BY <1>2, <1>3, <2>1 DEF CapacityInv, ChunkFirst
  <2> QED BY <1>4, <2>2 DEF Took
<1>11. \A v \in Uids : /\ Held(v)' = Held(v) /\ Room(v)' = Room(v) /\ Row(v)' = Row(v)
                       /\ Queued(v)' = Queued(v)
  <2> SUFFICES ASSUME NEW v \in Uids
               PROVE  /\ Held(v)' = Held(v) /\ Room(v)' = Room(v) /\ Row(v)' = Row(v)
                      /\ Queued(v)' = Queued(v)
    OBVIOUS
  <2>1. /\ req'[v].table_idx = req[v].table_idx /\ req'[v].cached_len = req[v].cached_len
        /\ req'[v].output_len = req[v].output_len
    <3>1. v # u => req'[v] = req[v]
      BY <1>4 DEF Took
    <3> QED BY <1>7, <1>10, <3>1
  <2> QED BY <1>1, <2>1 DEF Held, Room, Ending_len, max_device_len, Row, Queued
<1>12. RoomForAll'
  <2>1. Holders' = Holders /\ PoolPages' = PoolPages
    BY <1>1, <1>11 DEF Holders, PoolPages
  <2>2. HeldPages' = HeldPages
    BY <1>11, <2>1 DEF HeldPages, Holders
  <2>3. Promised' = Promised
    BY <1>1, <1>11, <2>1 DEF Promised, Holders
  <2>4. \A v \in Promised : Room(v)' = Room(v)
    <3>1. Promised \in SUBSET Uids
      BY PromisedAre DEF PromisedFacts
    <3> QED BY <1>11, <3>1
  <2>5. Needs(Promised)' = Needs(Promised)
    BY <2>3, <2>4 DEF Needs
  <2> QED BY <2>1, <2>2, <2>5 DEF CapacityInv, RoomForAll, Unheld
<1> QED BY <1>1, <1>9, <1>12, AdmittedSpends, AdmittedQueue, AdmittedDecodes, AdmittedReserves
        DEF CapacityInv

\* The available size, in the next state.
UnheldFacts ==
    /\ Cardinality(Unheld) \in Nat /\ Len(free_slots) \in Nat /\ Len(lazy_free_list) \in Nat
    /\ \E e \in Nat : /\ EvictableSize(tree) = PageSize * e
                      /\ Cardinality(Unheld) = Len(free_slots) + Len(lazy_free_list) + e

\* The unheld pages counted in this state ...
LEMMA UnheldSized == ControlInv /\ MemoryInv /\ ContentInv => UnheldFacts
BY UnheldCounts DEF UnheldFacts

\* ... and in the next.
LEMMA UnheldThen == ControlInv' /\ MemoryInv' /\ ContentInv' => UnheldFacts'
BY UnheldSized, PTL

\* A new request fits with all that is reserved: whoever is promised pages is
\* running or admitted, for a chunked entry heads the queue.
LEMMA FreshCapacity ==
  ASSUME ControlInv, ContractInv, StreamInv, MemoryInv, ControlInv', StreamInv', MemoryInv',
         ContentInv', CapacityInv, AdmitFresh
  PROVE  CapacityInv'
<1>1. /\ Fits /\ CanTry /\ ~candidate.chunked /\ pc = "plan" /\ pc' = "plan" /\ table_free # <<>>
      /\ UNCHANGED <<pending_list, running_reqs, free_slots, num_pages>>
  BY DEF AdmitFresh, Fits, CanTry
<1>2. PICK u \in Uids : u = candidate.uid
  BY <1>1, Candidate
<1>3. PICK cached \in Nat, upto \in Nat, t \in Tables : Took(u, cached, upto, t)
  BY <1>2, AdmitTokens
<1>4. PICK mr : mr = match_req(u)
  OBVIOUS
<1>5. AddOne(Len(mr.path), Last(table_free), mr.path, estimated_size(Len(mr.path)),
             [i \in 1 .. ConfigMaxSeqLen |->
                IF i <= Len(mr.path) THEN Prompt[u][i] ELSE token_pool[Last(table_free)][i]])
  BY <1>2, <1>4 DEF AdmitFresh
<1>6. req'[u].cached_len = Len(mr.path)
  <2>1. req \in [Uids -> Reqs]
    BY DEF ControlInv, ControlTypes
  <2> QED BY <1>2, <1>5, <2>1 DEF AddOne
<1>7. cached = Len(mr.path) /\ cached \in 0 .. Len(Prompt[u])
  <2>1. Len(match_req(u).path) \in 0 .. Len(Prompt[u])
    BY MatchReq
  <2> QED BY <1>3, <1>4, <1>6, <2>1 DEF Took
<1>8. Admitted(u, cached, upto, t)
  <2>1. /\ adder'.token_budget = adder.token_budget - chunk_size(cached)
        /\ adder'.reserved_size = adder.reserved_size + estimated_size(cached)
        /\ adder'.reqs = Append(adder.reqs, [uid |-> u, n |-> req[u].n + 1, chunked |-> is_chunked(cached),
                                             token |-> 0, fresh |-> ~is_continuation])
        /\ adder'.chunked_list = IF is_chunked(cached)
                                 THEN Append(adder.chunked_list, [candidate EXCEPT !.chunked = TRUE])
                                 ELSE adder.chunked_list
    BY <1>2, <1>5, <1>7 DEF AddOne
  <2>2. \E e : e.uid = u /\ adder'.reqs = Append(adder.reqs, e)
    BY <2>1
  <2> QED BY <1>1, <1>2, <1>3, <1>7, <2>1, <2>2 DEF Admitted
<1>9. PlanReserved' /\ Processed(u)' /\ \A v : Processed(v) => Processed(v)'
  BY <1>1, <1>8, AdmittedReserves DEF CapacityInv
<1>10. ASSUME NEW w \in Promised' PROVE w \in running_reqs' \/ Processed(w)'
  <2>1. w \in Uids /\ w \in Holders' /\ (w \in running_reqs' \/ Queued(w)')
    BY PromisedThen DEF PromisedFacts, Promised
  <2> SUFFICES ASSUME w # u, ~Processed(w), w \notin running_reqs' PROVE FALSE
    BY <1>9
  <2>2. Held(w)
    <3>1. req'[w] = req[w]
      BY <1>3, <2>1 DEF Took
    <3> QED BY <2>1, <3>1 DEF Holders, Held
  <2>3. PICK i \in 1 .. Len(pending_list) : pending_list[i].uid = w
    BY <1>1, <2>1 DEF Queued
  <2>4. pending_list[i].chunked
    <3>1. WaitingOK(pending_list[i])
      BY DEF ControlInv, QueueOK
    <3>2. req[w].n # 0
      BY <2>1, <2>2 DEF ControlInv, UnbornOK
    <3> QED BY <2>3, <3>1, <3>2 DEF WaitingOK
  <2>5. i = 1
    BY <2>4 DEF CapacityInv, ChunkFirst
  <2>6. /\ Len(adder.reqs) \in Nat /\ pending_list[Len(adder.reqs) + 1] = candidate
        /\ \A k \in 1 .. Len(adder.reqs) : pending_list[k].uid = adder.reqs[k].uid
    <3>1. adder.reqs \in Seq(Taken)
      BY <1>1 DEF ControlInv, PlanOK, PlanTypes, Planning
    <3> QED BY <1>1, <3>1, Candidate
  <2>7. CASE Len(adder.reqs) = 0
    BY <1>2, <2>3, <2>5, <2>6, <2>7
  <2>8. CASE Len(adder.reqs) # 0
    <3>1. 1 \in 1 .. Len(adder.reqs)
      BY <2>6, <2>8
    <3>2. adder.reqs[1].uid = w
      BY <2>3, <2>5, <2>6, <3>1
    <3> QED BY <1>1, <3>1, <3>2 DEF Processed, Planning
  <2> QED BY <2>7, <2>8
<1>11. PICK p \in Nat \ {0}, a \in Nat, n \in Nat, x \in Int :
         /\ p = PageSize /\ a = Cardinality(Needs(Promised)') /\ n = Cardinality(Unheld')
         /\ x = estimated_size(cached)
  <2>1. Cardinality(Needs(Promised)') \in Nat /\ Cardinality(Unheld') \in Nat
    BY PromisedThen, PoolThen DEF PromisedFacts, PoolFacts
  <2>2. estimated_size(cached) \in Int
    <3>1. candidate \in PendingReqs /\ Prompt[u] \in Seq(Vocab) /\ ConfigMaxSeqLen \in Nat
      BY <1>1, Candidate, SchedulerAssumption
    <3>2. Len(Prompt[u]) + candidate.output_len \in Nat /\ cached \in Nat
      BY <3>1 DEF PendingReqs
    <3>3. CeilPages(Len(Prompt[u]) + candidate.output_len) \in Nat /\ CeilPages(cached) \in Nat
      BY <3>2, CeilIs
    <3> QED BY <1>2, <3>3, PageSizeAssumption DEF estimated_size, kv_reservation_size
  <2> QED BY <2>1, <2>2, PageSizeAssumption
<1>12. a * p <= x + adder.reserved_size /\ adder.reserved_size \in Nat
  <2>1. Promised' = (running_reqs \cup {v \in Uids : Processed(v)})'
    BY <1>10, PromisedThen DEF PromisedFacts
  <2>2. Needs(Promised)' = Needs(running_reqs \cup {v \in Uids : Processed(v)})'
    BY <2>1 DEF Needs
  <2>3. a * p <= adder'.reserved_size /\ adder'.reserved_size \in Nat
    BY <1>1, <1>9, <1>11, <2>2 DEF PlanReserved, Planning
  <2>4. adder'.reserved_size = adder.reserved_size + x
    BY <1>8, <1>11 DEF Admitted
  <2>5. adder.reserved_size \in Nat
    BY <1>1 DEF CapacityInv, PlanReserved, Planning
  <2> QED BY <2>3, <2>4, <2>5
<1>13. EvictableSize(tree') + Len(free_slots) * p >= x + adder.reserved_size
  <2>1. tree' = lock(mr.tree, mr.path)
    BY <1>2, <1>4 DEF AdmitFresh
  <2> QED BY <1>1, <1>2, <1>4, <1>7, <1>11, <2>1 DEF Fits, Available, MatchLocked
<1>14. PICK e \in Nat, f \in Nat, l \in Nat :
         /\ EvictableSize(tree') = p * e /\ f = Len(free_slots) /\ n = f + l + e
  <2>1. UnheldFacts'
    BY UnheldThen
  <2> QED BY <1>1, <1>11, <2>1 DEF UnheldFacts
<1>15. a <= n
  <2>1. a * p <= p * e + f * p
    <3>1. PICK i \in Nat, j \in Nat, k \in Nat : i = a * p /\ j = p * e /\ k = f * p
      OBVIOUS
    <3> QED BY <1>12, <1>13, <1>14, <3>1
  <2>2. p * e + f * p = (e + f) * p
    BY ONLY p \in Nat \ {0}, e \in Nat, f \in Nat, Z3
  <2>3. a <= e + f
    BY ONLY <2>1, <2>2, p \in Nat \ {0}, e \in Nat, f \in Nat, a \in Nat, Z3
  <2> QED BY <1>14, <2>3
<1>16. RoomForAll'
  BY <1>11, <1>15 DEF RoomForAll
<1> QED BY <1>1, <1>8, <1>9, <1>16, AdmittedSpends, AdmittedQueue, AdmittedDecodes DEF CapacityInv

\* What a launch takes: of the pages no row led to, no more than the batch is short of.
LEMMA LaunchTakes ==
  ASSUME ControlInv, StreamInv, MemoryInv, pc = "plan", NEW rs \in Planned,
         NEW E \in IF missing_pages(rs) > 0
                   THEN Evictions(tree_after_plan, missing_pages(rs) * PageSize) ELSE {{}},
         NEW sampled, Forward(rs, E, sampled)
  PROVE  \E C : /\ IsFiniteSet(C) /\ Cardinality(C) \in Nat
                /\ Cardinality(C) <= PagesBefore(rs, Len(rs) + 1)
                /\ HeldPages' \subseteq HeldPages \cup C
<1>1. PICK slots, n : /\ slots = free_slots \o SetToSeq(PagesOf(tree_after_plan, E))
                      /\ n = PagesBefore(rs, Len(rs) + 1) /\ n \in Nat
  BY BatchPages
<1>2. Holders' = Holders /\ \A v \in Holders : RowThen(rs, v) /\ TakesFrom(v, slots, n)
  BY <1>1, ForwardRows DEF Moved
<1>3. PICK C : C = {slots[j] : j \in 1 .. n}
  OBVIOUS
<1>4. IsFiniteSet(C) /\ Cardinality(C) <= n
  <2>1. IsFiniteSet(1 .. n) /\ Cardinality(1 .. n) = n
    <3>1. 1 \in Int /\ n \in Int
      BY <1>1
    <3>2. IsFiniteSet(1 .. n) /\ Cardinality(1 .. n) = IF 1 > n THEN 0 ELSE n - 1 + 1
      BY <3>1, FS_Interval
    <3> QED BY <1>1, <3>2
  <2>2. PICK f : f = [j \in 1 .. n |-> slots[j]]
    OBVIOUS
  <2>3. f \in Surjection(1 .. n, C)
    BY <1>3, <2>2 DEF Surjection
  <2> QED BY <2>1, <2>3, FS_Surjection
<1>5. ASSUME NEW p \in HeldPages' PROVE p \in HeldPages \cup C
  <2>1. PICK v \in Holders : \E i \in 1 .. Len(Row(v)') : p = Row(v)'[i]
    BY <1>2 DEF HeldPages
  <2>2. PICK i \in 1 .. Len(Row(v)') : p = Row(v)'[i]
    BY <2>1
  <2>3. CASE i \in 1 .. Len(Row(v))
    <3>1. p = Row(v)[i]
      BY <1>2, <2>2, <2>3 DEF RowThen
    <3> QED BY <2>3, <3>1 DEF HeldPages
  <2>4. CASE i \notin 1 .. Len(Row(v))
    BY <1>2, <1>3, <2>2, <2>4 DEF TakesFrom
  <2> QED BY <2>3, <2>4
<1>6. Cardinality(C) \in Nat
  BY <1>4, FS_CardinalityType
<1> QED BY <1>1, <1>4, <1>5, <1>6

\* The queue after a pass: the chunk first, then what was not reached.
LEMMA AfterPlan ==
  ASSUME ControlInv, Planning, adder.reqs # <<>>, pending_list' = pending_after_plan
  PROVE  \A i \in 1 .. Len(pending_list') :
           \/ i \in 1 .. Len(adder.chunked_list) /\ pending_list'[i] = adder.chunked_list[i]
           \/ \E j \in 1 .. Len(pending_list) : j # 1 /\ pending_list'[i] = pending_list[j]
<1>1. /\ pending_list \in Seq(PendingReqs) /\ adder.chunked_list \in Seq(PendingReqs)
      /\ adder.reqs \in Seq(Taken)
  BY DEF ControlInv, PlanOK, PlanTypes, ControlTypes
<1>2. PICK m \in Nat, n \in Nat, c \in Seq(PendingReqs), k \in Nat :
         /\ m = Len(adder.reqs) /\ n = Len(pending_list) /\ c = adder.chunked_list /\ k = Len(c) /\ m > 0
  BY <1>1
<1>3. PICK rest : rest = SubSeq(pending_list, m + 1, n)
  OBVIOUS
<1>4. rest \in Seq(PendingReqs) /\ \A j \in 1 .. Len(rest) : j + m \in 1 .. n /\ rest[j] = pending_list[j + m]
  BY <1>1, <1>2, <1>3
<1>5. pending_list' = c \o rest
  BY <1>2, <1>3 DEF pending_after_plan
<1>6. ASSUME NEW i \in 1 .. Len(c \o rest)
      PROVE  \/ i \in 1 .. k /\ (c \o rest)[i] = c[i]
             \/ i - k \in 1 .. Len(rest) /\ (c \o rest)[i] = rest[i - k]
  BY <1>2, <1>4
<1>7. ASSUME NEW i \in 1 .. Len(pending_list')
      PROVE  \/ i \in 1 .. Len(adder.chunked_list) /\ pending_list'[i] = adder.chunked_list[i]
             \/ \E j \in 1 .. Len(pending_list) : j # 1 /\ pending_list'[i] = pending_list[j]
  <2>1. CASE i \in 1 .. k /\ (c \o rest)[i] = c[i]
    BY <1>2, <1>5, <2>1
  <2>2. CASE i - k \in 1 .. Len(rest) /\ (c \o rest)[i] = rest[i - k]
    <3>1. PICK q \in 1 .. Len(rest) : q = i - k
      BY <2>2
    <3>2. PICK j : j = q + m
      OBVIOUS
    <3>3. j \in 1 .. n /\ rest[q] = pending_list[j]
      BY <1>4, <3>2
    <3>4. j # 1
      BY <1>2, <3>1, <3>2
    <3> QED BY <1>2, <1>5, <2>2, <3>1, <3>3, <3>4
  <2> QED BY <1>5, <1>6, <2>1, <2>2
<1> QED BY <1>7

\* A chunk is queued again ahead of everyone.
LEMMA LaunchQueue ==
  ASSUME ControlInv, pc = "plan", ChunkFirst, PlanSpent, pending_list' = pending_after_plan,
         \A v \in Uids : req'[v].table_idx = req[v].table_idx /\ req'[v].output_len = req[v].output_len
  PROVE  ChunkFirst'
<1>1. /\ pending_list \in Seq(PendingReqs) /\ adder.chunked_list \in Seq(PendingReqs)
  BY DEF ControlInv, PlanOK, PlanTypes, ControlTypes, Planning
<1>2. ASSUME NEW i \in 1 .. Len(pending_list')
      PROVE  \E p \in PendingReqs : /\ p = pending_list'[i] /\ (p.chunked => i = 1)
                                    /\ Held(p.uid) => p.output_len = req[p.uid].output_len
  <2>1. CASE adder.reqs = <<>>
    <3>1. pending_list' = pending_list
      BY <2>1 DEF pending_after_plan
    <3>2. pending_list[i] \in PendingReqs
      BY <1>1, <3>1
    <3> QED BY <3>1, <3>2 DEF ChunkFirst
  <2>2. CASE adder.reqs # <<>>
    <3>1. CASE i \in 1 .. Len(adder.chunked_list) /\ pending_list'[i] = adder.chunked_list[i]
      <4>1. Len(adder.chunked_list) = 1
        BY <1>1, <3>1 DEF PlanSpent, Planning
      <4>2. i = 1
        BY <3>1, <4>1
      <4>3. adder.chunked_list[i] \in PendingReqs
        BY <1>1, <3>1
      <4> QED BY <3>1, <4>2, <4>3 DEF PlanSpent, Planning
    <3>2. CASE \E j \in 1 .. Len(pending_list) : j # 1 /\ pending_list'[i] = pending_list[j]
      <4>1. PICK j \in 1 .. Len(pending_list) : j # 1 /\ pending_list'[i] = pending_list[j]
        BY <3>2
      <4>2. pending_list[j] \in PendingReqs
        BY <1>1
      <4> QED BY <4>1, <4>2 DEF ChunkFirst
    <3> QED BY <2>2, <3>1, <3>2, AfterPlan DEF Planning
  <2> QED BY <2>1, <2>2
<1>3. ASSUME NEW i \in 1 .. Len(pending_list')
      PROVE  /\ pending_list'[i].chunked => i = 1
             /\ req'[pending_list'[i].uid].table_idx # NoTable =>
                  pending_list'[i].output_len = req'[pending_list'[i].uid].output_len
  <2>1. PICK p \in PendingReqs : /\ p = pending_list'[i] /\ (p.chunked => i = 1)
                                 /\ Held(p.uid) => p.output_len = req[p.uid].output_len
    BY <1>2
  <2>2. p.uid \in Uids
    BY DEF PendingReqs
  <2> QED BY <2>1, <2>2 DEF Held
<1> QED BY <1>3 DEF ChunkFirst, Held

\* A request of the batch has computed every token it had.
LaunchedSizes(rs, v) ==
    /\ req'[v].table_idx = req[v].table_idx /\ req'[v].output_len = req[v].output_len
    /\ IF v \in Batch(rs)
       THEN req'[v].cached_len = req[v].device_len /\ req'[v].device_len = req[v].device_len + 1
       ELSE req'[v].cached_len = req[v].cached_len /\ req'[v].device_len = req[v].device_len

\* What a launch does to every request's sizes.
LEMMA SizesLaunched ==
  ASSUME ControlInv, pc = "plan", NEW rs \in Planned, NEW E, NEW sampled, Forward(rs, E, sampled)
  PROVE  /\ \A v \in Uids : LaunchedSizes(rs, v)
         /\ running_reqs' \subseteq running_reqs \cup Batch(rs)
<1>1. /\ \A i \in 1 .. Len(rs) :
            req'[rs[i].uid] = [req[rs[i].uid] EXCEPT !.cached_len = req[rs[i].uid].device_len,
                                                     !.device_len = @ + 1]
      /\ \A u \in Uids : (\A i \in 1 .. Len(rs) : rs[i].uid # u) => req'[u] = req[u]
  BY ForwardUpdates DEF Launched
<1>2. req \in [Uids -> Reqs]
  BY DEF ControlInv, ControlTypes
<1>3. ASSUME NEW v \in Uids PROVE LaunchedSizes(rs, v)
  <2>1. CASE v \in Batch(rs)
    <3>1. req'[v] = [req[v] EXCEPT !.cached_len = req[v].device_len, !.device_len = @ + 1]
      BY <1>1, <2>1 DEF Batch
    <3>2. req[v] \in Reqs
      BY <1>2
    <3> QED BY <2>1, <3>1, <3>2 DEF Reqs, LaunchedSizes
  <2>2. CASE v \notin Batch(rs)
    <3>1. req'[v] = req[v]
      BY <1>1, <2>2 DEF Batch
    <3> QED BY <2>2, <3>1 DEF LaunchedSizes
  <2> QED BY <2>1, <2>2
<1>4. running_reqs' \subseteq running_reqs \cup Batch(rs)
  BY Zenon DEF Forward, Batch
<1> QED BY <1>3, <1>4

\* A holder's end is a length.
EndingFacts == \A u \in Holders : Ending_len(u) \in Nat

\* In this state ...
LEMMA EndingIs == ControlInv /\ StreamInv => EndingFacts
BY RoomIs DEF EndingFacts

\* ... and in the next.
LEMMA EndingThen == ControlInv' /\ StreamInv' => EndingFacts'
BY EndingIs, PTL

\* What the batch takes is counted no more.
LEMMA LaunchNeeds ==
  ASSUME ControlInv, StreamInv, ControlInv', StreamInv', DecodesNext, pc = "plan", NEW rs \in Planned,
         Holders' = Holders, \A v \in Uids : LaunchedSizes(rs, v),
         running_reqs' \subseteq running_reqs \cup Batch(rs), \A v \in Uids : Queued(v)' => Queued(v)
  PROVE  /\ DecodesNext'
         /\ Cardinality(Needs(Promised)') + PagesBefore(rs, Len(rs) + 1) <= Cardinality(Needs(Promised))
<1>1. PICK U, V, B, f, g, m :
         /\ U = Promised /\ V = Promised' /\ B = Batch(rs) /\ f = Rooms /\ g = Rooms'
         /\ m = CeilPages(ConfigMaxSeqLen) /\ m \in Nat
  BY PromisedAre DEF PromisedFacts
<1>2. PICK n : n = [u \in B |-> new_pages(u)]
  OBVIOUS
<1>3. /\ B \in SUBSET U /\ PagesBefore(rs, Len(rs) + 1) \in Nat
      /\ \A u \in B : new_pages(u) \in Nat /\ new_pages(u) <= Room(u)
      /\ Cardinality(Cells(B, n)) \in Nat /\ PagesBefore(rs, Len(rs) + 1) <= Cardinality(Cells(B, n))
  BY <1>1, <1>2, BatchNeeds
<1>4. /\ U \subseteq Holders /\ V \subseteq Holders /\ Holders \subseteq Uids /\ IsFiniteSet(U)
      /\ Needs(Promised) = Cells(U, f) /\ Needs(Promised)' = Cells(V, g)
      /\ \A u \in Holders : /\ f[u] = Room(u) /\ f[u] \in 0 .. m
                            /\ g[u] = Room(u)' /\ g[u] \in 0 .. m
  <2>1. PromisedFacts /\ PromisedFacts'
    BY PromisedAre, PromisedThen
  <2>2. Needs(Promised)' = Cells(V, g)
    BY <1>1, <2>1 DEF PromisedFacts, Cells
  <2> QED BY <1>1, <2>1, <2>2 DEF PromisedFacts
<1>5. running_reqs \subseteq U /\ running_reqs' \subseteq V /\ running_reqs \subseteq Uids
  BY <1>1, <1>4 DEF Promised
<1>6. DecodesNext'
  <2> SUFFICES ASSUME NEW v \in running_reqs' PROVE req'[v].device_len = req'[v].cached_len + 1
    BY DEF DecodesNext
  <2>1. v \in Uids /\ LaunchedSizes(rs, v) /\ (v \in running_reqs \/ v \in Batch(rs))
    BY <1>1, <1>3, <1>4, <1>5
  <2> QED BY <2>1 DEF LaunchedSizes, DecodesNext
<1>7. ASSUME NEW v \in V
      PROVE  v \in U /\ g[v] \in Nat /\ g[v] <= f[v] - (IF v \in B THEN n[v] ELSE 0)
  <2>1. v \in Holders /\ v \in Uids /\ LaunchedSizes(rs, v) /\ (v \in running_reqs' \/ Queued(v)')
    BY <1>1, <1>4 DEF Promised
  <2>2. v \in U
    BY <1>1, <1>3, <2>1 DEF Promised
  <2>3. PICK e \in Nat, d \in Nat, c \in Nat : /\ e = Ending_len(v) /\ c = req[v].cached_len
                                              /\ d = req[v].device_len /\ c <= e
    BY <2>1, RoomIs
  <2>4. PICK e2 \in Nat : e2 = Ending_len(v)' /\ e2 <= e
    <3>1. max_device_len(v)' = max_device_len(v) /\ max_device_len(v) \in Nat
      BY <2>1, RoomIs DEF max_device_len, LaunchedSizes
    <3>2. CASE v \in running_reqs'
      <4>1. Ending_len(v)' = max_device_len(v) - 1
        BY <3>1, <3>2 DEF Ending_len
      <4>2. Ending_len(v)' \in Nat
        BY <2>1, EndingThen DEF EndingFacts
      <4>3. Ending_len(v) = max_device_len(v) \/ Ending_len(v) = max_device_len(v) - 1
        BY DEF Ending_len
      <4> QED BY <2>3, <3>1, <4>1, <4>2, <4>3
    <3>3. CASE v \notin running_reqs'
      <4>1. Queued(v)
        BY <2>1, <3>3
      <4>2. v \notin running_reqs
        BY <4>1 DEF ControlInv, RunningOK
      <4> QED BY <2>3, <3>1, <3>3, <4>2 DEF Ending_len
    <3> QED BY <3>2, <3>3
  <2>5. CeilPages(e) \in Nat /\ CeilPages(c) \in Nat /\ CeilPages(e2) \in Nat /\ CeilPages(d) \in Nat
        /\ CeilPages(e2) <= CeilPages(e)
    BY <2>3, <2>4, CeilIs, CeilOrder
  <2>6. f[v] = CeilPages(e) - CeilPages(c)
    BY <1>4, <2>1, <2>3 DEF Room
  <2>7. CASE v \in B
    <3>1. g[v] = CeilPages(e2) - CeilPages(d)
      BY <1>1, <1>4, <2>1, <2>3, <2>4, <2>7 DEF Room, LaunchedSizes
    <3>2. n[v] = CeilPages(d) - CeilPages(c)
      BY <1>2, <2>3, <2>7 DEF new_pages
    <3> QED BY <1>4, <2>1, <2>2, <2>5, <2>6, <2>7, <3>1, <3>2
  <2>8. CASE v \notin B
    <3>1. g[v] = CeilPages(e2) - CeilPages(c)
      BY <1>1, <1>4, <2>1, <2>3, <2>4, <2>8 DEF Room, LaunchedSizes
    <3> QED BY <1>4, <2>1, <2>2, <2>5, <2>6, <2>8, <3>1
  <2> QED BY <2>7, <2>8
<1>8. /\ Cardinality(Cells(V, g)) + Cardinality(Cells(B, n)) <= Cardinality(Cells(U, f))
      /\ Cardinality(Cells(V, g)) \in Nat /\ Cardinality(Cells(U, f)) \in Nat
  <2>1. \A u \in U : f[u] \in 0 .. m
    BY <1>4
  <2>2. \A u \in B : n[u] \in Nat /\ n[u] <= f[u]
    BY <1>2, <1>3, <1>4
  <2>3. V \in SUBSET U
    BY <1>7
  <2>4. \A u \in V : g[u] \in Nat /\ g[u] <= f[u] - (IF u \in B THEN n[u] ELSE 0)
    BY <1>7
  <2> QED BY <1>1, <1>3, <1>4, <2>1, <2>2, <2>3, <2>4, CellsUsed
<1> QED BY <1>3, <1>4, <1>6, <1>8

\* A launch takes what its batch was promised.
LEMMA LaunchCapacity ==
  ASSUME ControlInv, StreamInv, MemoryInv, ControlInv', StreamInv', CapacityInv, Launch
  PROVE  CapacityInv'
<1>1. pc = "plan" /\ pc' = "drain" /\ num_pages' = num_pages
  BY LaunchUpdates
<1>2. Planning /\ ~Planning'
  BY <1>1 DEF Planning
<1>3. pending_list' = pending_after_plan
  BY Zenon DEF Launch
<1>4. PICK rs \in Planned :
        \E E \in IF missing_pages(rs) > 0
                 THEN Evictions(tree_after_plan, missing_pages(rs) * PageSize) ELSE {{}} :
          \E sampled : Forward(rs, E, sampled)
  BY Zenon DEF Launch
<1>5. PICK E \in IF missing_pages(rs) > 0
                 THEN Evictions(tree_after_plan, missing_pages(rs) * PageSize) ELSE {{}} :
        \E sampled : Forward(rs, E, sampled)
  BY <1>4
<1>6. PICK sampled : Forward(rs, E, sampled)
  BY <1>5
<1>7. Holders' = Holders
  BY <1>1, <1>6, ForwardRows DEF Moved
<1>8. (\A v \in Uids : LaunchedSizes(rs, v)) /\ running_reqs' \subseteq running_reqs \cup Batch(rs)
  BY <1>1, <1>6, SizesLaunched
<1>9. \A v \in Uids : Queued(v)' => Queued(v)
  <2>1. CASE adder.reqs = <<>>
    <3>1. pending_list' = pending_list
      BY <1>3, <2>1 DEF pending_after_plan
    <3> QED BY <3>1 DEF Queued
  <2>2. CASE adder.reqs # <<>>
    <3>1. PICK Us : Us = {adder.reqs[i].uid : i \in 1 .. Len(adder.reqs)}
      OBVIOUS
    <3> QED BY <1>1, <1>3, <2>2, <3>1, QueueAfterPlan
  <2> QED BY <2>1, <2>2
<1>10. DecodesNext'
       /\ Cardinality(Needs(Promised)') + PagesBefore(rs, Len(rs) + 1) <= Cardinality(Needs(Promised))
  BY <1>1, <1>7, <1>8, <1>9, LaunchNeeds DEF CapacityInv
<1>11. RoomForAll'
  <2>1. PICK C : /\ IsFiniteSet(C) /\ Cardinality(C) \in Nat
                 /\ Cardinality(C) <= PagesBefore(rs, Len(rs) + 1)
                 /\ HeldPages' \subseteq HeldPages \cup C
    BY <1>1, <1>6, LaunchTakes
  <2>2. PICK D : D = {}
    OBVIOUS
  <2>3. Cardinality(D) = 0 /\ D \in SUBSET HeldPages /\ HeldPages' \subseteq (HeldPages \ D) \cup C
    BY <2>1, <2>2, FS_EmptySet
  <2>4. Cardinality(Needs(Promised)) \in Nat /\ Cardinality(Needs(Promised)') \in Nat
    BY PromisedAre, PromisedThen DEF PromisedFacts
  <2>5. PagesBefore(rs, Len(rs) + 1) \in Nat
    BY <1>1, BatchPages
  <2>6. Cardinality(Needs(Promised)') + Cardinality(C) <= Cardinality(Needs(Promised)) + Cardinality(D)
    BY <1>10, <2>1, <2>3, <2>4, <2>5
  <2> QED BY <1>1, <2>1, <2>3, <2>6, PromisesKept DEF CapacityInv
<1>12. ChunkFirst'
  BY <1>1, <1>3, <1>8, LaunchQueue DEF CapacityInv, LaunchedSizes
<1> QED BY <1>2, <1>10, <1>11, <1>12, NoPlan DEF CapacityInv

\* Nobody holds a row when the scheduler starts.
LEMMA InitCapacity == Init => CapacityInv
<1> SUFFICES ASSUME Init PROVE CapacityInv
  OBVIOUS
<1>1. running_reqs = {} /\ pending_list = <<>> /\ ~Planning
  BY DEF Init, Planning
<1>2. Promised = {}
  BY <1>1 DEF Promised, Queued
<1>3. Needs(Promised) = {}
  BY <1>2 DEF Needs
<1>4. Cardinality(Needs(Promised)) = 0
  BY <1>3, FS_EmptySet
<1>5. PoolFacts
  BY InitInv, InitMemory, PoolIs
<1>6. RoomForAll
  BY <1>4, <1>5 DEF RoomForAll, PoolFacts
<1> QED BY <1>1, <1>6 DEF CapacityInv, DecodesNext, ChunkFirst, PlanSpent, PlanReserved

\* Every step of the scheduler keeps its promises.
LEMMA NextCapacity ==
  ASSUME ControlInv, ContractInv, StreamInv, MemoryInv, ContentInv, CapacityInv,
         ControlInv', StreamInv', MemoryInv', ContentInv', [Next]_vars
  PROVE  CapacityInv'
<1>1. CASE Receive
  <2>1. CASE (\E u \in Uids : UserAborted(u) \/ UserTooLong(u)) \/ \E n \in RebuildSizes : RebuildReceived(n)
    BY <2>1, UserCapacity
  <2>2. CASE \E u \in Uids : UserQueued(u)
    BY <2>2, QueuedCapacity
  <2>3. CASE \E u \in Uids : AbortUnheld(u) \/ AbortInFlight(u) \/ AbortHeld(u)
    BY <2>3, AbortCapacity
  <2> QED BY <1>1, <2>1, <2>2, <2>3, Zenon DEF Receive
<1>2. CASE EndReceive \/ RebuildRejected \/ RebuildDone
  BY <1>2, ReceivedCapacity
<1>3. CASE AdmitContinuation
  BY <1>3, ContinuationCapacity
<1>4. CASE AdmitFresh
  BY <1>4, FreshCapacity
<1>5. CASE ChunkMultimodal \/ NoLaunch \/ EndIteration
  BY <1>5, NoLaunchCapacity
<1>6. CASE Launch
  BY <1>6, LaunchCapacity
<1>7. CASE DrainChunk \/ DrainAborted \/ DrainStale \/ DrainFinished \/ DrainDecoded
  BY <1>7, VisitCapacity
<1>8. CASE DrainPrefilled
  BY <1>8, PrefilledCapacity
<1>9. CASE Quiescent \/ UNCHANGED vars
  <2>1. UNCHANGED vars
    BY <1>9 DEF Quiescent
  <2> QED BY <2>1, StutterCapacity
<1> QED BY <1>1, <1>2, <1>3, <1>4, <1>5, <1>6, <1>7, <1>8, <1>9, Zenon DEF Next, Loop

\* What was promised to the running and the half-prefilled requests is there:
\* the pages no row leads to cover it, through every admission, forward, commit,
\* abort, finish and rebuild.
THEOREM CapacityInvariant == Spec => []CapacityInv
<1>1. Init => CapacityInv
  BY InitCapacity
<1>2. ControlInv /\ ContractInv /\ StreamInv /\ MemoryInv /\ ContentInv /\ CapacityInv
        /\ ControlInv' /\ StreamInv' /\ MemoryInv' /\ ContentInv' /\ [Next]_vars => CapacityInv'
  BY NextCapacity
<1> QED BY <1>1, <1>2, ControlInvariant, ContractInvariant, StreamInvariant, MemoryInvariant,
           ContentInvariant, PTL DEF Spec

\* allocate_paged never meets its out-of-memory assertion: the token reservation
\* of prefill.py covers the pages every planned batch takes, pages being whole
\* and prefixes shared.
THEOREM AllocationAlwaysSucceeds == Spec => []AllocationSucceeds
<1>1. ControlInv /\ StreamInv /\ MemoryInv /\ ContentInv /\ CapacityInv => AllocationSucceeds
  BY CapacitySuffices
<1> QED BY <1>1, ControlInvariant, StreamInvariant, MemoryInvariant, ContentInvariant,
           CapacityInvariant, PTL
===============================================================================
