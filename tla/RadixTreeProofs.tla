---------------------------- MODULE RadixTreeProofs ----------------------------
(***************************************************************************)
(* What the operations of kvcache/radix_cache.py do to a tree, for every   *)
(* tree and every page size: each keeps it WellFormed, and lookup, insert, *)
(* lock, unlock and eviction change blocks, pages and ref counts exactly   *)
(* where the callers (CacheManager) rely on it.                            *)
(***************************************************************************)
EXTENDS RadixTree, FunctionTheorems, FiniteSetTheorems, SequenceTheorems, WellFoundedInduction, TLAPS

(***************************************************************************)
(* Prefixes.                                                               *)
(***************************************************************************)

LEMMA IsPrefixDef ==
  ASSUME NEW S, NEW s \in Seq(S), NEW t \in Seq(S)
  PROVE  IsPrefix(s, t) <=> Len(s) <= Len(t) /\ \A i \in 1 .. Len(s) : s[i] = t[i]
<1>1. Len(s) \in Nat /\ Len(t) \in Nat
  OBVIOUS
<1>2. CASE ~(Len(s) <= Len(t))
  BY <1>2 DEF IsPrefix
<1>3. CASE Len(s) <= Len(t)
  <2> DEFINE a == SubSeq(s, 1, Len(s))
             b == SubSeq(t, 1, Len(s))
  <2>1. /\ a \in Seq(S) /\ Len(a) = Len(s) /\ \A i \in 1 .. Len(s) : a[i] = s[i]
        /\ b \in Seq(S) /\ Len(b) = Len(s) /\ \A i \in 1 .. Len(s) : b[i] = t[i]
    BY <1>1, <1>3
  <2>2. a = b <=> \A i \in 1 .. Len(s) : a[i] = b[i]
    <3> HIDE DEF a, b
    <3> QED BY <2>1, SeqEqual
  <2> QED BY <1>3, <2>1, <2>2 DEF IsPrefix
<1> QED BY <1>2, <1>3

(* What Prefix(s, n) is: the first n entries of s, one of its prefixes. *)
LEMMA PrefixProperties ==
  ASSUME NEW S, NEW s \in Seq(S), NEW n \in 0 .. Len(s)
  PROVE  /\ Prefix(s, n) \in Seq(S) /\ Len(Prefix(s, n)) = n
         /\ \A i \in 1 .. n : Prefix(s, n)[i] = s[i]
         /\ IsPrefix(Prefix(s, n), s)
<1>1. /\ Prefix(s, n) \in Seq(S) /\ Len(Prefix(s, n)) = n
      /\ \A i \in 1 .. n : Prefix(s, n)[i] = s[i]
  BY DEF Prefix
<1> QED BY <1>1, IsPrefixDef

\* The prefix order of token sequences: all that the tree's structure rests on.
LEMMA PrefixRefl ==
  ASSUME NEW S, NEW s \in Seq(S)
  PROVE  IsPrefix(s, s)
BY IsPrefixDef

(* A prefix of a prefix of c is a prefix of c. *)
LEMMA PrefixTrans ==
  ASSUME NEW S, NEW a \in Seq(S), NEW b \in Seq(S), NEW c \in Seq(S),
         IsPrefix(a, b), IsPrefix(b, c)
  PROVE  IsPrefix(a, c)
<1>1. /\ Len(a) <= Len(b) /\ \A i \in 1 .. Len(a) : a[i] = b[i]
      /\ Len(b) <= Len(c) /\ \A i \in 1 .. Len(b) : b[i] = c[i]
      /\ Len(a) \in Nat /\ Len(b) \in Nat /\ Len(c) \in Nat
  BY IsPrefixDef
<1>2. Len(a) <= Len(c) /\ \A i \in 1 .. Len(a) : a[i] = c[i]
  BY ONLY <1>1
<1> QED BY <1>2, IsPrefixDef

(* A prefix at least as long as the whole is the whole. *)
LEMMA PrefixSameLength ==
  ASSUME NEW S, NEW a \in Seq(S), NEW b \in Seq(S), IsPrefix(a, b), Len(b) <= Len(a)
  PROVE  a = b
<1>1. /\ Len(a) <= Len(b) /\ \A i \in 1 .. Len(a) : a[i] = b[i]
      /\ Len(a) \in Nat /\ Len(b) \in Nat
  BY IsPrefixDef
<1>2. Len(a) = Len(b)
  BY <1>1
<1> QED BY <1>1, <1>2, SeqEqual

(* A prefix is no longer than what it is a prefix of. *)
LEMMA PrefixLength ==
  ASSUME NEW S, NEW a \in Seq(S), NEW b \in Seq(S), IsPrefix(a, b)
  PROVE  Len(a) <= Len(b) /\ Len(a) \in Nat /\ Len(b) \in Nat
BY IsPrefixDef

(* Of two prefixes of one sequence, the shorter is a prefix of the longer. *)
LEMMA PrefixChain ==
  ASSUME NEW S, NEW a \in Seq(S), NEW b \in Seq(S), NEW c \in Seq(S),
         IsPrefix(a, c), IsPrefix(b, c), Len(a) <= Len(b)
  PROVE  IsPrefix(a, b)
<1>1. /\ Len(a) <= Len(c) /\ \A i \in 1 .. Len(a) : a[i] = c[i]
      /\ Len(b) <= Len(c) /\ \A i \in 1 .. Len(b) : b[i] = c[i]
      /\ Len(a) \in Nat /\ Len(b) \in Nat /\ Len(c) \in Nat
  BY IsPrefixDef
<1>2. Len(a) <= Len(b) /\ \A i \in 1 .. Len(a) : a[i] = b[i]
  BY ONLY <1>1, Len(a) <= Len(b)
<1> QED BY <1>2, IsPrefixDef

\* A prefix is the cut of the longer sequence at its length.
LEMMA PrefixIsCut ==
  ASSUME NEW S, NEW a \in Seq(S), NEW b \in Seq(S), IsPrefix(a, b)
  PROVE  a = Prefix(b, Len(a)) /\ Len(a) \in 0 .. Len(b)
<1>1. Len(a) \in 0 .. Len(b)
  BY PrefixLength
<1>2. /\ Prefix(b, Len(a)) \in Seq(S) /\ Len(Prefix(b, Len(a))) = Len(a)
      /\ IsPrefix(Prefix(b, Len(a)), b)
  BY <1>1, PrefixProperties
<1>3. PICK c \in Seq(S) : c = Prefix(b, Len(a))
  BY <1>2
<1>4. IsPrefix(a, c) /\ Len(c) <= Len(a)
  <2>1. Len(a) <= Len(c) /\ Len(c) <= Len(a)
    BY <1>1, <1>2, <1>3
  <2> QED BY <1>2, <1>3, <2>1, PrefixChain
<1> QED BY <1>1, <1>3, <1>4, PrefixSameLength

(* Cutting twice is cutting once, at the smaller length. *)
LEMMA PrefixOfPrefix ==
  ASSUME NEW S, NEW s \in Seq(S), NEW n \in 0 .. Len(s), NEW m \in 0 .. n
  PROVE  Prefix(Prefix(s, n), m) = Prefix(s, m)
<1>1. m \in 0 .. Len(s) /\ Len(s) \in Nat
  OBVIOUS
<1>2. PICK a : /\ a = Prefix(s, m) /\ a \in Seq(S) /\ Len(a) = m
               /\ \A i \in 1 .. m : a[i] = s[i]
  <2>1. /\ Prefix(s, m) \in Seq(S) /\ Len(Prefix(s, m)) = m
        /\ \A i \in 1 .. m : Prefix(s, m)[i] = s[i]
    BY ONLY <1>1, PrefixProperties, s \in Seq(S)
  <2> QED BY ONLY <2>1, Zenon
<1>3. PICK b : /\ b = Prefix(s, n) /\ b \in Seq(S) /\ Len(b) = n
               /\ \A i \in 1 .. n : b[i] = s[i]
  <2>1. /\ Prefix(s, n) \in Seq(S) /\ Len(Prefix(s, n)) = n
        /\ \A i \in 1 .. n : Prefix(s, n)[i] = s[i]
    BY ONLY PrefixProperties, s \in Seq(S), n \in 0 .. Len(s)
  <2> QED BY ONLY <2>1, Zenon
<1>4. PICK c : /\ c = Prefix(b, m) /\ c \in Seq(S) /\ Len(c) = m
               /\ \A i \in 1 .. m : c[i] = b[i]
  <2>1. /\ Prefix(b, m) \in Seq(S) /\ Len(Prefix(b, m)) = m
        /\ \A i \in 1 .. m : Prefix(b, m)[i] = b[i]
    BY ONLY <1>3, PrefixProperties, b \in Seq(S), m \in 0 .. n
  <2> QED BY ONLY <2>1, Zenon
<1>5. \A i \in 1 .. m : c[i] = a[i]
  BY <1>1, <1>2, <1>3, <1>4
<1>6. c = a
  BY <1>2, <1>4, <1>5, SeqEqual
<1> QED BY ONLY <1>2, <1>3, <1>4, <1>6

(* The empty prefix is a prefix of everything, and only <<>> is a prefix of
   it. *)
LEMMA PrefixEmpty ==
  ASSUME NEW S, NEW s \in Seq(S)
  PROVE  /\ <<>> \in Seq(S) /\ IsPrefix(<<>>, s) /\ Prefix(s, 0) = <<>>
         /\ IsPrefix(s, <<>>) => s = <<>>
<1>1. <<>> \in Seq(S) /\ Len(<<>>) = 0
  OBVIOUS
<1>2. IsPrefix(<<>>, s)
  <2>1. PICK e \in Seq(S) : e = <<>> /\ Len(e) = 0
    BY <1>1
  <2>2. Len(s) \in Nat
    OBVIOUS
  <2>3. Len(e) <= Len(s) /\ \A i \in 1 .. Len(e) : e[i] = s[i]
    BY ONLY <2>1, <2>2
  <2>4. IsPrefix(e, s)
    BY <2>3, IsPrefixDef
  <2> QED BY <2>1, <2>4
<1>3. IsPrefix(s, <<>>) => s = <<>>
  <2>1. IsPrefix(s, <<>>) => Len(s) <= 0 /\ Len(s) \in Nat
    BY <1>1, PrefixLength
  <2> QED BY <2>1, EmptySeq
<1>4. Prefix(s, 0) = <<>>
  BY DEF Prefix
<1> QED BY <1>1, <1>2, <1>3, <1>4

(***************************************************************************)
(* A tree over tokens S and pages P.                                       *)
(***************************************************************************)

IsTree(tr, S, P) ==
    /\ tr = [page |-> tr.page, ref |-> tr.ref]
    /\ Blocks(tr) \subseteq Seq(S)
    /\ tr.page \in [Blocks(tr) -> P] /\ tr.ref \in [Nodes(tr) -> Nat]
    /\ WellFormed(tr)

(* What a tree says of one block: it is a non-empty, page-aligned sequence,
   its aligned prefixes are blocks, and it has a page. *)
LEMMA BlockFacts ==
  ASSUME NEW S, NEW P, NEW tr, IsTree(tr, S, P), NEW b \in Blocks(tr)
  PROVE  /\ b \in Seq(S) /\ Len(b) \in Nat \ {0} /\ Len(b) % PageSize = 0 /\ b # <<>>
         /\ \A n \in 1 .. Len(b) : n % PageSize = 0 => Prefix(b, n) \in Blocks(tr)
         /\ tr.page[b] \in P
<1>1. b \in Seq(S) /\ Len(b) > 0 /\ Len(b) % PageSize = 0
  BY DEF IsTree, WellFormed
<1>2. \A n \in 1 .. Len(b) : n % PageSize = 0 => Prefix(b, n) \in Blocks(tr)
  BY DEF IsTree, WellFormed
<1>3. Len(b) \in Nat \ {0} /\ b # <<>>
  BY <1>1
<1> QED BY <1>1, <1>2, <1>3 DEF IsTree

\* A block above a block is a block: a tree caches whole prefixes.
LEMMA BlockAbove ==
  ASSUME NEW S, NEW P, NEW tr, IsTree(tr, S, P), NEW b \in Blocks(tr),
         NEW c \in Seq(S), IsPrefix(c, b), Len(c) % PageSize = 0, c # <<>>
  PROVE  c \in Blocks(tr)
<1>1. b \in Seq(S) /\ \A n \in 1 .. Len(b) : n % PageSize = 0 => Prefix(b, n) \in Blocks(tr)
  BY BlockFacts
<1>2. c = Prefix(b, Len(c)) /\ Len(c) \in 0 .. Len(b)
  BY <1>1, PrefixIsCut
<1>3. Len(c) # 0
  BY EmptySeq
<1> QED BY <1>1, <1>2, <1>3

\* NodeOf is the end of the block's edge: every node below the block is below it.
LEMMA NodeOfIs ==
  ASSUME NEW S, NEW P, NEW tr, IsTree(tr, S, P), NEW b \in Blocks(tr)
  PROVE  /\ NodeOf(tr, b) \in Nodes(tr) /\ NodeOf(tr, b) \in Blocks(tr)
         /\ NodeOf(tr, b) \in Seq(S)
         /\ IsPrefix(b, NodeOf(tr, b))
         /\ \A m \in Nodes(tr) : IsPrefix(b, m) => IsPrefix(NodeOf(tr, b), m)
<1>1. PICK n \in Nodes(tr) :
         IsPrefix(b, n) /\ \A m \in Nodes(tr) : IsPrefix(b, m) => IsPrefix(n, m)
  BY DEF IsTree, WellFormed
<1>2. Nodes(tr) \subseteq Blocks(tr) /\ Blocks(tr) \subseteq Seq(S)
  BY DEF IsTree, WellFormed
<1>3. \A m \in Nodes(tr) : IsPrefix(b, m) => Len(n) <= Len(m)
  BY <1>1, <1>2, PrefixLength
<1>4. PICK x : x = NodeOf(tr, b)
  OBVIOUS
<1>5. /\ x \in Nodes(tr) /\ IsPrefix(b, x)
      /\ \A m \in Nodes(tr) : IsPrefix(b, m) => Len(x) <= Len(m)
  BY ONLY <1>1, <1>3, <1>4 DEF NodeOf
<1>6. IsPrefix(n, x) /\ Len(x) <= Len(n) /\ n \in Seq(S) /\ x \in Seq(S)
  BY <1>1, <1>2, <1>5
<1>7. n = x
  BY <1>6, PrefixSameLength
<1> QED BY <1>1, <1>2, <1>4, <1>5, <1>7

\* ... and it is what says so.
LEMMA NodeOfUnique ==
  ASSUME NEW S, NEW P, NEW tr, IsTree(tr, S, P), NEW b \in Blocks(tr), NEW n \in Nodes(tr),
         IsPrefix(b, n), \A m \in Nodes(tr) : IsPrefix(b, m) => IsPrefix(n, m)
  PROVE  NodeOf(tr, b) = n
<1>1. PICK x \in Nodes(tr) : /\ x = NodeOf(tr, b) /\ x \in Seq(S) /\ IsPrefix(b, x)
                             /\ \A m \in Nodes(tr) : IsPrefix(b, m) => IsPrefix(x, m)
  BY NodeOfIs
<1>2. n \in Seq(S)
  BY DEF IsTree, WellFormed
<1>3. IsPrefix(x, n) /\ IsPrefix(n, x)
  BY <1>1
<1>4. Len(n) <= Len(x)
  BY <1>1, <1>2, <1>3, PrefixLength
<1> QED BY <1>1, <1>2, <1>3, <1>4, PrefixSameLength

(* The node a node's own path lies in is that node. *)
LEMMA NodeOfNode ==
  ASSUME NEW S, NEW P, NEW tr, IsTree(tr, S, P), NEW n \in Nodes(tr)
  PROVE  NodeOf(tr, n) = n /\ n \in Blocks(tr) /\ n \in Seq(S)
<1>1. n \in Blocks(tr) /\ n \in Seq(S)
  BY DEF IsTree, WellFormed
<1>2. IsPrefix(n, n)
  BY <1>1, PrefixRefl
<1> QED BY <1>1, <1>2, NodeOfUnique

(***************************************************************************)
(* Whole pages.                                                            *)
(***************************************************************************)

LEMMA Multiples ==
  ASSUME NEW i \in Nat
  PROVE  i * PageSize \in Nat /\ (i * PageSize) % PageSize = 0 /\ (i * PageSize) \div PageSize = i
<1>1. PageSize \in Nat \ {0}
  BY PageSizeAssumption
<1>2. i * PageSize \in Nat
  BY <1>1
<1>3. (i * PageSize) \div PageSize = i
  BY <1>1, <1>2
<1>4. (i * PageSize) % PageSize = 0
  BY <1>1, <1>2, <1>3
<1> QED BY <1>2, <1>3, <1>4

(* A page-aligned length is that many whole pages. *)
LEMMA MultipleOf ==
  ASSUME NEW n \in Nat, n % PageSize = 0
  PROVE  n \div PageSize \in Nat /\ n = (n \div PageSize) * PageSize
<1>1. PageSize \in Nat \ {0}
  BY PageSizeAssumption
<1> QED BY <1>1

(* Counting in pages and counting in tokens order lengths the same way. *)
LEMMA MultipleOrder ==
  ASSUME NEW i \in Nat, NEW j \in Nat
  PROVE  /\ i <= j <=> i * PageSize <= j * PageSize
         /\ i < j <=> i * PageSize + PageSize <= j * PageSize
         /\ i < j <=> i * PageSize < j * PageSize
<1>1. PageSize \in Nat \ {0}
  BY PageSizeAssumption
<1>2. i * PageSize \in Nat /\ j * PageSize \in Nat
  BY <1>1
<1>3. ASSUME i < j PROVE i * PageSize + PageSize <= j * PageSize
  <2>1. PICK d \in Nat : j = i + 1 + d
    <3>1. j - i - 1 \in Nat /\ j = i + 1 + (j - i - 1)
      BY <1>3
    <3> QED BY <3>1
  <2>2. d * PageSize \in Nat /\ (i + 1 + d) * PageSize = i * PageSize + PageSize + d * PageSize
    BY <1>1
  <2> QED BY <1>1, <1>2, <2>1, <2>2
<1>4. ASSUME j <= i PROVE j * PageSize <= i * PageSize
  <2>1. PICK d \in Nat : i = j + d
    <3>1. i - j \in Nat /\ i = j + (i - j)
      BY <1>4
    <3> QED BY <3>1
  <2>2. d * PageSize \in Nat /\ (j + d) * PageSize = j * PageSize + d * PageSize
    BY <1>1
  <2> QED BY <1>1, <1>2, <2>1, <2>2
<1>5. i < j \/ j <= i
  OBVIOUS
<1>6. i = j \/ i < j \/ j < i
  OBVIOUS
<1> QED BY <1>1, <1>2, <1>3, <1>4, <1>5, <1>6

(* AlignDown(n) is the greatest page-aligned length up to n. *)
LEMMA AlignDownIs ==
  ASSUME NEW n \in Nat
  PROVE  /\ AlignDown(n) \in 0 .. n /\ AlignDown(n) % PageSize = 0
         /\ AlignDown(n) \div PageSize = n \div PageSize /\ n \div PageSize \in Nat
         /\ \A m \in 0 .. n : m % PageSize = 0 => m <= AlignDown(n)
<1>1. PageSize \in Nat \ {0}
  BY PageSizeAssumption
<1>2. n \div PageSize \in Nat /\ (n \div PageSize) * PageSize \in 0 .. n
      /\ n < (n \div PageSize) * PageSize + PageSize
  BY <1>1
<1>3. AlignDown(n) % PageSize = 0 /\ AlignDown(n) \div PageSize = n \div PageSize
  BY <1>2, Multiples DEF AlignDown
<1>4. ASSUME NEW m \in 0 .. n, m % PageSize = 0 PROVE m <= AlignDown(n)
  <2>1. PICK i \in Nat : m = i * PageSize
    BY <1>4, MultipleOf
  <2>2. PICK j \in Nat : j = n \div PageSize
    BY <1>2
  <2>3. i <= j
    <3>1. SUFFICES ASSUME j < i PROVE FALSE
      OBVIOUS
    <3>2. j * PageSize + PageSize <= i * PageSize
      BY <3>1, MultipleOrder
    <3>3. j * PageSize \in Nat /\ i * PageSize \in Nat
      BY <1>1
    <3> QED BY <1>1, <1>2, <2>1, <2>2, <3>2, <3>3
  <2>4. i * PageSize <= j * PageSize
    BY <2>3, MultipleOrder
  <2> QED BY <2>1, <2>2, <2>4 DEF AlignDown
<1> QED BY <1>2, <1>3, <1>4 DEF AlignDown

\* The minimum of two integers, as UserMsg's budget clamp and the chunk size use it.
LEMMA MinOfTwo ==
  ASSUME NEW a \in Int, NEW b \in Int
  PROVE  Min({a, b}) = IF a <= b THEN a ELSE b
  BY DEF Min

\* align_down never exceeds its argument.
LEMMA AlignDownBound ==
  ASSUME NEW n \in Nat
  PROVE AlignDown(n) \in 0 .. n
  BY PageSizeAssumption DEF AlignDown

\* A nonempty set of naturals below a bound has a maximum: with Max defined by
\* CHOOSE, this is what makes MatchLen's value known.
LEMMA MaxExists ==
  ASSUME NEW S, NEW k \in Nat, S \subseteq 0 .. k, S # {}
  PROVE  Max(S) \in S /\ \A x \in S : Max(S) >= x
<1> DEFINE Bounds == {m \in 0 .. k : S \subseteq 0 .. m}
           T == {0 .. m : m \in Bounds}
<1>1. IsFiniteSet(0 .. k)
  BY FS_Interval
<1>2. T \subseteq FiniteSubsetsOf(0 .. k)
  <2>1. ASSUME NEW m \in 0 .. k PROVE IsFiniteSet(0 .. m) /\ 0 .. m \subseteq 0 .. k
    BY FS_Interval
  <2> QED BY <2>1 DEF FiniteSubsetsOf
<1>3. T # {}
  <2>1. 0 .. k \in T OBVIOUS
  <2> QED BY <2>1
<1>4. IsWellFoundedOn(StrictSubsetOrdering(0 .. k), FiniteSubsetsOf(0 .. k))
  BY FS_StrictSubsetOrderingWellFounded
<1>5. PICK t \in T : \A y \in T : ~(<<y, t>> \in StrictSubsetOrdering(0 .. k))
  <2> HIDE DEF T
  <2> QED BY <1>2, <1>3, <1>4, WFMin
<1>6. PICK m \in 0 .. k : t = 0 .. m /\ S \subseteq 0 .. m
  <2>1. \E m \in Bounds : t = 0 .. m
    <3>1. t \in T BY <1>5
    <3> HIDE DEF Bounds
    <3> QED BY <3>1
  <2> QED BY <2>1
<1>7. m \in S
  <2>1. SUFFICES ASSUME m \notin S PROVE FALSE OBVIOUS
  <2>2. PICK x \in S : x \in 0 .. m /\ x # m
    BY <2>1, <1>6
  <2>3. S \subseteq 0 .. m - 1 BY <2>1, <1>6
  <2>4. 0 .. m - 1 \in T BY <2>2, <2>3
  <2>5. <<0 .. m - 1, t>> \in StrictSubsetOrdering(0 .. k)
     <3>1. 0 .. m-1 # 0 .. m BY <2>2
     <3> QED BY <1>6, <2>2, <3>1 DEF StrictSubsetOrdering
  <2> QED BY <1>5, <2>4, <2>5
<1>8. \E x \in S : \A y \in S : x >= y BY <1>6, <1>7
<1> QED BY <1>8, Zenon DEF Max

\* _tree_walk never matches more than it is given.
LEMMA MatchLenBound ==
  ASSUME NEW tr, NEW S, NEW ids \in Seq(S)
  PROVE  MatchLen(tr, ids) \in 0 .. Len(ids)
<1> DEFINE N == {0} \cup {n \in 1 .. Len(ids) : Prefix(ids, n) \in Blocks(tr)}
<1>1. N \subseteq 0 .. Len(ids) /\ N # {} /\ Len(ids) \in Nat
  OBVIOUS
<1>2. Max(N) \in N
  <2> HIDE DEF N
  <2> QED BY <1>1, MaxExists
<1>3. MatchLen(tr, ids) = Max(N)
  BY DEF MatchLen
<1> QED
  <2> HIDE DEF N
  <2> QED BY <1>1, <1>2, <1>3

\* A prefix of a sequence is a sequence of the length asked for.
LEMMA PrefixType ==
  ASSUME NEW S, NEW ids \in Seq(S), NEW n \in 0 .. Len(ids)
  PROVE  Prefix(ids, n) \in Seq(S) /\ Len(Prefix(ids, n)) = n
  BY DEF Prefix

\* insert_prefix's new handle is a token sequence.
LEMMA InsertPath ==
  ASSUME NEW S, NEW ids \in Seq(S), NEW tr, NEW pages
  PROVE  insert_prefix(tr, ids, pages).path \in Seq(S)
<1>1. AlignDown(Len(ids)) \in 0 .. Len(ids)
  BY AlignDownBound
<1> QED BY <1>1, PrefixType DEF insert_prefix

(***************************************************************************)
(* _tree_walk and split_at.                                                *)
(***************************************************************************)

\* The walk stops at the longest cached prefix, which ends on a page.
LEMMA MatchLenIs ==
  ASSUME NEW S, NEW P, NEW tr, IsTree(tr, S, P), NEW ids \in Seq(S)
  PROVE  /\ MatchLen(tr, ids) \in 0 .. Len(ids) /\ MatchLen(tr, ids) % PageSize = 0
         /\ MatchLen(tr, ids) # 0 => Prefix(ids, MatchLen(tr, ids)) \in Blocks(tr)
         /\ \A n \in 1 .. Len(ids) : Prefix(ids, n) \in Blocks(tr) => n <= MatchLen(tr, ids)
<1> DEFINE N == {0} \cup {n \in 1 .. Len(ids) : Prefix(ids, n) \in Blocks(tr)}
<1>1. N \subseteq 0 .. Len(ids) /\ N # {} /\ Len(ids) \in Nat
  OBVIOUS
<1>2. Max(N) \in N /\ \A x \in N : Max(N) >= x
  <2> HIDE DEF N
  <2> QED BY <1>1, MaxExists
<1>3. MatchLen(tr, ids) = Max(N)
  BY DEF MatchLen
<1>4. PICK k \in 0 .. Len(ids) : k = MatchLen(tr, ids) /\ k \in N /\ \A x \in N : k >= x
  <2> HIDE DEF N
  <2> QED BY <1>1, <1>2, <1>3
<1>5. k # 0 => Prefix(ids, k) \in Blocks(tr)
  BY <1>4
<1>6. k % PageSize = 0
  <2>1. CASE k = 0
    BY <2>1, PageSizeAssumption
  <2>2. CASE k # 0
    <3>1. PICK b \in Blocks(tr) : b = Prefix(ids, k)
      BY <1>5, <2>2
    <3>2. Len(b) = k
      BY <3>1, PrefixType
    <3> QED BY <3>2, BlockFacts
  <2> QED BY <2>1, <2>2
<1>7. \A n \in 1 .. Len(ids) : Prefix(ids, n) \in Blocks(tr) => n <= k
  BY <1>4
<1> QED BY <1>4, <1>5, <1>6, <1>7

\* A block is of the looked-up sequence exactly when the walk passed it.
LEMMA MatchedBlocks ==
  ASSUME NEW S, NEW P, NEW tr, IsTree(tr, S, P), NEW ids \in Seq(S), NEW b \in Blocks(tr),
         IsPrefix(b, ids)
  PROVE  IsPrefix(b, Prefix(ids, MatchLen(tr, ids))) /\ Len(b) <= MatchLen(tr, ids)
<1>1. b \in Seq(S) /\ Len(b) \in Nat \ {0}
  BY BlockFacts
<1>2. b = Prefix(ids, Len(b)) /\ Len(b) \in 0 .. Len(ids)
  BY <1>1, PrefixIsCut
<1>3. PICK k \in 0 .. Len(ids) :
        /\ k = MatchLen(tr, ids)
        /\ \A n \in 1 .. Len(ids) : Prefix(ids, n) \in Blocks(tr) => n <= k
  BY MatchLenIs
<1>4. Len(b) <= k
  <2>1. Len(b) \in 1 .. Len(ids)
    BY <1>1, <1>2
  <2> QED BY <1>2, <1>3, <2>1
<1>5. PICK a \in Seq(S) : a = Prefix(ids, k) /\ Len(a) = k /\ IsPrefix(a, ids)
  BY <1>3, PrefixProperties
<1>6. Len(b) <= Len(a)
  BY <1>4, <1>5
<1>7. IsPrefix(b, a)
  BY <1>1, <1>5, <1>6, PrefixChain
<1> QED BY <1>3, <1>4, <1>5, <1>7

\* Cutting an edge at a block of its key gives every block a closest node again,
\* with the ref_count it had.
LEMMA SplitNode ==
  ASSUME NEW S, NEW P, NEW tr, IsTree(tr, S, P), NEW b \in Blocks(tr), NEW c \in Blocks(tr)
  PROVE  \E n \in Nodes(tr) \cup {b} :
           /\ IsPrefix(c, n) /\ \A m \in Nodes(tr) \cup {b} : IsPrefix(c, m) => IsPrefix(n, m)
           /\ NodeOf(tr, n) = NodeOf(tr, c)
<1>1. PICK x \in Nodes(tr) : /\ x = NodeOf(tr, c) /\ x \in Seq(S) /\ IsPrefix(c, x)
                             /\ \A m \in Nodes(tr) : IsPrefix(c, m) => IsPrefix(x, m)
  BY NodeOfIs
<1>2. PICK y \in Nodes(tr) : /\ y = NodeOf(tr, b) /\ y \in Seq(S) /\ IsPrefix(b, y)
                             /\ \A m \in Nodes(tr) : IsPrefix(b, m) => IsPrefix(y, m)
  BY NodeOfIs
<1>3. b \in Seq(S) /\ c \in Seq(S)
  BY BlockFacts
<1>4. NodeOf(tr, x) = x
  BY NodeOfNode
<1>5. CASE IsPrefix(c, b) /\ IsPrefix(b, x)
  <2>1. IsPrefix(c, y) /\ IsPrefix(x, y) /\ IsPrefix(y, x)
    BY <1>1, <1>2, <1>3, <1>5, PrefixTrans
  <2>2. x = y
    BY <1>1, <1>2, <2>1, PrefixLength, PrefixSameLength
  <2>3. \A m \in Nodes(tr) : IsPrefix(c, m) => IsPrefix(b, m)
    <3>1. ASSUME NEW m \in Nodes(tr), IsPrefix(c, m) PROVE IsPrefix(b, m)
      <4>1. m \in Seq(S) /\ IsPrefix(x, m)
        BY <1>1, <3>1, NodeOfNode
      <4> QED BY <1>1, <1>3, <1>5, <4>1, PrefixTrans
    <3> QED BY <3>1
  <2>4. IsPrefix(b, b)
    BY <1>3, PrefixRefl
  <2> QED BY <1>1, <1>2, <1>5, <2>2, <2>3, <2>4
<1>6. CASE ~(IsPrefix(c, b) /\ IsPrefix(b, x))
  <2>1. IsPrefix(c, b) => IsPrefix(x, b)
    <3>1. SUFFICES ASSUME IsPrefix(c, b) PROVE IsPrefix(x, b)
      OBVIOUS
    <3>2. IsPrefix(c, y)
      BY <1>2, <1>3, <3>1, PrefixTrans
    <3>3. IsPrefix(x, y)
      BY <1>1, <3>2
    <3>4. Len(x) \in Nat /\ Len(b) \in Nat
      BY <1>1, <1>3
    <3>5. CASE Len(x) <= Len(b)
      BY <1>1, <1>2, <1>3, <3>3, <3>5, PrefixChain
    <3>6. CASE Len(b) <= Len(x)
      <4>1. IsPrefix(b, x)
        BY <1>1, <1>2, <1>3, <3>3, <3>6, PrefixChain
      <4> QED BY <1>6, <3>1, <4>1
    <3> QED BY <3>4, <3>5, <3>6
  <2> QED BY <1>1, <1>4, <2>1
<1> QED BY <1>5, <1>6

\* split_at: one node more, the same blocks on the same pages, and every block
\* counted as before.
LEMMA SplitTree ==
  ASSUME NEW S, NEW P, NEW tr, IsTree(tr, S, P), NEW b \in Blocks(tr) \cup {<<>>}
  PROVE  /\ IsTree(SplitAt(tr, b), S, P)
         /\ SplitAt(tr, b).page = tr.page
         /\ Nodes(SplitAt(tr, b)) = Nodes(tr) \cup ({b} \ {<<>>})
         /\ \A n \in Nodes(SplitAt(tr, b)) : SplitAt(tr, b).ref[n] = tr.ref[NodeOf(tr, n)]
         /\ \A c \in Blocks(tr) :
              SplitAt(tr, b).ref[NodeOf(SplitAt(tr, b), c)] = tr.ref[NodeOf(tr, c)]
<1>1. CASE b = <<>> \/ b \in Nodes(tr)
  <2>1. SplitAt(tr, b) = tr
    BY <1>1 DEF SplitAt
  <2>2. Nodes(tr) = Nodes(tr) \cup ({b} \ {<<>>})
    BY <1>1
  <2>3. \A n \in Nodes(tr) : NodeOf(tr, n) = n
    BY NodeOfNode
  <2> QED BY <2>1, <2>2, <2>3
<1>2. CASE b # <<>> /\ b \notin Nodes(tr)
  <2>1. b \in Blocks(tr)
    BY <1>2
  <2>2. PICK st : st = SplitAt(tr, b)
    OBVIOUS
  <2>3. tr = [page |-> tr.page, ref |-> tr.ref]
    BY DEF IsTree
  <2>4. st = [page |-> tr.page, ref |-> [n \in Nodes(tr) \cup {b} |-> tr.ref[NodeOf(tr, n)]]]
    BY <1>2, <2>2, <2>3 DEF SplitAt
  <2>5. /\ st.page = tr.page /\ Blocks(st) = Blocks(tr) /\ Nodes(st) = Nodes(tr) \cup {b}
        /\ st = [page |-> st.page, ref |-> st.ref]
        /\ \A n \in Nodes(st) : st.ref[n] = tr.ref[NodeOf(tr, n)]
    BY <2>4 DEF Blocks, Nodes
  <2>6. \A n \in Nodes(tr) \cup {b} : NodeOf(tr, n) \in Nodes(tr) /\ n \in Blocks(tr)
    BY <2>1, NodeOfIs, NodeOfNode
  <2>7. st.ref \in [Nodes(st) -> Nat]
    <3>1. tr.ref \in [Nodes(tr) -> Nat]
      BY DEF IsTree
    <3> QED BY <2>4, <2>5, <2>6, <3>1
  <2>8. ASSUME NEW c \in Blocks(tr)
        PROVE  \E n \in Nodes(st) :
                 /\ IsPrefix(c, n) /\ \A m \in Nodes(st) : IsPrefix(c, m) => IsPrefix(n, m)
                 /\ NodeOf(tr, n) = NodeOf(tr, c)
    BY <2>1, <2>5, SplitNode
  <2>9. IsTree(st, S, P)
    <3>1. IsFiniteSet(Blocks(st)) /\ Nodes(st) \subseteq Blocks(st)
      BY <2>5, <2>6 DEF IsTree, WellFormed
    <3>2. \A c \in Blocks(st) :
             /\ Len(c) > 0 /\ Len(c) % PageSize = 0
             /\ \A n \in 1 .. Len(c) : n % PageSize = 0 => Prefix(c, n) \in Blocks(st)
      BY <2>5 DEF IsTree, WellFormed
    <3>3. \A c \in Blocks(st) : \E n \in Nodes(st) :
             IsPrefix(c, n) /\ \A m \in Nodes(st) : IsPrefix(c, m) => IsPrefix(n, m)
      BY <2>5, <2>8
    <3>4. WellFormed(st)
      BY <3>1, <3>2, <3>3 DEF WellFormed
    <3>5. Blocks(st) \subseteq Seq(S) /\ st.page \in [Blocks(st) -> P]
      BY <2>5 DEF IsTree
    <3> QED BY <2>5, <2>7, <3>4, <3>5 DEF IsTree
  <2>10. ASSUME NEW c \in Blocks(tr)
         PROVE  st.ref[NodeOf(st, c)] = tr.ref[NodeOf(tr, c)]
    <3>1. PICK n \in Nodes(st) :
             /\ IsPrefix(c, n) /\ \A m \in Nodes(st) : IsPrefix(c, m) => IsPrefix(n, m)
             /\ NodeOf(tr, n) = NodeOf(tr, c)
      BY <2>8
    <3>2. c \in Blocks(st)
      BY <2>5
    <3>3. NodeOf(st, c) = n
      BY <2>9, <3>1, <3>2, NodeOfUnique
    <3> QED BY <2>5, <3>1, <3>3
  <2>11. Nodes(st) = Nodes(tr) \cup ({b} \ {<<>>})
    BY <1>2, <2>5
  <2> QED BY <2>2, <2>5, <2>9, <2>10, <2>11
<1> QED BY <1>1, <1>2

(***************************************************************************)
(* insert_prefix.                                                          *)
(***************************************************************************)

\* The blocks of ids past the first `old` tokens, as insert_prefix files them.
NewBlocks(ids, old, n) ==
    {Prefix(ids, i * PageSize) : i \in (old \div PageSize + 1) .. (n \div PageSize)}

(* NewBlocks is every aligned prefix of ids longer than old and no longer than
   n. *)
LEMMA NewBlocksAre ==
  ASSUME NEW S, NEW ids \in Seq(S), NEW n \in 0 .. Len(ids), NEW old \in 0 .. n,
         n % PageSize = 0, old % PageSize = 0
  PROVE  /\ NewBlocks(ids, old, n) =
              {b \in Seq(S) : IsPrefix(b, ids) /\ Len(b) % PageSize = 0
                                /\ old < Len(b) /\ Len(b) <= n}
         /\ \A i \in (old \div PageSize + 1) .. (n \div PageSize) :
              /\ Prefix(ids, i * PageSize) \in Seq(S) /\ Len(Prefix(ids, i * PageSize)) = i * PageSize
              /\ Len(Prefix(ids, i * PageSize)) \div PageSize = i
<1>1. PICK lo \in Nat : lo = old \div PageSize /\ old = lo * PageSize
  BY MultipleOf
<1>2. PICK hi \in Nat : hi = n \div PageSize /\ n = hi * PageSize
  BY MultipleOf
<1>3. ASSUME NEW i \in lo + 1 .. hi
      PROVE  /\ Prefix(ids, i * PageSize) \in Seq(S) /\ Len(Prefix(ids, i * PageSize)) = i * PageSize
             /\ IsPrefix(Prefix(ids, i * PageSize), ids)
             /\ (i * PageSize) % PageSize = 0 /\ (i * PageSize) \div PageSize = i
             /\ old < i * PageSize /\ i * PageSize <= n
  <2>1. i \in Nat /\ lo < i /\ i <= hi
    OBVIOUS
  <2>2. old < i * PageSize /\ i * PageSize <= n
    BY <1>1, <1>2, <2>1, MultipleOrder
  <2>3. PICK m \in Nat : m = i * PageSize /\ m % PageSize = 0 /\ m \div PageSize = i
    BY <2>1, Multiples
  <2>4. m \in 0 .. Len(ids)
    BY <2>2, <2>3
  <2>5. Prefix(ids, m) \in Seq(S) /\ Len(Prefix(ids, m)) = m /\ IsPrefix(Prefix(ids, m), ids)
    BY <2>4, PrefixProperties
  <2> QED BY <2>2, <2>3, <2>5
<1>4. ASSUME NEW b \in Seq(S), IsPrefix(b, ids), Len(b) % PageSize = 0, old < Len(b), Len(b) <= n
      PROVE  \E i \in lo + 1 .. hi : b = Prefix(ids, i * PageSize)
  <2>1. Len(b) \in Nat
    OBVIOUS
  <2>2. PICK i \in Nat : Len(b) = i * PageSize
    BY <1>4, <2>1, MultipleOf
  <2>3. lo < i /\ i <= hi
    BY <1>1, <1>2, <1>4, <2>2, MultipleOrder
  <2>4. b = Prefix(ids, i * PageSize)
    BY <1>4, <2>2, PrefixIsCut
  <2> QED BY <2>3, <2>4
<1>5. NewBlocks(ids, old, n) = {Prefix(ids, i * PageSize) : i \in lo + 1 .. hi}
  BY <1>1, <1>2 DEF NewBlocks
<1>6. NewBlocks(ids, old, n) =
        {b \in Seq(S) : IsPrefix(b, ids) /\ Len(b) % PageSize = 0 /\ old < Len(b) /\ Len(b) <= n}
  <2>1. ASSUME NEW b \in NewBlocks(ids, old, n)
        PROVE  b \in Seq(S) /\ IsPrefix(b, ids) /\ Len(b) % PageSize = 0
               /\ old < Len(b) /\ Len(b) <= n
    <3>1. PICK i \in lo + 1 .. hi : b = Prefix(ids, i * PageSize)
      BY <1>5, <2>1
    <3> QED BY <1>3, <3>1
  <2>2. ASSUME NEW b \in Seq(S), IsPrefix(b, ids), Len(b) % PageSize = 0, old < Len(b), Len(b) <= n
        PROVE  b \in NewBlocks(ids, old, n)
    BY <1>4, <1>5, <2>2
  <2> QED BY <2>1, <2>2
<1> QED BY <1>1, <1>2, <1>3, <1>6

\* What a call of insert_prefix leaves: with key the whole pages of ids, and old
\* tokens of them cached before ...
Inserted(tr, ids, pages, st) ==
    LET key == Prefix(ids, AlignDown(Len(ids)))
        old == MatchLen(tr, key)
        new == NewBlocks(ids, old, AlignDown(Len(ids)))
    IN  \* ... every block of key is cached, the old ones on the pages they had,
        \* the new ones on the caller's;
        /\ new \cap Blocks(tr) = {} /\ Blocks(st) = Blocks(tr) \cup new
        /\ \A b \in Blocks(tr) : st.page[b] = tr.page[b]
        /\ \A b \in new : st.page[b] = pages[Len(b) \div PageSize]
        \* the handle is a node, old handles stay nodes;
        /\ Nodes(tr) \subseteq Nodes(st) /\ key \in Nodes(st) \cup {<<>>}
        \* nobody's protection changes, and nobody has the new blocks yet.
        /\ \A b \in Blocks(tr) : st.ref[NodeOf(st, b)] = tr.ref[NodeOf(tr, b)]
        /\ \A b \in new : st.ref[NodeOf(st, b)] = 0
        /\ \A n \in Nodes(st) : IF n \in Blocks(tr) THEN st.ref[n] = tr.ref[NodeOf(tr, n)]
                                ELSE st.ref[n] = 0

\* A tree with the blocks of one more key below a node of it.
AddKey(tr, ids, old, n, pages) ==
    [page |-> [b \in Blocks(tr) \cup NewBlocks(ids, old, n) |->
                 IF b \in NewBlocks(ids, old, n) THEN pages[Len(b) \div PageSize]
                 ELSE tr.page[b]],
     ref  |-> [m \in Nodes(tr) \cup {Prefix(ids, n)} |->
                 IF m = Prefix(ids, n) THEN 0 ELSE tr.ref[m]]]

KeyAdded(tr, ids, old, n, st) ==
    /\ NewBlocks(ids, old, n) \cap Blocks(tr) = {} /\ Prefix(ids, n) \in NewBlocks(ids, old, n)
    /\ \A b \in Blocks(tr) : NodeOf(st, b) = NodeOf(tr, b)
    /\ \A b \in NewBlocks(ids, old, n) : NodeOf(st, b) = Prefix(ids, n)

(* A node added below a node of the tree (or below the root), for blocks that
   are not cached yet, leaves a tree. *)
LEMMA AddNode ==
  ASSUME NEW S, NEW P, NEW tr, IsTree(tr, S, P),
         NEW ids \in Seq(S), NEW n \in 0 .. Len(ids), NEW old \in 0 .. n,
         n % PageSize = 0, old % PageSize = 0, old < n,
         Prefix(ids, old) \in Nodes(tr) \cup {<<>>},
         \A b \in Blocks(tr) : IsPrefix(b, ids) => Len(b) <= old,
         NEW pages, \A i \in old \div PageSize + 1 .. n \div PageSize : pages[i] \in P
  PROVE  /\ IsTree(AddKey(tr, ids, old, n, pages), S, P)
         /\ KeyAdded(tr, ids, old, n, AddKey(tr, ids, old, n, pages))
<1>0. PICK st : st = AddKey(tr, ids, old, n, pages)
  OBVIOUS
<1>1. PICK new : new = NewBlocks(ids, old, n)
  OBVIOUS
<1>2. new = {b \in Seq(S) : IsPrefix(b, ids) /\ Len(b) % PageSize = 0 /\ old < Len(b) /\ Len(b) <= n}
  BY <1>1, NewBlocksAre
<1>3. PICK key \in Seq(S) : key = Prefix(ids, n) /\ Len(key) = n /\ IsPrefix(key, ids)
  BY PrefixProperties
<1>4. key \in new
  BY <1>2, <1>3
<1>5. PICK at \in Seq(S) : at = Prefix(ids, old) /\ Len(at) = old /\ IsPrefix(at, ids)
  <2>1. old \in 0 .. Len(ids)
    OBVIOUS
  <2> QED BY <2>1, PrefixProperties
<1>6. new \cap Blocks(tr) = {}
  <2>1. ASSUME NEW b \in new, b \in Blocks(tr) PROVE FALSE
    <3>1. b \in Seq(S) /\ IsPrefix(b, ids) /\ old < Len(b) /\ Len(b) \in Nat
      BY <1>2
    <3>2. Len(b) <= old
      BY <2>1, <3>1
    <3> QED BY <3>1, <3>2
  <2> QED BY <2>1
<1>7. Nodes(tr) \subseteq Blocks(tr) /\ Blocks(tr) \subseteq Seq(S) /\ IsFiniteSet(Blocks(tr))
  BY DEF IsTree, WellFormed
<1>8. st = [page |-> [b \in Blocks(tr) \cup new |->
                        IF b \in new THEN pages[Len(b) \div PageSize] ELSE tr.page[b]],
            ref  |-> [m \in Nodes(tr) \cup {key} |-> IF m = key THEN 0 ELSE tr.ref[m]]]
  BY <1>0, <1>1, <1>3 DEF AddKey
<1>9. /\ Blocks(st) = Blocks(tr) \cup new /\ Nodes(st) = Nodes(tr) \cup {key}
      /\ st = [page |-> st.page, ref |-> st.ref]
      /\ st.page = [b \in Blocks(st) |-> st.page[b]] /\ st.ref = [m \in Nodes(st) |-> st.ref[m]]
      /\ \A b \in Blocks(tr) \cup new :
           st.page[b] = IF b \in new THEN pages[Len(b) \div PageSize] ELSE tr.page[b]
      /\ \A m \in Nodes(tr) \cup {key} : st.ref[m] = IF m = key THEN 0 ELSE tr.ref[m]
  <2>1. PICK pg : pg = [b \in Blocks(tr) \cup new |->
                          IF b \in new THEN pages[Len(b) \div PageSize] ELSE tr.page[b]]
    OBVIOUS
  <2>2. PICK rf : rf = [m \in Nodes(tr) \cup {key} |-> IF m = key THEN 0 ELSE tr.ref[m]]
    OBVIOUS
  <2>3. st = [page |-> pg, ref |-> rf]
    BY <1>8, <2>1, <2>2
  <2>4. st.page = pg /\ st.ref = rf
    BY ONLY <2>3
  <2>5. DOMAIN pg = Blocks(tr) \cup new /\ DOMAIN rf = Nodes(tr) \cup {key}
    BY ONLY <2>1, <2>2
  <2>6. Blocks(st) = Blocks(tr) \cup new /\ Nodes(st) = Nodes(tr) \cup {key}
    BY <2>4, <2>5 DEF Blocks, Nodes
  <2>7. \A b \in Blocks(tr) \cup new :
           pg[b] = IF b \in new THEN pages[Len(b) \div PageSize] ELSE tr.page[b]
    BY ONLY <2>1
  <2>8. \A m \in Nodes(tr) \cup {key} : rf[m] = IF m = key THEN 0 ELSE tr.ref[m]
    BY ONLY <2>2
  <2>9. pg = [b \in DOMAIN pg |-> pg[b]] /\ rf = [m \in DOMAIN rf |-> rf[m]]
    BY ONLY <2>1, <2>2
  <2>10. st.page = [b \in Blocks(st) |-> st.page[b]] /\ st.ref = [m \in Nodes(st) |-> st.ref[m]]
    BY <2>4, <2>9 DEF Blocks, Nodes
  <2> QED BY <2>3, <2>4, <2>6, <2>7, <2>8, <2>10
\* Of the new node: it is below exactly the blocks of ids.
<1>10. ASSUME NEW b \in Blocks(tr), IsPrefix(b, key) PROVE IsPrefix(b, at) /\ at \in Nodes(tr)
  <2>1. b \in Seq(S) /\ Len(b) \in Nat \ {0}
    BY BlockFacts
  <2>2. IsPrefix(b, ids)
    BY <1>3, <1>10, <2>1, PrefixTrans
  <2>3. Len(b) <= old
    BY <2>2
  <2>4. IsPrefix(b, at)
    BY <1>5, <2>1, <2>2, <2>3, PrefixChain
  <2>5. at # <<>>
    BY <1>5, <2>1, <2>3
  <2> QED BY <1>5, <2>4, <2>5
<1>11. ASSUME NEW b \in Blocks(tr)
       PROVE  /\ NodeOf(tr, b) \in Nodes(st) /\ IsPrefix(b, NodeOf(tr, b))
              /\ \A m \in Nodes(st) : IsPrefix(b, m) => IsPrefix(NodeOf(tr, b), m)
  <2>1. PICK x \in Nodes(tr) : /\ x = NodeOf(tr, b) /\ x \in Seq(S) /\ IsPrefix(b, x)
                               /\ \A m \in Nodes(tr) : IsPrefix(b, m) => IsPrefix(x, m)
    BY NodeOfIs
  <2>2. IsPrefix(b, key) => IsPrefix(x, key)
    <3>1. SUFFICES ASSUME IsPrefix(b, key) PROVE IsPrefix(x, key)
      OBVIOUS
    <3>2. IsPrefix(x, at)
      BY <1>10, <2>1, <3>1
    <3>3. Len(at) <= Len(key)
      BY <1>3, <1>5
    <3>4. IsPrefix(at, key)
      BY <1>3, <1>5, <3>3, PrefixChain
    <3> QED BY <1>3, <1>5, <2>1, <3>2, <3>4, PrefixTrans
  <2> QED BY <1>9, <2>1, <2>2
<1>12. ASSUME NEW b \in new
       PROVE  IsPrefix(b, key) /\ \A m \in Nodes(st) : IsPrefix(b, m) => IsPrefix(key, m)
  <2>1. b \in Seq(S) /\ IsPrefix(b, ids) /\ Len(b) % PageSize = 0 /\ old < Len(b) /\ Len(b) <= n
        /\ Len(b) \in Nat
    BY <1>2
  <2>2. IsPrefix(b, key)
    BY <1>3, <2>1, PrefixChain
  <2>3. ASSUME NEW m \in Nodes(tr) PROVE ~IsPrefix(b, m)
    <3>1. SUFFICES ASSUME IsPrefix(b, m) PROVE FALSE
      OBVIOUS
    <3>2. m \in Blocks(tr) /\ b # <<>>
      BY <1>7, <2>1
    <3>3. b \in Blocks(tr)
      BY <2>1, <3>1, <3>2, BlockAbove
    <3> QED BY <1>6, <3>3
  <2>4. IsPrefix(key, key)
    BY <1>3, PrefixRefl
  <2> QED BY <1>9, <2>2, <2>3, <2>4
<1>13. WellFormed(st)
  <2>1. IsFiniteSet(Blocks(st)) /\ Nodes(st) \subseteq Blocks(st)
    <3>1. IsFiniteSet(new)
      <4>1. \A i \in old \div PageSize + 1 .. n \div PageSize : Prefix(ids, i * PageSize) \in new
        BY <1>1 DEF NewBlocks
      <4>2. old \div PageSize \in Int /\ n \div PageSize \in Int
        BY PageSizeAssumption
      <4>3. IsFiniteSet(old \div PageSize + 1 .. n \div PageSize)
        BY <4>2, FS_Interval
      <4> DEFINE f == [i \in old \div PageSize + 1 .. n \div PageSize |-> Prefix(ids, i * PageSize)]
      <4>4. f \in Surjection(old \div PageSize + 1 .. n \div PageSize, new)
        BY <1>1, <4>1 DEF NewBlocks, Surjection
      <4> HIDE DEF f
      <4> QED BY <4>3, <4>4, FS_Surjection
    <3>2. IsFiniteSet(Blocks(tr) \cup new)
      BY <1>7, <3>1, FS_Union
    <3> QED BY <1>4, <1>7, <1>9, <3>2
  <2>2. \A b \in Blocks(st) : Len(b) > 0 /\ Len(b) % PageSize = 0
    <3>1. \A b \in Blocks(tr) : Len(b) > 0 /\ Len(b) % PageSize = 0
      BY DEF IsTree, WellFormed
    <3>2. \A b \in new : Len(b) > 0 /\ Len(b) % PageSize = 0
      <4>1. ASSUME NEW b \in new PROVE Len(b) > 0 /\ Len(b) % PageSize = 0
        <5>1. b \in Seq(S) /\ Len(b) % PageSize = 0 /\ old < Len(b) /\ old \in Nat
          BY <1>2
        <5> QED BY <5>1
      <4> QED BY <4>1
    <3> QED BY <1>9, <3>1, <3>2
  <2>3. ASSUME NEW b \in Blocks(st), NEW k \in 1 .. Len(b), k % PageSize = 0
        PROVE  Prefix(b, k) \in Blocks(st)
    <3>1. CASE b \in Blocks(tr)
      BY <1>9, <2>3, <3>1, BlockFacts
    <3>2. CASE b \in new
      <4>1. b \in Seq(S) /\ IsPrefix(b, ids) /\ Len(b) <= n /\ Len(b) \in Nat
        BY <1>2, <3>2
      <4>2. k \in 0 .. Len(b)
        BY <4>1
      <4>3. PICK c \in Seq(S) : c = Prefix(b, k) /\ Len(c) = k /\ IsPrefix(c, b)
        BY <4>1, <4>2, PrefixProperties
      <4>4. IsPrefix(c, ids)
        BY <4>1, <4>3, PrefixTrans
      <4>5. CASE old < k
        <5>1. Len(c) <= n /\ old < Len(c) /\ Len(c) % PageSize = 0
          BY <2>3, <4>1, <4>2, <4>3, <4>5
        <5>2. c \in new
          BY <1>2, <4>3, <4>4, <5>1
        <5> QED BY <1>9, <4>3, <5>2
      <4>6. CASE k <= old
        <5>1. Len(c) <= Len(at)
          BY <1>5, <4>3, <4>6
        <5>2. IsPrefix(c, at)
          BY <1>5, <4>3, <4>4, <5>1, PrefixChain
        <5>3. at # <<>> /\ c # <<>>
          BY <1>5, <4>3, <4>6
        <5>4. at \in Blocks(tr)
          BY <1>5, <1>7, <5>3
        <5>5. c \in Blocks(tr)
          BY <2>3, <4>3, <5>2, <5>3, <5>4, BlockAbove
        <5> QED BY <1>9, <4>3, <5>5
      <4> QED BY <4>1, <4>5, <4>6
    <3> QED BY <1>9, <3>1, <3>2
  <2>4. ASSUME NEW b \in Blocks(st)
        PROVE  \E x \in Nodes(st) :
                 IsPrefix(b, x) /\ \A m \in Nodes(st) : IsPrefix(b, m) => IsPrefix(x, m)
    <3>1. CASE b \in Blocks(tr)
      BY <1>11, <3>1
    <3>2. CASE b \in new
      BY <1>9, <1>12, <3>2
    <3> QED BY <1>9, <3>1, <3>2
  <2> QED BY <2>1, <2>2, <2>3, <2>4 DEF WellFormed
<1>14. IsTree(st, S, P)
  <2>1. Blocks(st) \subseteq Seq(S)
    BY <1>2, <1>7, <1>9
  <2>2. st.page \in [Blocks(st) -> P]
    <3>1. \A b \in new : pages[Len(b) \div PageSize] \in P
      <4>1. ASSUME NEW b \in new PROVE pages[Len(b) \div PageSize] \in P
        <5>1. PICK i \in old \div PageSize + 1 .. n \div PageSize : b = Prefix(ids, i * PageSize)
          BY <1>1 DEF NewBlocks
        <5>2. Len(b) \div PageSize = i
          BY <5>1, NewBlocksAre
        <5> QED BY <5>2
      <4> QED BY <4>1
    <3>2. tr.page \in [Blocks(tr) -> P]
      BY DEF IsTree
    <3>3. ASSUME NEW b \in Blocks(st) PROVE st.page[b] \in P
      <4>1. CASE b \in new
        BY <1>9, <3>1, <4>1
      <4>2. CASE b \in Blocks(tr) /\ b \notin new
        BY <1>9, <3>2, <4>2
      <4> QED BY <1>9, <4>1, <4>2
    <3> QED BY <1>9, <3>3
  <2>3. st.ref \in [Nodes(st) -> Nat]
    <3>1. tr.ref \in [Nodes(tr) -> Nat]
      BY DEF IsTree
    <3>2. ASSUME NEW m \in Nodes(st) PROVE st.ref[m] \in Nat
      <4>1. CASE m = key
        <5>1. m \in Nodes(tr) \cup {key}
          BY <4>1
        <5>2. st.ref[m] = 0
          BY ONLY <1>9, <4>1, <5>1
        <5> QED BY <5>2
      <4>2. CASE m \in Nodes(tr) /\ m # key
        BY <1>9, <3>1, <4>2
      <4> QED BY <1>9, <4>1, <4>2
    <3> QED BY <1>9, <3>2
  <2> QED BY <1>9, <1>13, <2>1, <2>2, <2>3 DEF IsTree
<1>15. \A b \in Blocks(tr) : NodeOf(st, b) = NodeOf(tr, b)
  <2>1. ASSUME NEW b \in Blocks(tr) PROVE NodeOf(st, b) = NodeOf(tr, b)
    <3>1. PICK x \in Nodes(st) : /\ x = NodeOf(tr, b) /\ IsPrefix(b, x)
                                 /\ \A m \in Nodes(st) : IsPrefix(b, m) => IsPrefix(x, m)
      BY <1>11
    <3>2. b \in Blocks(st)
      BY <1>9
    <3> QED BY <1>14, <3>1, <3>2, NodeOfUnique
  <2> QED BY <2>1
<1>16. \A b \in new : NodeOf(st, b) = key
  <2>1. ASSUME NEW b \in new PROVE NodeOf(st, b) = key
    <3>1. IsPrefix(b, key) /\ \A m \in Nodes(st) : IsPrefix(b, m) => IsPrefix(key, m)
      BY <1>12
    <3>2. b \in Blocks(st) /\ key \in Nodes(st)
      BY <1>9
    <3> QED BY <1>14, <3>1, <3>2, NodeOfUnique
  <2> QED BY <2>1
<1>17. KeyAdded(tr, ids, old, n, st)
  BY <1>1, <1>3, <1>4, <1>6, <1>15, <1>16 DEF KeyAdded
<1> QED BY <1>0, <1>14, <1>17

(* insert_prefix leaves a tree that holds the old blocks with their pages and
   the new ones with the pages given, whatever the tree, the key and the page
   size. *)
LEMMA InsertTree ==
  ASSUME NEW S, NEW P, NEW tr, IsTree(tr, S, P), NEW ids \in Seq(S), NEW pages,
         \A i \in MatchLen(tr, Prefix(ids, AlignDown(Len(ids)))) \div PageSize + 1
                    .. AlignDown(Len(ids)) \div PageSize : pages[i] \in P
  PROVE  /\ IsTree(insert_prefix(tr, ids, pages).tree, S, P)
         /\ Inserted(tr, ids, pages, insert_prefix(tr, ids, pages).tree)
         /\ insert_prefix(tr, ids, pages).path = Prefix(ids, AlignDown(Len(ids)))
         /\ insert_prefix(tr, ids, pages).cached_len = MatchLen(tr, Prefix(ids, AlignDown(Len(ids))))
<1>1. PICK n \in 0 .. Len(ids) :
        n = AlignDown(Len(ids)) /\ n % PageSize = 0
        /\ \A m \in 0 .. Len(ids) : m % PageSize = 0 => m <= n
  BY AlignDownIs
<1>2. PICK key \in Seq(S) : key = Prefix(ids, n) /\ Len(key) = n /\ IsPrefix(key, ids)
  BY PrefixProperties
<1>3. PICK old \in 0 .. n :
        /\ old = MatchLen(tr, key) /\ old % PageSize = 0
        /\ old # 0 => Prefix(key, old) \in Blocks(tr)
  BY <1>2, MatchLenIs
<1>4. PICK at \in Seq(S) : at = Prefix(key, old) /\ Len(at) = old /\ IsPrefix(at, key)
  BY <1>2, <1>3, PrefixProperties
<1>5. at = Prefix(ids, old)
  BY <1>2, <1>4, PrefixOfPrefix
<1>6. at \in Blocks(tr) \cup {<<>>}
  <2>1. CASE old = 0
    <3>1. Len(at) = 0
      BY <1>4, <2>1
    <3> QED BY <3>1, EmptySeq
  <2>2. CASE old # 0
    BY <1>3, <1>4, <2>2
  <2> QED BY <2>1, <2>2
<1>7. PICK walk : walk = SplitAt(tr, at)
  OBVIOUS
<1>8. /\ IsTree(walk, S, P) /\ walk.page = tr.page
      /\ Nodes(walk) = Nodes(tr) \cup ({at} \ {<<>>})
      /\ \A m \in Nodes(walk) : walk.ref[m] = tr.ref[NodeOf(tr, m)]
      /\ \A c \in Blocks(tr) : walk.ref[NodeOf(walk, c)] = tr.ref[NodeOf(tr, c)]
  BY <1>6, <1>7, SplitTree
<1>9. Blocks(walk) = Blocks(tr) /\ Nodes(walk) \subseteq Blocks(walk)
  <2>1. Nodes(walk) \subseteq Blocks(walk)
    BY <1>8 DEF IsTree, WellFormed
  <2> QED BY <1>8, <2>1 DEF Blocks
<1>10. \A b \in Blocks(tr) : IsPrefix(b, ids) => Len(b) <= old
  <2>1. ASSUME NEW b \in Blocks(tr), IsPrefix(b, ids) PROVE Len(b) <= old
    <3>1. b \in Seq(S) /\ Len(b) \in Nat /\ Len(b) % PageSize = 0
      BY BlockFacts
    <3>2. Len(b) \in 0 .. Len(ids)
      BY <2>1, <3>1, PrefixLength
    <3>3. Len(b) <= Len(key)
      BY <1>1, <1>2, <3>1, <3>2
    <3>4. IsPrefix(b, key)
      BY <1>2, <2>1, <3>1, <3>3, PrefixChain
    <3> QED BY <1>2, <1>3, <3>4, MatchedBlocks
  <2> QED BY <2>1
<1>11. PICK new : new = NewBlocks(ids, old, n)
  OBVIOUS
<1>12. PICK ins : ins = insert_prefix(tr, ids, pages)
  OBVIOUS
<1>13. /\ ins.path = key /\ ins.cached_len = old
       /\ ins.tree = IF old = n THEN walk
                     ELSE [page |-> [b \in Blocks(walk) \cup new |->
                                       IF b \in new THEN pages[Len(b) \div PageSize]
                                       ELSE walk.page[b]],
                           ref  |-> [m \in Nodes(walk) \cup {key} |->
                                       IF m = key THEN 0 ELSE walk.ref[m]]]
  BY <1>1, <1>2, <1>3, <1>4, <1>7, <1>11, <1>12, Zenon DEF insert_prefix, Walk, NewBlocks
<1>14. PICK st : st = ins.tree
  OBVIOUS
<1>15. CASE old = n
  <2>1. st = walk
    BY <1>13, <1>14, <1>15
  <2>2. new = {}
    <3>1. new = {b \in Seq(S) : IsPrefix(b, ids) /\ Len(b) % PageSize = 0
                                  /\ old < Len(b) /\ Len(b) <= n}
      BY <1>1, <1>3, <1>11, NewBlocksAre
    <3>2. ASSUME NEW b \in new PROVE FALSE
      <4>1. b \in Seq(S) /\ old < Len(b) /\ Len(b) <= n /\ Len(b) \in Nat
        BY <3>1
      <4> QED BY <1>15, <4>1
    <3> QED BY <3>2
  <2>3. key = at
    <3>1. Len(key) <= Len(at)
      BY <1>2, <1>4, <1>15
    <3> QED BY <1>2, <1>4, <3>1, PrefixSameLength
  <2>4. key \in Nodes(st) \cup {<<>>}
    BY <1>8, <2>1, <2>3
  <2>5. \A m \in Nodes(st) : m \in Blocks(tr) /\ st.ref[m] = tr.ref[NodeOf(tr, m)]
    BY <1>8, <1>9, <2>1
  <2>6. Nodes(tr) \subseteq Nodes(st) /\ Blocks(st) = Blocks(tr) /\ st.page = tr.page
    BY <1>8, <1>9, <2>1
  <2>7. Inserted(tr, ids, pages, st)
    BY <1>1, <1>2, <1>3, <1>8, <1>11, <2>1, <2>2, <2>4, <2>5, <2>6 DEF Inserted
  <2> QED BY <1>1, <1>2, <1>3, <1>8, <1>12, <1>13, <1>14, <2>1, <2>7
<1>16. CASE old # n
  <2>1. st = AddKey(walk, ids, old, n, pages)
    BY <1>2, <1>11, <1>13, <1>14, <1>16, Zenon DEF AddKey
  <2>2. old < n
    BY <1>16
  <2>3. Prefix(ids, old) \in Nodes(walk) \cup {<<>>}
    BY <1>5, <1>8
  <2>4. \A b \in Blocks(walk) : IsPrefix(b, ids) => Len(b) <= old
    BY <1>9, <1>10
  <2>5. \A i \in old \div PageSize + 1 .. n \div PageSize : pages[i] \in P
    BY <1>1, <1>2, <1>3
  <2>6. /\ IsTree(st, S, P)
        /\ new \cap Blocks(walk) = {} /\ key \in new
        /\ \A b \in Blocks(walk) : NodeOf(st, b) = NodeOf(walk, b)
        /\ \A b \in new : NodeOf(st, b) = key
    <3>1. n % PageSize = 0 /\ old % PageSize = 0 /\ IsTree(walk, S, P)
      BY <1>1, <1>3, <1>8
    <3>2. /\ IsTree(AddKey(walk, ids, old, n, pages), S, P)
          /\ KeyAdded(walk, ids, old, n, AddKey(walk, ids, old, n, pages))
      BY <2>2, <2>3, <2>4, <2>5, <3>1, AddNode
    <3> QED BY <1>2, <1>11, <2>1, <3>2 DEF KeyAdded
  <2>7. /\ Blocks(st) = Blocks(tr) \cup new /\ Nodes(st) = Nodes(walk) \cup {key}
        /\ \A b \in Blocks(tr) \cup new :
             st.page[b] = IF b \in new THEN pages[Len(b) \div PageSize] ELSE tr.page[b]
        /\ \A m \in Nodes(walk) \cup {key} : st.ref[m] = IF m = key THEN 0 ELSE walk.ref[m]
    <3>1. PICK pg : pg = [b \in Blocks(walk) \cup new |->
                            IF b \in new THEN pages[Len(b) \div PageSize] ELSE walk.page[b]]
      OBVIOUS
    <3>2. PICK rf : rf = [m \in Nodes(walk) \cup {key} |-> IF m = key THEN 0 ELSE walk.ref[m]]
      OBVIOUS
    <3>3. st = [page |-> pg, ref |-> rf]
      BY <1>2, <1>11, <2>1, <3>1, <3>2 DEF AddKey
    <3>4. st.page = pg /\ st.ref = rf
      BY ONLY <3>3
    <3>5. DOMAIN pg = Blocks(walk) \cup new /\ DOMAIN rf = Nodes(walk) \cup {key}
      BY ONLY <3>1, <3>2
    <3>6. \A b \in Blocks(walk) \cup new :
             pg[b] = IF b \in new THEN pages[Len(b) \div PageSize] ELSE walk.page[b]
      BY ONLY <3>1
    <3>7. \A m \in Nodes(walk) \cup {key} : rf[m] = IF m = key THEN 0 ELSE walk.ref[m]
      BY ONLY <3>2
    <3>8. Blocks(st) = Blocks(tr) \cup new /\ Nodes(st) = Nodes(walk) \cup {key}
      BY <1>9, <3>4, <3>5 DEF Blocks, Nodes
    <3> QED BY <1>8, <1>9, <3>4, <3>6, <3>7, <3>8
  <2>8. ASSUME NEW b \in Blocks(tr)
        PROVE  st.page[b] = tr.page[b] /\ st.ref[NodeOf(st, b)] = tr.ref[NodeOf(tr, b)]
    <3>1. b \notin new /\ b \in Blocks(walk) /\ NodeOf(st, b) = NodeOf(walk, b)
      BY <1>9, <2>6
    <3>2. PICK x \in Nodes(walk) : x = NodeOf(walk, b) /\ x \in Blocks(walk)
      BY <1>8, <3>1, NodeOfIs
    <3>3. x # key
      BY <2>6, <3>2
    <3>4. st.ref[x] = walk.ref[x]
      BY <2>7, <3>2, <3>3
    <3>5. st.page[b] = tr.page[b]
      BY <2>7, <3>1
    <3> QED BY <1>8, <3>1, <3>2, <3>4, <3>5
  <2>9. ASSUME NEW b \in new
        PROVE  st.page[b] = pages[Len(b) \div PageSize] /\ st.ref[NodeOf(st, b)] = 0
    <3>1. st.ref[key] = 0
      BY <2>7
    <3> QED BY <2>6, <2>7, <3>1
  <2>10. ASSUME NEW m \in Nodes(st)
         PROVE  IF m \in Blocks(tr) THEN st.ref[m] = tr.ref[NodeOf(tr, m)] ELSE st.ref[m] = 0
    <3>1. CASE m = key
      <4>1. m \notin Blocks(tr)
        BY <1>9, <2>6, <3>1
      <4>2. st.ref[m] = 0
        BY <2>7, <3>1
      <4> QED BY <4>1, <4>2
    <3>2. CASE m # key
      <4>1. m \in Nodes(walk) /\ m \in Blocks(tr)
        BY <1>9, <2>7, <3>2
      <4>2. st.ref[m] = walk.ref[m]
        BY <2>7, <3>2, <4>1
      <4> QED BY <1>8, <4>1, <4>2
    <3> QED BY <3>1, <3>2
  <2>11. Nodes(tr) \subseteq Nodes(st) /\ key \in Nodes(st) \cup {<<>>} /\ new \cap Blocks(tr) = {}
    BY <1>8, <1>9, <2>6, <2>7
  <2>12. Inserted(tr, ids, pages, st)
    BY <1>1, <1>2, <1>3, <1>11, <2>7, <2>8, <2>9, <2>10, <2>11 DEF Inserted
  <2> QED BY <1>1, <1>2, <1>3, <1>12, <1>13, <1>14, <2>6, <2>12
<1> QED BY <1>15, <1>16

(***************************************************************************)
(* lock_handle and evict.                                                  *)
(***************************************************************************)

\* The edge a block is on depends on the nodes only.
LEMMA NodeOfSame ==
  ASSUME NEW tr, NEW st, Nodes(st) = Nodes(tr), NEW b
  PROVE  NodeOf(st, b) = NodeOf(tr, b)
BY DEF NodeOf

\* Changing ref_counts only keeps a tree a tree.
LEMMA RefTree ==
  ASSUME NEW S, NEW P, NEW tr, IsTree(tr, S, P), NEW rf \in [Nodes(tr) -> Nat],
         NEW st, st = [tr EXCEPT !.ref = rf]
  PROVE  /\ IsTree(st, S, P) /\ st.page = tr.page /\ st.ref = rf
         /\ Nodes(st) = Nodes(tr) /\ Blocks(st) = Blocks(tr)
         /\ \A b : NodeOf(st, b) = NodeOf(tr, b)
<1>1. tr = [page |-> tr.page, ref |-> tr.ref] /\ tr.page \in [Blocks(tr) -> P]
      /\ Blocks(tr) \subseteq Seq(S)
  BY DEF IsTree
<1>2. st = [page |-> tr.page, ref |-> rf]
  BY <1>1
<1>3. st.page = tr.page /\ st.ref = rf /\ st = [page |-> st.page, ref |-> st.ref]
  BY <1>2
<1>4. Nodes(st) = Nodes(tr) /\ Blocks(st) = Blocks(tr)
  BY <1>3 DEF Nodes, Blocks
<1>5. WellFormed(st)
  <2>1. WellFormed(tr)
    BY DEF IsTree
  <2> QED BY <1>4, <2>1 DEF WellFormed
<1>6. IsTree(st, S, P)
  BY <1>1, <1>3, <1>4, <1>5 DEF IsTree
<1> QED BY <1>3, <1>4, <1>6, NodeOfSame

(* lock changes the counts of the nodes on the path, by one each, and nothing
   else. *)
LEMMA LockTree ==
  ASSUME NEW S, NEW P, NEW tr, IsTree(tr, S, P), NEW path
  PROVE  /\ IsTree(lock(tr, path), S, P) /\ lock(tr, path).page = tr.page
         /\ Nodes(lock(tr, path)) = Nodes(tr) /\ Blocks(lock(tr, path)) = Blocks(tr)
         /\ \A b : NodeOf(lock(tr, path), b) = NodeOf(tr, b)
         /\ \A n \in Nodes(tr) : lock(tr, path).ref[n] = IF IsPrefix(n, path) THEN tr.ref[n] + 1
                                                         ELSE tr.ref[n]
<1>1. PICK rf : rf = [n \in Nodes(tr) |-> IF IsPrefix(n, path) THEN tr.ref[n] + 1 ELSE tr.ref[n]]
  OBVIOUS
<1>2. tr.ref \in [Nodes(tr) -> Nat] /\ tr = [page |-> tr.page, ref |-> tr.ref]
  BY DEF IsTree
<1>3. rf \in [Nodes(tr) -> Nat]
  BY <1>1, <1>2
<1>4. PICK st : st = [tr EXCEPT !.ref = rf]
  OBVIOUS
<1>5. lock(tr, path) = st
  BY <1>1, <1>2, <1>4 DEF lock
<1>6. /\ IsTree(st, S, P) /\ st.page = tr.page /\ st.ref = rf
      /\ Nodes(st) = Nodes(tr) /\ Blocks(st) = Blocks(tr)
      /\ \A b : NodeOf(st, b) = NodeOf(tr, b)
  BY <1>3, <1>4, RefTree
<1>7. \A n \in Nodes(tr) : rf[n] = IF IsPrefix(n, path) THEN tr.ref[n] + 1 ELSE tr.ref[n]
  BY <1>1
<1> QED BY <1>5, <1>6, <1>7

\* unlock asserts that no count goes below zero.
LEMMA UnlockTree ==
  ASSUME NEW S, NEW P, NEW tr, IsTree(tr, S, P), NEW path,
         \A n \in Nodes(tr) : IsPrefix(n, path) => tr.ref[n] > 0
  PROVE  /\ IsTree(unlock(tr, path), S, P) /\ unlock(tr, path).page = tr.page
         /\ Nodes(unlock(tr, path)) = Nodes(tr) /\ Blocks(unlock(tr, path)) = Blocks(tr)
         /\ \A b : NodeOf(unlock(tr, path), b) = NodeOf(tr, b)
         /\ \A n \in Nodes(tr) : unlock(tr, path).ref[n] = IF IsPrefix(n, path) THEN tr.ref[n] - 1
                                                           ELSE tr.ref[n]
<1>1. PICK rf : rf = [n \in Nodes(tr) |-> IF IsPrefix(n, path) THEN tr.ref[n] - 1 ELSE tr.ref[n]]
  OBVIOUS
<1>2. tr.ref \in [Nodes(tr) -> Nat] /\ tr = [page |-> tr.page, ref |-> tr.ref]
  BY DEF IsTree
<1>3. rf \in [Nodes(tr) -> Nat]
  BY <1>1, <1>2
<1>4. PICK st : st = [tr EXCEPT !.ref = rf]
  OBVIOUS
<1>5. unlock(tr, path) = st
  BY <1>1, <1>2, <1>4 DEF unlock
<1>6. /\ IsTree(st, S, P) /\ st.page = tr.page /\ st.ref = rf
      /\ Nodes(st) = Nodes(tr) /\ Blocks(st) = Blocks(tr)
      /\ \A b : NodeOf(st, b) = NodeOf(tr, b)
  BY <1>3, <1>4, RefTree
<1>7. \A n \in Nodes(tr) : rf[n] = IF IsPrefix(n, path) THEN tr.ref[n] - 1 ELSE tr.ref[n]
  BY <1>1
<1> QED BY <1>5, <1>6, <1>7

\* evict takes whole subtrees, so what is left is a tree.
LEMMA RemoveTree ==
  ASSUME NEW S, NEW P, NEW tr, IsTree(tr, S, P), NEW E \in SUBSET Nodes(tr),
         \A n \in E : Children(tr, n) \subseteq E
  PROVE  /\ IsTree(RemoveNodes(tr, E), S, P)
         /\ Blocks(RemoveNodes(tr, E)) = {b \in Blocks(tr) : NodeOf(tr, b) \notin E}
         /\ Nodes(RemoveNodes(tr, E)) = Nodes(tr) \ E
         /\ \A b \in Blocks(RemoveNodes(tr, E)) :
              RemoveNodes(tr, E).page[b] = tr.page[b]
              /\ NodeOf(RemoveNodes(tr, E), b) = NodeOf(tr, b)
         /\ \A n \in Nodes(RemoveNodes(tr, E)) : RemoveNodes(tr, E).ref[n] = tr.ref[n]
<1>1. PICK st : st = RemoveNodes(tr, E)
  OBVIOUS
<1>2. PICK left : left = {b \in Blocks(tr) : NodeOf(tr, b) \notin E}
  OBVIOUS
<1>3. /\ Blocks(st) = left /\ Nodes(st) = Nodes(tr) \ E /\ st = [page |-> st.page, ref |-> st.ref]
      /\ st.page = [b \in left |-> tr.page[b]] /\ st.ref = [n \in Nodes(tr) \ E |-> tr.ref[n]]
  <2>1. PICK pg : pg = [b \in left |-> tr.page[b]]
    OBVIOUS
  <2>2. PICK rf : rf = [n \in Nodes(tr) \ E |-> tr.ref[n]]
    OBVIOUS
  <2>3. st = [page |-> pg, ref |-> rf]
    BY <1>1, <1>2, <2>1, <2>2 DEF RemoveNodes
  <2>4. st.page = pg /\ st.ref = rf
    BY ONLY <2>3
  <2>5. DOMAIN pg = left /\ DOMAIN rf = Nodes(tr) \ E
    BY ONLY <2>1, <2>2
  <2>6. Blocks(st) = left /\ Nodes(st) = Nodes(tr) \ E
    BY <2>4, <2>5 DEF Blocks, Nodes
  <2> QED BY <2>1, <2>2, <2>3, <2>4, <2>6
<1>4. tr.page \in [Blocks(tr) -> P] /\ tr.ref \in [Nodes(tr) -> Nat] /\ Blocks(tr) \subseteq Seq(S)
      /\ IsFiniteSet(Blocks(tr)) /\ Nodes(tr) \subseteq Blocks(tr)
  BY DEF IsTree, WellFormed
<1>5. st.page \in [Blocks(st) -> P] /\ st.ref \in [Nodes(st) -> Nat]
      /\ \A b \in left : st.page[b] = tr.page[b]
      /\ \A n \in Nodes(tr) \ E : st.ref[n] = tr.ref[n]
  <2>1. left \subseteq Blocks(tr)
    BY <1>2
  <2> QED BY ONLY <1>3, <1>4, <2>1
<1>6. ASSUME NEW b \in left
      PROVE  /\ NodeOf(tr, b) \in Nodes(st) /\ IsPrefix(b, NodeOf(tr, b))
             /\ \A m \in Nodes(st) : IsPrefix(b, m) => IsPrefix(NodeOf(tr, b), m)
  <2>1. b \in Blocks(tr) /\ NodeOf(tr, b) \notin E
    BY <1>2
  <2> QED BY <1>3, <2>1, NodeOfIs
<1>7. WellFormed(st)
  <2>1. IsFiniteSet(Blocks(st))
    <3>1. left \subseteq Blocks(tr)
      BY <1>2
    <3> QED BY <1>3, <1>4, <3>1, FS_Subset
  <2>2. Nodes(st) \subseteq Blocks(st)
    <3>1. ASSUME NEW n \in Nodes(tr) \ E PROVE n \in left
      BY <1>2, NodeOfNode
    <3> QED BY <1>3, <3>1
  <2>3. ASSUME NEW b \in Blocks(st)
        PROVE  Len(b) > 0 /\ Len(b) % PageSize = 0
    <3>1. b \in Blocks(tr)
      BY <1>2, <1>3
    <3> QED BY <3>1 DEF IsTree, WellFormed
  <2>4. ASSUME NEW b \in Blocks(st), NEW k \in 1 .. Len(b), k % PageSize = 0
        PROVE  Prefix(b, k) \in Blocks(st)
    <3>1. b \in Blocks(tr) /\ NodeOf(tr, b) \notin E
      BY <1>2, <1>3
    <3>2. b \in Seq(S)
      BY <3>1, BlockFacts
    <3>3. PICK c \in Blocks(tr) : c = Prefix(b, k)
      BY <2>4, <3>1, BlockFacts
    <3>4. k \in 0 .. Len(b)
      BY <3>2
    <3>5. c \in Seq(S) /\ IsPrefix(c, b)
      BY <3>2, <3>3, <3>4, PrefixProperties
    <3>6. PICK x \in Nodes(tr) : x = NodeOf(tr, b) /\ x \in Seq(S) /\ IsPrefix(b, x)
      BY <3>1, NodeOfIs
    <3>7. PICK y \in Nodes(tr) : /\ y = NodeOf(tr, c) /\ y \in Seq(S)
                                 /\ \A m \in Nodes(tr) : IsPrefix(c, m) => IsPrefix(y, m)
      BY NodeOfIs
    <3>8. IsPrefix(y, x)
      BY <3>2, <3>5, <3>6, <3>7, PrefixTrans
    <3>9. y \notin E
      <4>1. SUFFICES ASSUME y \in E PROVE FALSE
        OBVIOUS
      <4>2. CASE x = y
        BY <3>1, <3>6, <4>1, <4>2
      <4>3. CASE x # y
        <5>1. IsStrictPrefix(y, x)
          BY <3>8, <4>3 DEF IsStrictPrefix
        <5>2. x \in Children(tr, y)
          BY <5>1 DEF Children
        <5> QED BY <3>1, <3>6, <4>1, <5>2
      <4> QED BY <4>2, <4>3
    <3> QED BY <1>2, <1>3, <3>3, <3>7, <3>9
  <2>5. ASSUME NEW b \in Blocks(st)
        PROVE  \E x \in Nodes(st) :
                 IsPrefix(b, x) /\ \A m \in Nodes(st) : IsPrefix(b, m) => IsPrefix(x, m)
    BY <1>3, <1>6
  <2> QED BY <2>1, <2>2, <2>3, <2>4, <2>5 DEF WellFormed
<1>8. IsTree(st, S, P)
  <2>1. Blocks(st) \subseteq Seq(S)
    BY <1>2, <1>3, <1>4
  <2> QED BY <1>3, <1>5, <1>7, <2>1 DEF IsTree
<1>9. ASSUME NEW b \in left PROVE NodeOf(st, b) = NodeOf(tr, b)
  <2>1. PICK x \in Nodes(st) : /\ x = NodeOf(tr, b) /\ IsPrefix(b, x)
                               /\ \A m \in Nodes(st) : IsPrefix(b, m) => IsPrefix(x, m)
    BY <1>6
  <2>2. b \in Blocks(st)
    BY <1>3
  <2> QED BY <1>8, <2>1, <2>2, NodeOfUnique
<1> QED BY <1>1, <1>2, <1>3, <1>5, <1>8, <1>9

(***************************************************************************)
(* Handles: h[u] is the handle of each u in H, a node or the root.         *)
(***************************************************************************)

Points(tr, h, H) == \A u \in H : h[u] \in Nodes(tr) \cup {<<>>}
Covering(h, H, b) == {u \in H : IsPrefix(b, h[u])}
Counts(tr, h, H) == \A n \in Nodes(tr) : tr.ref[n] = Cardinality(Covering(h, H, n))

\* A handle covers a block exactly when it covers its edge.
LEMMA CoversEdge ==
  ASSUME NEW S, NEW P, NEW tr, IsTree(tr, S, P), NEW h, NEW H, Points(tr, h, H),
         NEW b \in Blocks(tr)
  PROVE  Covering(h, H, b) = Covering(h, H, NodeOf(tr, b))
<1>1. PICK x \in Nodes(tr) : /\ x = NodeOf(tr, b) /\ x \in Seq(S) /\ IsPrefix(b, x)
                             /\ \A m \in Nodes(tr) : IsPrefix(b, m) => IsPrefix(x, m)
  BY NodeOfIs
<1>2. b \in Seq(S) /\ b # <<>>
  BY BlockFacts
<1>3. ASSUME NEW u \in H PROVE IsPrefix(b, h[u]) <=> IsPrefix(x, h[u])
  <2>1. PICK m \in Nodes(tr) \cup {<<>>} : m = h[u]
    BY DEF Points
  <2>2. CASE m = <<>>
    <3>1. x # <<>>
      <4>1. x \in Blocks(tr)
        BY <1>1, NodeOfNode
      <4> QED BY <4>1, BlockFacts
    <3>2. ~IsPrefix(b, <<>>) /\ ~IsPrefix(x, <<>>)
      BY <1>1, <1>2, <3>1, PrefixEmpty
    <3> QED BY <2>1, <2>2, <3>2
  <2>3. CASE m \in Nodes(tr)
    <3>1. m \in Seq(S)
      BY <2>3, NodeOfNode
    <3>2. IsPrefix(x, m) => IsPrefix(b, m)
      BY <1>1, <1>2, <3>1, PrefixTrans
    <3> QED BY <1>1, <2>1, <2>3, <3>2
  <2> QED BY <2>1, <2>2, <2>3
<1> QED BY <1>1, <1>3 DEF Covering

\* So a block is protected exactly when some handle is at or below it.
LEMMA BlockCount ==
  ASSUME NEW S, NEW P, NEW tr, IsTree(tr, S, P), NEW h, NEW H, Points(tr, h, H), Counts(tr, h, H),
         NEW b \in Blocks(tr)
  PROVE  tr.ref[NodeOf(tr, b)] = Cardinality(Covering(h, H, b))
<1>1. NodeOf(tr, b) \in Nodes(tr)
  BY NodeOfIs
<1> QED BY <1>1, CoversEdge DEF Counts

(* Splitting a node keeps every count equal to the number of handles below it. *)
LEMMA CountsSplit ==
  ASSUME NEW S, NEW P, NEW tr, IsTree(tr, S, P), NEW h, NEW H, Points(tr, h, H), Counts(tr, h, H),
         NEW b \in Blocks(tr) \cup {<<>>}
  PROVE  Points(SplitAt(tr, b), h, H) /\ Counts(SplitAt(tr, b), h, H)
<1>1. PICK st : st = SplitAt(tr, b)
  OBVIOUS
<1>2. /\ Nodes(st) = Nodes(tr) \cup ({b} \ {<<>>})
      /\ \A n \in Nodes(st) : st.ref[n] = tr.ref[NodeOf(tr, n)]
  BY <1>1, SplitTree
<1>3. Points(st, h, H)
  BY <1>2 DEF Points
<1>4. ASSUME NEW n \in Nodes(st) PROVE st.ref[n] = Cardinality(Covering(h, H, n))
  <2>1. n \in Blocks(tr)
    BY <1>2, NodeOfNode
  <2> QED BY <1>2, <2>1, BlockCount
<1> QED BY <1>1, <1>3, <1>4 DEF Counts

(* An insertion keeps every count equal to the number of handles below it: the
   new node has none. *)
LEMMA CountsInsert ==
  ASSUME NEW S, NEW P, NEW tr, IsTree(tr, S, P), NEW h, NEW H, Points(tr, h, H), Counts(tr, h, H),
         NEW st, IsTree(st, S, P), NEW ids, NEW pages, Inserted(tr, ids, pages, st)
  PROVE  Points(st, h, H) /\ Counts(st, h, H)
<1>1. /\ Nodes(tr) \subseteq Nodes(st)
      /\ \A n \in Nodes(st) : IF n \in Blocks(tr) THEN st.ref[n] = tr.ref[NodeOf(tr, n)]
                              ELSE st.ref[n] = 0
  BY DEF Inserted
<1>2. Points(st, h, H)
  BY <1>1 DEF Points
<1>3. ASSUME NEW n \in Nodes(st) PROVE st.ref[n] = Cardinality(Covering(h, H, n))
  <2>1. CASE n \in Blocks(tr)
    BY <1>1, <2>1, BlockCount
  <2>2. CASE n \notin Blocks(tr)
    <3>1. n \in Seq(S) /\ n # <<>> /\ Len(n) % PageSize = 0
      <4>1. n \in Blocks(st)
        BY NodeOfNode
      <4> QED BY <4>1, BlockFacts
    <3>2. ASSUME NEW u \in H PROVE ~IsPrefix(n, h[u])
      <4>1. PICK m \in Nodes(tr) \cup {<<>>} : m = h[u]
        BY DEF Points
      <4>2. CASE m = <<>>
        BY <3>1, <4>1, <4>2, PrefixEmpty
      <4>3. CASE m \in Nodes(tr)
        <5>1. m \in Blocks(tr)
          BY <4>3, NodeOfNode
        <5> QED BY <2>2, <3>1, <4>1, <5>1, BlockAbove
      <4> QED BY <4>2, <4>3
    <3>3. Covering(h, H, n) = {}
      BY <3>2 DEF Covering
    <3>4. Cardinality({}) = 0
      BY FS_EmptySet
    <3> QED BY <1>1, <2>2, <3>3, <3>4
  <2> QED BY <2>1, <2>2
<1> QED BY <1>2, <1>3 DEF Counts

\* Locking a handle for v, who had none.
LEMMA CountsLock ==
  ASSUME NEW S, NEW P, NEW tr, IsTree(tr, S, P), NEW h, NEW H, Points(tr, h, H), Counts(tr, h, H),
         IsFiniteSet(H), NEW v, v \notin H, NEW path, path \in Nodes(tr) \cup {<<>>},
         NEW g, g[v] = path, \A u \in H : g[u] = h[u]
  PROVE  Points(lock(tr, path), g, H \cup {v}) /\ Counts(lock(tr, path), g, H \cup {v})
<1>1. PICK st : st = lock(tr, path)
  OBVIOUS
<1>2. /\ Nodes(st) = Nodes(tr)
      /\ \A n \in Nodes(tr) : st.ref[n] = IF IsPrefix(n, path) THEN tr.ref[n] + 1 ELSE tr.ref[n]
  BY <1>1, LockTree
<1>3. Points(st, g, H \cup {v})
  BY <1>2 DEF Points
<1>4. ASSUME NEW n \in Nodes(tr) PROVE st.ref[n] = Cardinality(Covering(g, H \cup {v}, n))
  <2>1. PICK C : C = Covering(h, H, n) /\ tr.ref[n] = Cardinality(C)
    BY DEF Counts
  <2>2. IsFiniteSet(C) /\ v \notin C
    <3>1. C \subseteq H
      BY <2>1 DEF Covering
    <3> QED BY <3>1, FS_Subset
  <2>3. CASE IsPrefix(n, path)
    <3>1. Covering(g, H \cup {v}, n) = C \cup {v}
      BY <2>1, <2>3 DEF Covering
    <3>2. Cardinality(C \cup {v}) = Cardinality(C) + 1
      BY <2>2, FS_AddElement
    <3> QED BY <1>2, <2>1, <2>3, <3>1, <3>2
  <2>4. CASE ~IsPrefix(n, path)
    <3>1. Covering(g, H \cup {v}, n) = C
      BY <2>1, <2>4 DEF Covering
    <3> QED BY <1>2, <2>1, <2>4, <3>1
  <2> QED BY <2>3, <2>4
<1> QED BY <1>1, <1>2, <1>3, <1>4 DEF Counts

\* Unlocking the handle v holds: no count was zero, and the others' stay.
LEMMA CountsUnlock ==
  ASSUME NEW S, NEW P, NEW tr, IsTree(tr, S, P), NEW h, NEW H, Points(tr, h, H), Counts(tr, h, H),
         IsFiniteSet(H), NEW v \in H, NEW path, path = h[v]
  PROVE  /\ \A n \in Nodes(tr) : IsPrefix(n, path) => tr.ref[n] > 0
         /\ Points(unlock(tr, path), h, H \ {v}) /\ Counts(unlock(tr, path), h, H \ {v})
<1>1. ASSUME NEW n \in Nodes(tr)
      PROVE  /\ IsPrefix(n, path) => tr.ref[n] > 0 /\ tr.ref[n] - 1 = Cardinality(Covering(h, H \ {v}, n))
             /\ ~IsPrefix(n, path) => tr.ref[n] = Cardinality(Covering(h, H \ {v}, n))
  <2>1. PICK C : C = Covering(h, H, n) /\ tr.ref[n] = Cardinality(C)
    BY DEF Counts
  <2>2. IsFiniteSet(C)
    <3>1. C \subseteq H
      BY <2>1 DEF Covering
    <3> QED BY <3>1, FS_Subset
  <2>3. CASE IsPrefix(n, path)
    <3>1. v \in C /\ Covering(h, H \ {v}, n) = C \ {v}
      BY <2>1, <2>3 DEF Covering
    <3>2. Cardinality(C \ {v}) = Cardinality(C) - 1 /\ Cardinality(C \ {v}) \in Nat
          /\ Cardinality(C) \in Nat
      <4>1. IsFiniteSet(C \ {v})
        BY <2>2, FS_Subset
      <4>2. Cardinality(C \ {v}) \in Nat /\ Cardinality(C) \in Nat
        BY <2>2, <4>1, FS_CardinalityType
      <4>3. Cardinality(C \ {v}) = Cardinality(C) - 1
        BY <2>2, <3>1, FS_RemoveElement
      <4> QED BY <4>2, <4>3
    <3>3. PICK k \in Nat : k = tr.ref[n] /\ k = Cardinality(C)
      BY <2>1, <3>2
    <3>4. PICK j \in Nat : j = Cardinality(Covering(h, H \ {v}, n)) /\ j = k - 1
      BY <3>1, <3>2, <3>3
    <3>5. k > 0 /\ k - 1 = j
      BY ONLY <3>3, <3>4
    <3> QED BY <2>3, <3>3, <3>4, <3>5
  <2>4. CASE ~IsPrefix(n, path)
    <3>1. Covering(h, H \ {v}, n) = C
      BY <2>1, <2>4 DEF Covering
    <3> QED BY <2>1, <2>4, <3>1
  <2> QED BY <2>3, <2>4
<1>2. PICK st : st = unlock(tr, path)
  OBVIOUS
<1>3. /\ Nodes(st) = Nodes(tr)
      /\ \A n \in Nodes(tr) : st.ref[n] = IF IsPrefix(n, path) THEN tr.ref[n] - 1 ELSE tr.ref[n]
  BY <1>1, <1>2, UnlockTree
<1>4. Points(st, h, H \ {v})
  BY <1>3 DEF Points
<1>5. ASSUME NEW n \in Nodes(st) PROVE st.ref[n] = Cardinality(Covering(h, H \ {v}, n))
  <2>1. CASE IsPrefix(n, path)
    BY <1>1, <1>3, <2>1
  <2>2. CASE ~IsPrefix(n, path)
    BY <1>1, <1>3, <2>2
  <2> QED BY <2>1, <2>2
<1> QED BY <1>1, <1>2, <1>4, <1>5 DEF Counts

\* evict leaves every handle's path in place.
LEMMA CountsRemove ==
  ASSUME NEW S, NEW P, NEW tr, IsTree(tr, S, P), NEW h, NEW H, Points(tr, h, H), Counts(tr, h, H),
         IsFiniteSet(H), NEW E \in SUBSET Nodes(tr),
         \A n \in E : tr.ref[n] = 0 /\ Children(tr, n) \subseteq E
  PROVE  /\ Points(RemoveNodes(tr, E), h, H) /\ Counts(RemoveNodes(tr, E), h, H)
         /\ \A b \in Blocks(tr) : (\E u \in H : IsPrefix(b, h[u])) => b \in Blocks(RemoveNodes(tr, E))
<1>1. PICK st : st = RemoveNodes(tr, E)
  OBVIOUS
<1>2. /\ Nodes(st) = Nodes(tr) \ E /\ \A n \in Nodes(st) : st.ref[n] = tr.ref[n]
      /\ Blocks(st) = {b \in Blocks(tr) : NodeOf(tr, b) \notin E}
  BY <1>1, RemoveTree
<1>3. ASSUME NEW b \in Blocks(tr), NEW u \in H, IsPrefix(b, h[u]) PROVE NodeOf(tr, b) \notin E
  <2>1. PICK C : C = Covering(h, H, b)
    OBVIOUS
  <2>2. u \in C /\ C \subseteq H
    BY <1>3, <2>1 DEF Covering
  <2>3. IsFiniteSet(C) /\ Cardinality(C) # 0
    BY <2>2, FS_Subset, FS_EmptySet
  <2>4. tr.ref[NodeOf(tr, b)] = Cardinality(C)
    BY <2>1, BlockCount
  <2> QED BY <2>3, <2>4
<1>4. ASSUME NEW u \in H PROVE h[u] \in Nodes(st) \cup {<<>>}
  <2>1. PICK m \in Nodes(tr) \cup {<<>>} : m = h[u]
    BY DEF Points
  <2>2. ASSUME m \in Nodes(tr) PROVE m \notin E
    <3>1. m \in Blocks(tr) /\ m \in Seq(S) /\ NodeOf(tr, m) = m
      BY <2>2, NodeOfNode
    <3>2. IsPrefix(m, h[u])
      BY <2>1, <3>1, PrefixRefl
    <3> QED BY <1>3, <3>1, <3>2
  <2> QED BY <1>2, <2>1, <2>2
<1>5. Points(st, h, H)
  BY <1>4 DEF Points
<1>6. Counts(st, h, H)
  BY <1>2 DEF Counts
<1>7. ASSUME NEW b \in Blocks(tr), \E u \in H : IsPrefix(b, h[u]) PROVE b \in Blocks(st)
  BY <1>2, <1>3, <1>7
<1> QED BY <1>1, <1>5, <1>6, <1>7
===============================================================================
