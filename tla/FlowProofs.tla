------------------------------ MODULE FlowProofs -------------------------------
(***************************************************************************)
(* RequestFlow for any number of requests, tokenizer workers, rebuilds and *)
(* deaths: the inductive invariant of the queues between the processes,    *)
(* and the properties it gives.                                            *)
(***************************************************************************)
EXTENDS RequestFlow, FunctionTheorems, FiniteSetTheorems, SequenceTheorems,
        TLAPS

Asks == [kind : {"tokenize", "abort"}, id : Uids] \cup [kind : {"rebuild"}, id : RebuildIds]
Orders == [kind : {"user", "abort"}, id : Uids] \cup [kind : {"rebuild"}, id : RebuildIds]
Replies ==
    [kind : {"admitted", "token", "last", "error"}, id : Uids] \cup
    [kind : {"rebuilt"}, id : RebuildIds]

Tokens == {"token", "last"}
Counted == {"admitted"} \cup Tokens
Ends == {"last", "error"}
Rebuilding == {"rebuild", "rebuilt"}

\* Where s has messages of these kinds for u, and whether it has any.
Where(s, u, kinds) == {i \in DOMAIN s : s[i].id = u /\ s[i].kind \in kinds}
Has(s, u, kinds) == \E i \in DOMAIN s : s[i].id = u /\ s[i].kind \in kinds
Count(s, u, kinds) == Cardinality(Where(s, u, kinds))

Answers == to_front[Detokenizer]
Served(u) == stage[u] \in {"held", "closing"}

Statistics ==
    [inflight : SUBSET Uids, aborting : SUBSET Uids, completed : SUBSET Uids,
     prompts : [Uids -> Nat], tokens : [Uids -> Nat]]

FrontendTypes ==
    /\ maintenance_state \in {"loading", "serving", "rebuilding", "stopping", "failed"}
    /\ fatal_error \in BOOLEAN /\ listening \in BOOLEAN
    /\ uid_counter \in 0 .. Cardinality(Uids)
    /\ ack_map \subseteq Uids /\ acks \in [Uids -> SUBSET {"reply", "finished"}]
    /\ gate_free \in Nat /\ gate_uids \subseteq Uids
    /\ stats \in Statistics
    /\ stats.aborting \subseteq stats.inflight
    /\ http \in [Uids -> {"none", "registered", "waiting", "answered", "failed", "left", "broken"}]
    /\ abort_tasks \in [Uids -> SUBSET {"client", "stop"}]
    /\ active_rebuild \in {0} \cup RebuildIds /\ rebuild_futures \subseteq RebuildIds
    /\ last_rebuild_id \in 0 .. MaxRebuilds
    /\ prepare \in {"no", "drain", "aborting", "abort_wait"}
    /\ supervisor \in {"loading", "watching", "marked", "rebuilds_failed", "done"}
    /\ decode_map \subseteq Uids /\ dead \subseteq Processes

QueueTypes ==
    /\ to_worker \in [Tokenizers -> Seq(Asks)]
    /\ to_sched \in [Tokenizers -> Seq(Orders)]
    /\ to_detok \in Seq(Replies)
    /\ to_front \in [Workers -> Seq(Replies)]

EngineTypes ==
    /\ stage \in [Uids -> {"absent", "held", "closing", "ended"}]
    /\ tombstones \subseteq Uids /\ pending_abort_acks \subseteq Uids /\ admitted \subseteq Uids
    /\ emitted \in [Uids -> Nat]
    /\ queued_rebuild \in BOOLEAN /\ rebuild_msg \in {0} \cup RebuildIds

FlowTypes == FrontendTypes /\ QueueTypes /\ EngineTypes

\* What a request's stage says of the rest of the engine's memory of it.
EngineOK ==
    \A u \in Uids :
        /\ stage[u] = "closing" => u \in pending_abort_acks
        /\ u \in pending_abort_acks =>
             stage[u] # "held" /\ (stage[u] = "absent" => u \in tombstones)
        /\ u \in BadPrompts => stage[u] = "absent"
        /\ u \in admitted => stage[u] # "absent"
        /\ u \notin admitted => emitted[u] = 0
        /\ emitted[u] <= MaxTokens
        /\ Served(u) => emitted[u] < MaxTokens

\* No request of which an end was reported will be served again.
Over(u) ==
    stage[u] = "ended" \/ (stage[u] = "absent" /\ (u \in tombstones \/ u \in BadPrompts))

\* In a queue of replies nothing of a request follows its end ...
EndsLast(s) ==
    \A i, j \in DOMAIN s :
        i < j /\ s[i].kind \in Ends /\ s[j].kind \in Counted => s[i].id # s[j].id

\* ... nor does it from one queue to the next, nor from the engine.
RepliesOK ==
    /\ \A w \in Workers \ {Detokenizer} : \A i \in DOMAIN to_front[w] :
         to_front[w][i].kind = "error" /\ to_front[w][i].id \in BadPrompts
    /\ EndsLast(to_detok) /\ EndsLast(Answers)
    /\ \A u \in Uids :
         /\ Has(Answers, u, Ends) => ~Has(to_detok, u, Counted)
         /\ Has(to_detok, u, Ends) => Over(u)
         /\ \A w \in Workers : Has(to_front[w], u, Ends) => Over(u)

\* What the statistics have counted and what is on its way is what the engine sent.
CountsOK ==
    \A u \in Uids :
        /\ stats.tokens[u] + Count(Answers, u, Tokens) + Count(to_detok, u, Tokens) = emitted[u]
        /\ stats.prompts[u] + Count(Answers, u, {"admitted"}) + Count(to_detok, u, {"admitted"})
             = IF u \in admitted THEN 1 ELSE 0

\* A request on its way to the engine is in flight, or will not get in.
OrdersOK ==
    \A u \in Uids :
        /\ http[u] = "registered" => u \in stats.inflight
        /\ \A w \in Tokenizers :
             /\ Has(to_sched[w], u, {"user"}) => u \notin BadPrompts
             /\ dead = {} /\ u \notin BadPrompts
                  /\ (Has(to_worker[w], u, {"tokenize"}) \/ Has(to_sched[w], u, {"user"})) =>
                  u \in stats.inflight \/ u \in tombstones \/ stage[u] # "absent"

\* InFlightUntilLastToken, as long as every worker lives: a death ends requests
\* for the statistics that the engine may still serve.
InFlightOK ==
    dead = {} =>
        \A u \in Uids :
            Served(u) \/ Has(to_detok, u, Counted) \/ Has(Answers, u, Counted) =>
                u \in stats.inflight

\* Whatever stops admission is there before the barrier, and stays.
SealOK ==
    /\ prepare # "no" => maintenance_state \in {"stopping", "failed"}
    /\ dead = {} /\ sealed # <<>> =>
         /\ maintenance_state \in {"stopping", "failed"}
         /\ stats.inflight = {} /\ sealed = Totals

\* A slot of the gate is free or taken by a uid handed out; with sends that do not
\* fail, by the requests in flight.
GateOK ==
    /\ GateLimit = 0 => gate_uids = {}
    /\ gate_free + Cardinality(gate_uids) = GateLimit
    /\ \A u \in gate_uids : u < uid_counter
    /\ GateLimit > 0 /\ ~SendFails /\ dead = {} => gate_uids = stats.inflight

\* The supervisor has something to report only after a death.
DeathOK == dead = {} => supervisor \in {"loading", "watching"} /\ loop_calls = <<>>

\* Who still gets a terminal message from the engine.
Awaited(u) == Served(u) \/ u \in pending_abort_acks

\* A token in a queue has an end behind it, or its request is in A.
Followed(s, A) ==
    \A i \in DOMAIN s :
        s[i].kind = "token" =>
            \/ s[i].id \in A
            \/ \E j \in DOMAIN s : i < j /\ s[j].id = s[i].id /\ s[j].kind \in Ends

\* A token on its way to the detokenizer, or decoded there, has an end behind it.
DecodeOK ==
    /\ \A u \in decode_map : Awaited(u) \/ Has(to_detok, u, Ends)
    /\ Followed(to_detok, {u \in Uids : Awaited(u)})

\* The places a rebuild may be at.
Carries(s) == \E i \in DOMAIN s : s[i].kind \in Rebuilding
RebuildAt ==
    {<<"worker", w>> : w \in {v \in Tokenizers : Carries(to_worker[v])}} \cup
    {<<"sched", w>> : w \in {v \in Tokenizers : Carries(to_sched[v])}} \cup
    {<<"front", w>> : w \in {v \in Workers : Carries(to_front[v])}} \cup
    {x \in {<<"detok", Detokenizer>>} : Carries(to_detok)} \cup
    {x \in {<<"engine", Detokenizer>>} : rebuild_msg # 0}

CarriesOne(s, r) ==
    /\ \A i, j \in DOMAIN s : s[i].kind \in Rebuilding /\ s[j].kind \in Rebuilding => i = j
    /\ \A i \in DOMAIN s : s[i].kind \in Rebuilding => s[i].id = r

\* There is one rebuild at a time, at one place, and it is the active one.
RebuildOK ==
    /\ queued_rebuild = (rebuild_msg # 0)
    /\ \A x, y \in RebuildAt : x = y
    /\ \A w \in Tokenizers :
         CarriesOne(to_worker[w], active_rebuild) /\ CarriesOne(to_sched[w], active_rebuild)
    /\ \A w \in Workers : CarriesOne(to_front[w], active_rebuild)
    /\ CarriesOne(to_detok, active_rebuild)
    /\ rebuild_msg \in {0, active_rebuild}
    /\ active_rebuild <= last_rebuild_id
    /\ active_rebuild # 0 => maintenance_state \in {"rebuilding", "failed"}

FlowInv ==
    /\ FlowTypes /\ EngineOK /\ RepliesOK /\ CountsOK /\ OrdersOK /\ InFlightOK /\ SealOK /\ GateOK
    /\ DeathOK /\ DecodeOK /\ RebuildOK


(***************************************************************************)
(* Messages picked from a queue.                                           *)
(***************************************************************************)

\* f lists the positions P in increasing order.
Lists(f, P) ==
    /\ f \in [1 .. Cardinality(P) -> P]
    /\ \A i \in P : \E k \in 1 .. Cardinality(P) : f[k] = i
    /\ \A k, l \in 1 .. Cardinality(P) : k < l => f[k] < f[l]

(* At reads s at the positions, in increasing order. *)
LEMMA AtLists ==
  ASSUME NEW S, NEW s \in Seq(S), NEW P \in SUBSET (1 .. Len(s))
  PROVE  /\ IsFiniteSet(P) /\ Cardinality(P) \in Nat
         /\ At(s, P) \in Seq(S) /\ Len(At(s, P)) = Cardinality(P)
         /\ \E f : Lists(f, P) /\ \A k \in 1 .. Cardinality(P) : At(s, P)[k] = s[f[k]]
<1> DEFINE Upto(i) == {j \in P : j <= i}
           rank == [i \in P |-> Cardinality(Upto(i))]
           n == Cardinality(P)
<1>1. IsFiniteSet(P) /\ n \in Nat
  <2>1. Len(s) \in Nat /\ 1 \in Int /\ Len(s) \in Int
    OBVIOUS
  <2>2. IsFiniteSet(1 .. Len(s))
    BY <2>1, FS_Interval
  <2> QED BY <2>2, FS_Subset, FS_CardinalityType
<1>2. ASSUME NEW i \in P
      PROVE  IsFiniteSet(Upto(i)) /\ Cardinality(Upto(i)) \in 1 .. n
  <2>1. Upto(i) \in SUBSET P
    OBVIOUS
  <2>2. IsFiniteSet(Upto(i)) /\ Cardinality(Upto(i)) <= n
    BY <1>1, <2>1, FS_Subset
  <2>3. Cardinality(Upto(i)) \in Nat
    BY <2>2, FS_CardinalityType
  <2>4. Upto(i) # {}
    <3>1. i \in Nat
      OBVIOUS
    <3> QED BY <3>1
  <2>5. Cardinality(Upto(i)) # 0
    BY <2>2, <2>4, FS_EmptySet
  <2> QED BY <1>1, <2>2, <2>3, <2>5
<1>3. ASSUME NEW i \in P, NEW j \in P, i < j
      PROVE  Cardinality(Upto(i)) < Cardinality(Upto(j))
  <2>1. Upto(i) \in SUBSET Upto(j) /\ j \in Upto(j) /\ j \notin Upto(i)
    <3>1. i \in Nat /\ j \in Nat /\ P \subseteq Nat
      OBVIOUS
    <3>2. ~(j <= i) /\ j <= j /\ \A x \in Nat : x <= i => x <= j
      BY <1>3, <3>1
    <3>3. \A x \in P : x <= i => x <= j
      BY <3>1, <3>2
    <3> QED BY <3>2, <3>3, Zenon
  <2>2. Cardinality(Upto(i)) <= Cardinality(Upto(j)) /\ Cardinality(Upto(i)) # Cardinality(Upto(j))
    <3>1. IsFiniteSet(Upto(j))
      BY <1>2
    <3> HIDE DEF Upto
    <3> QED BY <2>1, <3>1, FS_Subset
  <2>3. Cardinality(Upto(i)) \in Nat /\ Cardinality(Upto(j)) \in Nat
    BY <1>2, FS_CardinalityType
  <2> HIDE DEF Upto
  <2> QED BY <2>2, <2>3
<1>4. ASSUME NEW k \in 1 .. n
      PROVE  \E i \in P : Cardinality(Upto(i)) = k
  <2>1. rank \in [P -> 1 .. n]
    <3> HIDE DEF Upto
    <3> QED BY <1>2
  <2>2. \A i, j \in P : rank[i] = rank[j] => i = j
    <3>1. SUFFICES ASSUME NEW i \in P, NEW j \in P, i # j
                   PROVE  rank[i] # rank[j]
      OBVIOUS
    <3>2. /\ i < j => Cardinality(Upto(i)) < Cardinality(Upto(j))
          /\ j < i => Cardinality(Upto(j)) < Cardinality(Upto(i))
      BY <1>3
    <3>3. i \in Nat /\ j \in Nat /\ Cardinality(Upto(i)) \in Nat /\ Cardinality(Upto(j)) \in Nat
      <4>1. Cardinality(Upto(i)) \in Nat /\ Cardinality(Upto(j)) \in Nat
        BY <1>2, FS_CardinalityType
      <4> QED BY <4>1
    <3> HIDE DEF Upto
    <3> QED BY <3>1, <3>2, <3>3
  <2>3. rank \in Injection(P, 1 .. n)
    <3> HIDE DEF rank
    <3> QED BY <2>1, <2>2 DEF Injection, IsInjective
  <2>4. IsFiniteSet(1 .. n) /\ Cardinality(1 .. n) = n
    <3>1. 1 \in Int /\ n \in Int
      BY <1>1
    <3>2. IsFiniteSet(1 .. n) /\ Cardinality(1 .. n) = IF 1 > n THEN 0 ELSE n - 1 + 1
      BY <3>1, FS_Interval
    <3> QED BY <1>1, <3>2
  <2>5. rank \in Surjection(P, 1 .. n)
    <3> HIDE DEF rank
    <3> QED BY <1>1, <2>3, <2>4, FS_Injection
  <2>6. \E i \in P : rank[i] = k
    <3>1. \A t \in 1 .. n : \E i \in P : rank[i] = t
      <4> HIDE DEF rank, n
      <4> QED BY <2>5 DEF Surjection
    <3> HIDE DEF rank
    <3> QED BY <3>1
  <2> HIDE DEF Upto
  <2> QED BY <2>6
<1>5. PICK f : f = [k \in 1 .. n |-> CHOOSE i \in P : Cardinality(Upto(i)) = k]
  OBVIOUS
<1>6. \A k \in 1 .. n : f[k] \in P /\ Cardinality(Upto(f[k])) = k
  <2>1. SUFFICES ASSUME NEW k \in 1 .. n
                 PROVE  f[k] \in P /\ Cardinality(Upto(f[k])) = k
    OBVIOUS
  <2>2. f[k] = CHOOSE i \in P : Cardinality(Upto(i)) = k
    BY <1>5
  <2> HIDE DEF Upto
  <2> QED BY <1>4, <2>2
<1>7. f \in [1 .. n -> P]
  BY <1>5, <1>6
<1>8. \A i \in P : \E k \in 1 .. n : f[k] = i
  <2>1. SUFFICES ASSUME NEW i \in P
                 PROVE  \E k \in 1 .. n : f[k] = i
    OBVIOUS
  <2>2. PICK k \in 1 .. n : k = Cardinality(Upto(i))
    BY <1>2
  <2>3. f[k] \in P /\ Cardinality(Upto(f[k])) = k
    BY <1>6
  <2>4. PICK j \in P : j = f[k]
    BY <2>3
  <2>5. i \in Nat /\ j \in Nat /\ k \in Nat
    OBVIOUS
  <2>6. ~(i < j) /\ ~(j < i)
    <3>1. /\ i < j => Cardinality(Upto(i)) < Cardinality(Upto(j))
          /\ j < i => Cardinality(Upto(j)) < Cardinality(Upto(i))
      BY <1>3
    <3> HIDE DEF Upto
    <3> QED BY <2>2, <2>3, <2>4, <2>5, <3>1
  <2> QED BY <2>4, <2>5, <2>6
<1>9. \A k, l \in 1 .. n : k < l => f[k] < f[l]
  <2>1. SUFFICES ASSUME NEW k \in 1 .. n, NEW l \in 1 .. n, k < l
                 PROVE  f[k] < f[l]
    OBVIOUS
  <2>2. PICK i \in P, j \in P : i = f[k] /\ j = f[l]
    BY <1>6
  <2>3. Cardinality(Upto(i)) = k /\ Cardinality(Upto(j)) = l
    BY <1>6, <2>2
  <2>4. j < i => Cardinality(Upto(j)) < Cardinality(Upto(i))
    BY <1>3
  <2>5. i \in Nat /\ j \in Nat /\ k \in Nat /\ l \in Nat
    OBVIOUS
  <2>6. i < j
    <3> HIDE DEF Upto
    <3> QED BY <2>1, <2>3, <2>4, <2>5
  <2> QED BY <2>2, <2>6
<1>10. At(s, P) = [k \in 1 .. n |-> s[f[k]]]
  BY <1>5 DEF At
<1>11. \A k \in 1 .. n : s[f[k]] \in S
  <2>1. \A i \in P : s[i] \in S
    OBVIOUS
  <2> QED BY <1>6, <2>1
<1>12. At(s, P) \in Seq(S) /\ Len(At(s, P)) = n
  <2> HIDE DEF n
  <2> QED BY <1>1, <1>10, <1>11
<1>13. \A k \in 1 .. n : At(s, P)[k] = s[f[k]]
  BY <1>10
<1>14. Lists(f, P)
  BY <1>7, <1>8, <1>9 DEF Lists
<1> QED BY <1>1, <1>12, <1>13, <1>14

\* Where a queue has messages is a finite set of positions.
LEMMA WhereFinite ==
  ASSUME NEW M, NEW s \in Seq(M), NEW u, NEW K
  PROVE  /\ Where(s, u, K) \subseteq 1 .. Len(s) /\ IsFiniteSet(Where(s, u, K))
         /\ Count(s, u, K) \in Nat
         /\ Count(s, u, K) = 0 <=> ~Has(s, u, K)
<1>1. Where(s, u, K) \subseteq 1 .. Len(s)
  BY DEF Where
<1>2. IsFiniteSet(1 .. Len(s))
  <2>1. 1 \in Int /\ Len(s) \in Int
    OBVIOUS
  <2> QED BY <2>1, FS_Interval
<1>3. IsFiniteSet(Where(s, u, K))
  BY <1>1, <1>2, FS_Subset
<1>4. Count(s, u, K) \in Nat /\ (Count(s, u, K) = 0 <=> Where(s, u, K) = {})
  BY <1>3, FS_CardinalityType, FS_EmptySet DEF Count
<1>5. Where(s, u, K) = {} <=> ~Has(s, u, K)
  BY DEF Where, Has
<1> QED BY <1>1, <1>3, <1>4, <1>5

\* Positions of one queue shown in another hold the same number of messages.
LEMMA CountSame ==
  ASSUME NEW A, NEW B, NEW f \in [A -> B], IsFiniteSet(B),
         \A b \in B : \E a \in A : f[a] = b,
         \A a, c \in A : f[a] = f[c] => a = c
  PROVE  IsFiniteSet(A) /\ Cardinality(A) = Cardinality(B)
<1>1. f \in Injection(A, B)
  BY DEF Injection, IsInjective
<1>2. f \in Surjection(A, B)
  BY DEF Surjection
<1> QED BY <1>1, <1>2, FS_Injection

\* What holds of a queue holds of its messages one after the other.
LEMMA CatHas ==
  ASSUME NEW M, NEW s \in Seq(M), NEW t \in Seq(M), NEW u, NEW K
  PROVE  /\ s \o t \in Seq(M)
         /\ Has(s \o t, u, K) <=> Has(s, u, K) \/ Has(t, u, K)
<1>1. PICK r : r = s \o t
  OBVIOUS
<1>2. /\ r \in Seq(M) /\ Len(r) = Len(s) + Len(t) /\ Len(s) \in Nat /\ Len(t) \in Nat
      /\ \A i \in 1 .. Len(s) : r[i] = s[i]
      /\ \A i \in 1 .. Len(t) : r[Len(s) + i] = t[i]
      /\ DOMAIN r = 1 .. Len(r) /\ DOMAIN s = 1 .. Len(s) /\ DOMAIN t = 1 .. Len(t)
  BY <1>1
<1>3. ASSUME Has(r, u, K)
      PROVE  Has(s, u, K) \/ Has(t, u, K)
  <2>1. PICK i \in 1 .. Len(r) : r[i].id = u /\ r[i].kind \in K
    BY <1>2, <1>3 DEF Has
  <2>2. CASE i <= Len(s)
    BY <1>2, <2>1, <2>2 DEF Has
  <2>3. CASE ~(i <= Len(s))
    <3>1. PICK k \in 1 .. Len(t) : i = Len(s) + k
      <4>1. i - Len(s) \in 1 .. Len(t) /\ i = Len(s) + (i - Len(s))
        BY <1>2, <2>1, <2>3
      <4> QED BY <4>1
    <3> QED BY <1>2, <2>1, <3>1 DEF Has
  <2> QED BY <2>2, <2>3
<1>4. ASSUME Has(s, u, K)
      PROVE  Has(r, u, K)
  <2>1. PICK i \in 1 .. Len(s) : s[i].id = u /\ s[i].kind \in K
    BY <1>2, <1>4 DEF Has
  <2>2. i \in 1 .. Len(r)
    BY <1>2
  <2> QED BY <1>2, <2>1, <2>2 DEF Has
<1>5. ASSUME Has(t, u, K)
      PROVE  Has(r, u, K)
  <2>1. PICK i \in 1 .. Len(t) : t[i].id = u /\ t[i].kind \in K
    BY <1>2, <1>5 DEF Has
  <2>2. Len(s) + i \in 1 .. Len(r)
    BY <1>2
  <2> QED BY <1>2, <2>1, <2>2 DEF Has
<1> QED BY <1>1, <1>2, <1>3, <1>4, <1>5

\* Counting goes from queue to queue.
LEMMA CatCount ==
  ASSUME NEW M, NEW s \in Seq(M), NEW t \in Seq(M), NEW u, NEW K
  PROVE  Count(s \o t, u, K) = Count(s, u, K) + Count(t, u, K)
<1>1. PICK r : r = s \o t
  OBVIOUS
<1>2. /\ r \in Seq(M) /\ Len(r) = Len(s) + Len(t) /\ Len(s) \in Nat /\ Len(t) \in Nat
      /\ \A i \in 1 .. Len(s) : r[i] = s[i]
      /\ \A i \in 1 .. Len(t) : r[Len(s) + i] = t[i]
      /\ DOMAIN r = 1 .. Len(r) /\ DOMAIN s = 1 .. Len(s) /\ DOMAIN t = 1 .. Len(t)
  BY <1>1
<1>3. PICK A, B, C, D : /\ A = Where(s, u, K) /\ B = Where(t, u, K) /\ C = Where(r, u, K)
                        /\ D = {Len(s) + i : i \in B}
  OBVIOUS
<1>4. /\ IsFiniteSet(A) /\ IsFiniteSet(B) /\ IsFiniteSet(C)
      /\ A \subseteq 1 .. Len(s) /\ B \subseteq 1 .. Len(t) /\ C \subseteq 1 .. Len(r)
      /\ Cardinality(A) \in Nat /\ Cardinality(B) \in Nat
  BY <1>2, <1>3, WhereFinite, FS_CardinalityType
<1>5. C = A \cup D
  <2>1. ASSUME NEW i \in C PROVE i \in A \cup D
    <3>1. i \in 1 .. Len(r) /\ r[i].id = u /\ r[i].kind \in K
      BY <1>2, <1>3 DEF Where
    <3>2. CASE i <= Len(s)
      <4>1. i \in 1 .. Len(s)
        BY <1>2, <3>1, <3>2
      <4> QED BY <1>2, <1>3, <3>1, <4>1 DEF Where
    <3>3. CASE ~(i <= Len(s))
      <4>1. PICK k \in 1 .. Len(t) : i = Len(s) + k
        <5>1. i - Len(s) \in 1 .. Len(t) /\ i = Len(s) + (i - Len(s))
          BY <1>2, <3>1, <3>3
        <5> QED BY <5>1
      <4>2. k \in B
        BY <1>2, <1>3, <3>1, <4>1 DEF Where
      <4> QED BY <1>3, <4>1, <4>2
    <3> QED BY <3>2, <3>3
  <2>2. ASSUME NEW i \in A PROVE i \in C
    <3>1. i \in 1 .. Len(s) /\ i \in 1 .. Len(r) /\ s[i].id = u /\ s[i].kind \in K
      BY <1>2, <1>3 DEF Where
    <3> QED BY <1>2, <1>3, <3>1 DEF Where
  <2>3. ASSUME NEW i \in B PROVE Len(s) + i \in C
    <3>1. i \in 1 .. Len(t) /\ Len(s) + i \in 1 .. Len(r) /\ t[i].id = u /\ t[i].kind \in K
      BY <1>2, <1>3 DEF Where
    <3> QED BY <1>2, <1>3, <3>1 DEF Where
  <2>4. D \subseteq C
    BY <1>3, <2>3
  <2> QED BY <2>1, <2>2, <2>4
<1>6. A \cap D = {}
  <2>1. \A i \in A : i <= Len(s)
    BY <1>2, <1>4
  <2>2. \A i \in B : ~(Len(s) + i <= Len(s))
    BY <1>2, <1>4
  <2> QED BY <1>3, <2>1, <2>2
<1>7. IsFiniteSet(D) /\ Cardinality(D) = Cardinality(B)
  <2>1. PICK f : f = [i \in B |-> Len(s) + i]
    OBVIOUS
  <2>2. f \in [B -> D] /\ \A d \in D : \E b \in B : f[b] = d
    BY <1>3, <2>1
  <2>3. \A a, c \in B : f[a] = f[c] => a = c
    <3>1. \A a, c \in B : a \in Nat /\ c \in Nat
      BY <1>4
    <3>2. \A a, c \in Nat : Len(s) + a = Len(s) + c => a = c
      BY <1>2
    <3> QED BY <2>1, <3>1, <3>2
  <2>4. D \subseteq C
    BY <1>5
  <2>5. IsFiniteSet(D)
    BY <1>4, <2>4, FS_Subset
  <2> QED BY <2>2, <2>3, <2>5, CountSame
<1>8. Cardinality(C) = Cardinality(A) + Cardinality(D) - Cardinality(A \cap D)
  BY <1>4, <1>5, <1>7, FS_Union
<1>9. Cardinality(A \cap D) = 0
  BY <1>6, FS_EmptySet
<1>10. Cardinality(C) = Cardinality(A) + Cardinality(B)
  BY <1>4, <1>7, <1>8, <1>9
<1> QED BY <1>1, <1>3, <1>10 DEF Count

\* A message before a queue.
LEMMA BeforeIs ==
  ASSUME NEW M, NEW h \in M, NEW t \in Seq(M)
  PROVE  /\ <<h>> \o t \in Seq(M) /\ Len(<<h>> \o t) = 1 + Len(t) /\ (<<h>> \o t)[1] = h
         /\ \A i \in 1 .. Len(t) : (<<h>> \o t)[1 + i] = t[i]
<1>1. <<h>> \in Seq(M) /\ Len(<<h>>) = 1 /\ <<h>>[1] = h
  OBVIOUS
<1>2. PICK s \in Seq(M) : s = <<h>>
  BY <1>1
<1>3. PICK r : r = s \o t
  OBVIOUS
<1>4. /\ r \in Seq(M) /\ Len(r) = Len(s) + Len(t) /\ Len(s) \in Nat /\ Len(t) \in Nat
      /\ \A i \in 1 .. Len(s) : r[i] = s[i]
      /\ \A i \in 1 .. Len(t) : r[Len(s) + i] = t[i]
  BY <1>3
<1>5. Len(s) = 1 /\ s[1] = h
  BY <1>1, <1>2
<1>6. r[1] = h
  BY <1>4, <1>5
<1> QED BY <1>2, <1>3, <1>4, <1>5, <1>6

\* A function on an initial interval is a sequence.
LEMMA SeqOfFunction ==
  ASSUME NEW S, NEW n \in Nat, NEW f \in [1 .. n -> S]
  PROVE  f \in Seq(S)
  BY SMT

\* A queue cut in two is its parts one after the other.
LEMMA CutParts ==
  ASSUME NEW M, NEW s \in Seq(M), NEW n \in 0 .. Len(s)
  PROVE  /\ SubSeq(s, 1, n) \in Seq(M) /\ SubSeq(s, n + 1, Len(s)) \in Seq(M)
         /\ s = SubSeq(s, 1, n) \o SubSeq(s, n + 1, Len(s))
<1>1. PICK a, b : a = SubSeq(s, 1, n) /\ b = SubSeq(s, n + 1, Len(s))
  OBVIOUS
<1>2. /\ a \in Seq(M) /\ Len(a) = n /\ \A i \in 1 .. n : a[i] = s[i]
      /\ b \in Seq(M) /\ Len(b) = Len(s) - n /\ \A i \in 1 .. Len(s) - n : b[i] = s[n + i]
      /\ Len(s) \in Nat /\ n \in Nat
  <2>1. Len(s) \in Nat /\ n \in Nat /\ n <= Len(s) /\ \A i \in 1 .. Len(s) : s[i] \in M
    OBVIOUS
  <2>2. a \in Seq(M) /\ Len(a) = n
    BY <1>1, <2>1
  <2>3. \A i \in 1 .. n : a[i] = s[i]
    BY <1>1, <2>1
  <2>4. b \in Seq(M)
    BY <1>1, <2>1
  <2>5. Len(b) = Len(s) - n
    BY <1>1, <2>1
  <2>6. \A i \in 1 .. Len(s) - n : b[i] = s[n + i]
    BY <1>1, <2>1
  <2> QED BY <2>1, <2>2, <2>3, <2>4, <2>5, <2>6
<1>3. PICK c : c = a \o b
  OBVIOUS
<1>4. /\ c \in Seq(M) /\ Len(c) = Len(s)
      /\ \A i \in 1 .. n : c[i] = a[i]
      /\ \A i \in 1 .. Len(s) - n : c[n + i] = b[i]
  BY <1>2, <1>3
<1>5. ASSUME NEW i \in 1 .. Len(s) PROVE c[i] = s[i]
  <2>1. CASE i <= n
    BY <1>2, <1>4, <2>1
  <2>2. CASE ~(i <= n)
    <3>1. PICK k \in 1 .. Len(s) - n : i = n + k
      <4>1. i - n \in 1 .. Len(s) - n /\ i = n + (i - n)
        BY <1>2, <2>2
      <4> QED BY <4>1
    <3> QED BY <1>2, <1>4, <3>1
  <2> QED BY <2>1, <2>2
<1>6. c = s
  <2>1. c \in Seq(M) /\ s \in Seq(M) /\ Len(c) = Len(s)
    BY <1>4
  <2> QED BY <1>5, <2>1, SeqEqual
<1> QED BY <1>1, <1>2, <1>3, <1>6

\* A queue is its head and the rest.
LEMMA HeadParts ==
  ASSUME NEW M, NEW s \in Seq(M), s # <<>>
  PROVE  /\ Head(s) \in M /\ Tail(s) \in Seq(M) /\ <<Head(s)>> \in Seq(M)
         /\ s = <<Head(s)>> \o Tail(s)
<1>1. PICK h, t, one : h = Head(s) /\ t = Tail(s) /\ one = <<h>>
  OBVIOUS
<1>2. /\ h \in M /\ h = s[1] /\ t \in Seq(M) /\ Len(t) = Len(s) - 1
      /\ \A i \in 1 .. Len(s) - 1 : t[i] = s[i + 1]
      /\ Len(s) \in Nat \ {0}
  BY <1>1
<1>3. one \in Seq(M) /\ Len(one) = 1 /\ one[1] = h
  BY <1>1, <1>2
<1>4. PICK c : c = one \o t
  OBVIOUS
<1>5. /\ c \in Seq(M) /\ Len(c) = Len(s) /\ c[1] = h
      /\ \A i \in 1 .. Len(s) - 1 : c[1 + i] = t[i]
  <2>1. /\ c \in Seq(M) /\ Len(c) = 1 + Len(t) /\ c[1] = h
        /\ \A i \in 1 .. Len(t) : c[1 + i] = t[i]
    <3>1. h \in M /\ t \in Seq(M) /\ c = <<h>> \o t
      BY <1>1, <1>2, <1>4
    <3> QED BY ONLY <3>1, BeforeIs
  <2> QED BY <1>2, <2>1
<1>6. ASSUME NEW i \in 1 .. Len(s) PROVE c[i] = s[i]
  <2>1. CASE i = 1
    BY <1>2, <1>5, <2>1
  <2>2. CASE i # 1
    <3>1. PICK k \in 1 .. Len(s) - 1 : i = 1 + k
      <4>1. i - 1 \in 1 .. Len(s) - 1 /\ i = 1 + (i - 1)
        BY <1>2, <2>2
      <4> QED BY <4>1
    <3>2. 1 + k = k + 1
      OBVIOUS
    <3> QED BY <1>2, <1>5, <3>1, <3>2
  <2> QED BY <2>1, <2>2
<1>7. c = s
  <2>1. c \in Seq(M) /\ s \in Seq(M) /\ Len(c) = Len(s)
    BY <1>5
  <2> QED BY <1>6, <2>1, SeqEqual
<1> QED BY <1>1, <1>2, <1>3, <1>4, <1>7

\* One message.
LEMMA OneMessage ==
  ASSUME NEW M, NEW m \in M, NEW u, NEW K
  PROVE  /\ <<m>> \in Seq(M)
         /\ Has(<<m>>, u, K) <=> m.id = u /\ m.kind \in K
         /\ Count(<<m>>, u, K) = IF m.id = u /\ m.kind \in K THEN 1 ELSE 0
         /\ EndsLast(<<m>>)
<1>1. PICK s : s = <<m>>
  OBVIOUS
<1>2. s \in Seq(M) /\ DOMAIN s = {1} /\ s[1] = m
  BY <1>1
<1>3. Has(s, u, K) <=> m.id = u /\ m.kind \in K
  BY <1>2 DEF Has
<1>4. Where(s, u, K) = IF m.id = u /\ m.kind \in K THEN {1} ELSE {}
  BY <1>2 DEF Where
<1>5. Cardinality({1}) = 1 /\ Cardinality({}) = 0
  BY FS_Singleton, FS_EmptySet
<1>6. Count(s, u, K) = IF m.id = u /\ m.kind \in K THEN 1 ELSE 0
  BY <1>4, <1>5 DEF Count
<1>7. EndsLast(s)
  BY <1>2 DEF EndsLast
<1> QED BY <1>1, <1>2, <1>3, <1>6, <1>7

\* No message at all.
LEMMA NoMessage ==
  ASSUME NEW u, NEW K
  PROVE  ~Has(<<>>, u, K) /\ Count(<<>>, u, K) = 0 /\ EndsLast(<<>>)
<1>1. Where(<<>>, u, K) = {}
  BY DEF Where
<1> QED BY <1>1, FS_EmptySet DEF Has, Count, EndsLast

\* Where ends come last in both parts, and across the cut, they do in the whole.
LEMMA CatEnds ==
  ASSUME NEW M, NEW s \in Seq(M), NEW t \in Seq(M)
  PROVE  EndsLast(s \o t) <=>
            /\ EndsLast(s) /\ EndsLast(t)
            /\ \A u : Has(s, u, Ends) => ~Has(t, u, Counted)
<1>1. PICK r : r = s \o t
  OBVIOUS
<1>2. /\ r \in Seq(M) /\ Len(r) = Len(s) + Len(t) /\ Len(s) \in Nat /\ Len(t) \in Nat
      /\ \A i \in 1 .. Len(s) : r[i] = s[i]
      /\ \A i \in 1 .. Len(t) : r[Len(s) + i] = t[i]
      /\ DOMAIN r = 1 .. Len(r) /\ DOMAIN s = 1 .. Len(s) /\ DOMAIN t = 1 .. Len(t)
  BY <1>1
<1>3. \A i \in 1 .. Len(r) : i \in 1 .. Len(s) \/ \E k \in 1 .. Len(t) : i = Len(s) + k
  <2>1. SUFFICES ASSUME NEW i \in 1 .. Len(r), ~(i <= Len(s))
                 PROVE  \E k \in 1 .. Len(t) : i = Len(s) + k
    BY <1>2
  <2>2. i - Len(s) \in 1 .. Len(t) /\ i = Len(s) + (i - Len(s))
    BY <1>2, <2>1
  <2> QED BY <2>2
<1>4. /\ \A i \in 1 .. Len(s) : i \in 1 .. Len(r)
      /\ \A k \in 1 .. Len(t) : Len(s) + k \in 1 .. Len(r)
      /\ \A i \in 1 .. Len(s), k \in 1 .. Len(t) : i < Len(s) + k /\ ~(Len(s) + k < i)
      /\ \A i, k \in 1 .. Len(t) : Len(s) + i < Len(s) + k <=> i < k
  BY <1>2
<1>5. ASSUME EndsLast(r)
      PROVE  EndsLast(s) /\ EndsLast(t) /\ \A u : Has(s, u, Ends) => ~Has(t, u, Counted)
  <2>1. EndsLast(s)
    BY <1>2, <1>4, <1>5 DEF EndsLast
  <2>2. EndsLast(t)
    <3>1. SUFFICES ASSUME NEW i \in 1 .. Len(t), NEW j \in 1 .. Len(t), i < j,
                          t[i].kind \in Ends, t[j].kind \in Counted
                   PROVE  t[i].id # t[j].id
      BY <1>2 DEF EndsLast
    <3>2. r[Len(s) + i] = t[i] /\ r[Len(s) + j] = t[j]
      BY <1>2
    <3>3. Len(s) + i \in DOMAIN r /\ Len(s) + j \in DOMAIN r /\ Len(s) + i < Len(s) + j
      BY <1>2, <1>4, <3>1
    <3> QED BY <1>5, <3>1, <3>2, <3>3 DEF EndsLast
  <2>3. ASSUME NEW u, Has(s, u, Ends), Has(t, u, Counted) PROVE FALSE
    <3>1. PICK i \in 1 .. Len(s) : s[i].id = u /\ s[i].kind \in Ends
      BY <1>2, <2>3 DEF Has
    <3>2. PICK k \in 1 .. Len(t) : t[k].id = u /\ t[k].kind \in Counted
      BY <1>2, <2>3 DEF Has
    <3>3. i \in DOMAIN r /\ Len(s) + k \in DOMAIN r /\ i < Len(s) + k
      BY <1>2, <1>4
    <3>4. r[i] = s[i] /\ r[Len(s) + k] = t[k]
      BY <1>2
    <3> QED BY <1>5, <3>1, <3>2, <3>3, <3>4 DEF EndsLast
  <2> QED BY <2>1, <2>2, <2>3
<1>6. ASSUME EndsLast(s), EndsLast(t), \A u : Has(s, u, Ends) => ~Has(t, u, Counted)
      PROVE  EndsLast(r)
  <2>1. SUFFICES ASSUME NEW i \in 1 .. Len(r), NEW j \in 1 .. Len(r), i < j,
                        r[i].kind \in Ends, r[j].kind \in Counted
                 PROVE  r[i].id # r[j].id
    BY <1>2 DEF EndsLast
  <2>2. CASE i \in 1 .. Len(s) /\ j \in 1 .. Len(s)
    <3>1. r[i] = s[i] /\ r[j] = s[j] /\ i \in DOMAIN s /\ j \in DOMAIN s
      BY <1>2, <2>2
    <3> QED BY <1>6, <2>1, <3>1 DEF EndsLast
  <2>3. ASSUME i \in 1 .. Len(s), NEW k \in 1 .. Len(t), j = Len(s) + k
        PROVE  r[i].id # r[j].id
    <3>1. r[i] = s[i] /\ r[j] = t[k] /\ i \in DOMAIN s /\ k \in DOMAIN t
      BY <1>2, <2>3
    <3>2. Has(s, s[i].id, Ends) /\ Has(t, t[k].id, Counted)
      BY <2>1, <3>1 DEF Has
    <3> QED BY <1>6, <3>1, <3>2
  <2>4. ASSUME NEW l \in 1 .. Len(t), i = Len(s) + l, j \in 1 .. Len(s)
        PROVE  FALSE
    BY <1>4, <2>1, <2>4
  <2>5. ASSUME NEW l \in 1 .. Len(t), i = Len(s) + l, NEW k \in 1 .. Len(t), j = Len(s) + k
        PROVE  r[i].id # r[j].id
    <3>1. r[i] = t[l] /\ r[j] = t[k] /\ l \in DOMAIN t /\ k \in DOMAIN t /\ l < k
      BY <1>2, <1>4, <2>1, <2>5
    <3> QED BY <1>6, <2>1, <3>1 DEF EndsLast
  <2> QED BY <1>3, <2>2, <2>3, <2>4, <2>5
<1> QED BY <1>1, <1>5, <1>6

\* The messages picked from a queue are those at the positions, in their order.
LEMMA AtKeeps ==
  ASSUME NEW M, NEW s \in Seq(M), NEW P \in SUBSET (1 .. Len(s))
  PROVE  /\ At(s, P) \in Seq(M)
         /\ \A i \in DOMAIN At(s, P) : \E j \in P : At(s, P)[i] = s[j]
         /\ \A u, K : Has(At(s, P), u, K) <=> \E j \in P : s[j].id = u /\ s[j].kind \in K
         /\ \A u, K : Count(At(s, P), u, K) = Cardinality(P \cap Where(s, u, K))
         /\ EndsLast(s) => EndsLast(At(s, P))
         /\ \A r : CarriesOne(s, r) => CarriesOne(At(s, P), r)
<1>1. PICK t, n : t = At(s, P) /\ n = Cardinality(P)
  OBVIOUS
<1>2. /\ IsFiniteSet(P) /\ n \in Nat /\ t \in Seq(M) /\ Len(t) = n
      /\ \E f : Lists(f, P) /\ \A k \in 1 .. n : t[k] = s[f[k]]
  BY <1>1, AtLists
<1>3. PICK f : Lists(f, P) /\ \A k \in 1 .. n : t[k] = s[f[k]]
  BY <1>2
<1>4. /\ f \in [1 .. n -> P] /\ \A i \in P : \E k \in 1 .. n : f[k] = i
      /\ \A k, l \in 1 .. n : k < l => f[k] < f[l]
      /\ DOMAIN t = 1 .. n /\ DOMAIN s = 1 .. Len(s)
  BY <1>1, <1>2, <1>3 DEF Lists
<1>5. \A k \in 1 .. n : f[k] \in P /\ f[k] \in 1 .. Len(s)
  BY <1>4
<1>6. \A k, l \in 1 .. n : f[k] = f[l] => k = l
  <2>1. SUFFICES ASSUME NEW k \in 1 .. n, NEW l \in 1 .. n, k # l PROVE f[k] # f[l]
    OBVIOUS
  <2>2. k < l \/ l < k
    BY <1>2, <2>1
  <2>3. f[k] < f[l] \/ f[l] < f[k]
    BY <1>4, <2>2
  <2> QED BY <1>5, <2>3
<1>7. \A i \in DOMAIN t : \E j \in P : t[i] = s[j]
  BY <1>3, <1>4, <1>5
<1>8. ASSUME NEW u, NEW K
      PROVE  Has(t, u, K) <=> \E j \in P : s[j].id = u /\ s[j].kind \in K
  BY <1>3, <1>4, <1>5 DEF Has
<1>9. ASSUME NEW u, NEW K
      PROVE  Count(t, u, K) = Cardinality(P \cap Where(s, u, K))
  <2>1. PICK A, B : A = Where(t, u, K) /\ B = P \cap Where(s, u, K)
    OBVIOUS
  <2>2. A \subseteq 1 .. n /\ \A k \in 1 .. n : k \in A <=> f[k] \in B
    BY <1>3, <1>4, <1>5, <2>1 DEF Where
  <2>3. PICK g : g = [k \in A |-> f[k]]
    OBVIOUS
  <2>4. g \in [A -> B]
    BY <2>2, <2>3
  <2>5. \A b \in B : \E a \in A : g[a] = b
    <3>1. SUFFICES ASSUME NEW b \in B PROVE \E a \in A : g[a] = b
      OBVIOUS
    <3>2. PICK k \in 1 .. n : f[k] = b
      BY <1>4, <2>1
    <3> QED BY <2>2, <2>3, <3>2
  <2>6. \A a, c \in A : g[a] = g[c] => a = c
    BY <1>6, <2>2, <2>3
  <2>7. IsFiniteSet(B)
    <3>1. B \in SUBSET P
      BY <2>1
    <3> QED BY <1>2, <3>1, FS_Subset
  <2>8. Cardinality(A) = Cardinality(B)
    BY ONLY <2>4, <2>5, <2>6, <2>7, CountSame
  <2> QED BY <2>1, <2>8 DEF Count
<1>10. ASSUME EndsLast(s) PROVE EndsLast(t)
  <2>1. SUFFICES ASSUME NEW i \in 1 .. n, NEW j \in 1 .. n, i < j,
                        t[i].kind \in Ends, t[j].kind \in Counted
                 PROVE  t[i].id # t[j].id
    BY <1>4 DEF EndsLast
  <2>2. f[i] \in DOMAIN s /\ f[j] \in DOMAIN s /\ f[i] < f[j] /\ t[i] = s[f[i]] /\ t[j] = s[f[j]]
    BY <1>3, <1>4, <1>5, <2>1
  <2> QED BY <1>10, <2>1, <2>2 DEF EndsLast
<1>11. ASSUME NEW r, CarriesOne(s, r) PROVE CarriesOne(t, r)
  <2>1. ASSUME NEW i \in 1 .. n, NEW j \in 1 .. n, t[i].kind \in Rebuilding, t[j].kind \in Rebuilding
        PROVE  i = j /\ t[i].id = r
    <3>1. f[i] \in DOMAIN s /\ f[j] \in DOMAIN s /\ t[i] = s[f[i]] /\ t[j] = s[f[j]]
      BY <1>3, <1>4, <1>5
    <3>2. f[i] = f[j] /\ s[f[i]].id = r
      BY <1>11, <2>1, <3>1 DEF CarriesOne
    <3> QED BY <1>6, <3>1, <3>2
  <2> QED BY <1>4, <2>1 DEF CarriesOne
<1> QED BY <1>1, <1>2, <1>7, <1>8, <1>9, <1>10, <1>11

\* So OfKind keeps the messages of these kinds, their number and their order.
LEMMA OfKindIs ==
  ASSUME NEW M, NEW s \in Seq(M), NEW K
  PROVE  /\ OfKind(s, K) \in Seq(M)
         /\ \A i \in DOMAIN OfKind(s, K) :
              OfKind(s, K)[i].kind \in K /\ \E j \in DOMAIN s : OfKind(s, K)[i] = s[j]
         /\ \A u, L : Has(OfKind(s, K), u, L) <=> Has(s, u, K \cap L)
         /\ \A u, L : Count(OfKind(s, K), u, L) = Count(s, u, K \cap L)
         /\ EndsLast(s) => EndsLast(OfKind(s, K))
         /\ \A r : CarriesOne(s, r) => CarriesOne(OfKind(s, K), r)
<1>1. PICK P : P = {i \in DOMAIN s : s[i].kind \in K}
  OBVIOUS
<1>2. P \in SUBSET (1 .. Len(s)) /\ DOMAIN s = 1 .. Len(s)
  BY <1>1
<1>3. PICK t : t = OfKind(s, K) /\ t = At(s, P)
  BY <1>1 DEF OfKind
<1>4. /\ t \in Seq(M)
      /\ \A i \in DOMAIN t : \E j \in P : t[i] = s[j]
      /\ \A u, L : Has(t, u, L) <=> \E j \in P : s[j].id = u /\ s[j].kind \in L
      /\ \A u, L : Count(t, u, L) = Cardinality(P \cap Where(s, u, L))
      /\ EndsLast(s) => EndsLast(t)
      /\ \A r : CarriesOne(s, r) => CarriesOne(t, r)
  BY <1>2, <1>3, AtKeeps
<1>5. \A i \in DOMAIN t : t[i].kind \in K /\ \E j \in DOMAIN s : t[i] = s[j]
  <2>1. SUFFICES ASSUME NEW i \in DOMAIN t
                 PROVE  t[i].kind \in K /\ \E j \in DOMAIN s : t[i] = s[j]
    OBVIOUS
  <2>2. PICK j \in P : t[i] = s[j]
    BY <1>4
  <2>3. j \in DOMAIN s /\ s[j].kind \in K
    BY <1>1
  <2> QED BY <2>2, <2>3
<1>6. ASSUME NEW u, NEW L PROVE Has(t, u, L) <=> Has(s, u, K \cap L)
  <2>1. Has(t, u, L) <=> \E j \in P : s[j].id = u /\ s[j].kind \in L
    BY <1>4
  <2> QED BY <1>1, <2>1 DEF Has
<1>7. ASSUME NEW u, NEW L PROVE Count(t, u, L) = Count(s, u, K \cap L)
  <2>1. P \cap Where(s, u, L) = Where(s, u, K \cap L)
    BY <1>1 DEF Where
  <2> QED BY <1>4, <2>1 DEF Count
<1> QED BY <1>3, <1>4, <1>5, <1>6, <1>7

\* What a queue carries, its parts carry, one of them at most.
LEMMA CatCarries ==
  ASSUME NEW M, NEW s \in Seq(M), NEW t \in Seq(M)
  PROVE  /\ Carries(s \o t) <=> Carries(s) \/ Carries(t)
         /\ \A r : CarriesOne(s \o t, r) <=>
                     CarriesOne(s, r) /\ CarriesOne(t, r) /\ ~(Carries(s) /\ Carries(t))
<1>1. PICK c : c = s \o t
  OBVIOUS
<1>2. /\ c \in Seq(M) /\ Len(c) = Len(s) + Len(t) /\ Len(s) \in Nat /\ Len(t) \in Nat
      /\ \A i \in 1 .. Len(s) : c[i] = s[i]
      /\ \A i \in 1 .. Len(t) : c[Len(s) + i] = t[i]
      /\ DOMAIN c = 1 .. Len(c) /\ DOMAIN s = 1 .. Len(s) /\ DOMAIN t = 1 .. Len(t)
  BY <1>1
<1>3. \A i \in 1 .. Len(c) : i \in 1 .. Len(s) \/ \E k \in 1 .. Len(t) : i = Len(s) + k
  <2>1. SUFFICES ASSUME NEW i \in 1 .. Len(c), ~(i <= Len(s))
                 PROVE  \E k \in 1 .. Len(t) : i = Len(s) + k
    BY <1>2
  <2>2. i - Len(s) \in 1 .. Len(t) /\ i = Len(s) + (i - Len(s))
    BY <1>2, <2>1
  <2> QED BY <2>2
<1>4. /\ \A i \in 1 .. Len(s) : i \in 1 .. Len(c)
      /\ \A k \in 1 .. Len(t) : Len(s) + k \in 1 .. Len(c)
      /\ \A i \in 1 .. Len(s), k \in 1 .. Len(t) : i # Len(s) + k
      /\ \A i, k \in 1 .. Len(t) : Len(s) + i = Len(s) + k => i = k
  BY <1>2
<1>5. Carries(c) <=> Carries(s) \/ Carries(t)
  <2>1. ASSUME Carries(c) PROVE Carries(s) \/ Carries(t)
    <3>1. PICK i \in 1 .. Len(c) : c[i].kind \in Rebuilding
      BY <1>2, <2>1 DEF Carries
    <3>2. CASE i \in 1 .. Len(s)
      BY <1>2, <3>1, <3>2 DEF Carries
    <3>3. ASSUME NEW k \in 1 .. Len(t), i = Len(s) + k PROVE Carries(t)
      BY <1>2, <3>1, <3>3 DEF Carries
    <3> QED BY <1>3, <3>2, <3>3
  <2>2. ASSUME Carries(s) PROVE Carries(c)
    BY <1>2, <1>4, <2>2 DEF Carries
  <2>3. ASSUME Carries(t) PROVE Carries(c)
    <3>1. PICK i \in 1 .. Len(t) : t[i].kind \in Rebuilding
      BY <1>2, <2>3 DEF Carries
    <3>2. Len(s) + i \in DOMAIN c /\ c[Len(s) + i] = t[i]
      BY <1>2, <1>4
    <3> QED BY <3>1, <3>2 DEF Carries
  <2> QED BY <2>1, <2>2, <2>3
<1>6. ASSUME NEW r, CarriesOne(c, r)
      PROVE  CarriesOne(s, r) /\ CarriesOne(t, r) /\ ~(Carries(s) /\ Carries(t))
  <2>1. CarriesOne(s, r)
    BY <1>2, <1>4, <1>6 DEF CarriesOne
  <2>2. CarriesOne(t, r)
    <3>1. \A i \in 1 .. Len(t) : Len(s) + i \in DOMAIN c /\ c[Len(s) + i] = t[i]
      BY <1>2, <1>4
    <3>2. ASSUME NEW i \in 1 .. Len(t), NEW j \in 1 .. Len(t),
                 t[i].kind \in Rebuilding, t[j].kind \in Rebuilding
          PROVE  i = j /\ t[i].id = r
      <4>1. Len(s) + i = Len(s) + j /\ c[Len(s) + i].id = r
        BY <1>6, <3>1, <3>2 DEF CarriesOne
      <4> QED BY <1>4, <3>1, <4>1
    <3> QED BY <1>2, <3>2 DEF CarriesOne
  <2>3. ASSUME Carries(s), Carries(t) PROVE FALSE
    <3>1. PICK i \in 1 .. Len(s) : s[i].kind \in Rebuilding
      BY <1>2, <2>3 DEF Carries
    <3>2. PICK j \in 1 .. Len(t) : t[j].kind \in Rebuilding
      BY <1>2, <2>3 DEF Carries
    <3>3. i \in DOMAIN c /\ Len(s) + j \in DOMAIN c /\ c[i] = s[i] /\ c[Len(s) + j] = t[j]
      BY <1>2, <1>4
    <3>4. i # Len(s) + j
      BY <1>4
    <3> QED BY <1>6, <3>1, <3>2, <3>3, <3>4 DEF CarriesOne
  <2> QED BY <2>1, <2>2, <2>3
<1>7. ASSUME NEW r, CarriesOne(s, r), CarriesOne(t, r), ~(Carries(s) /\ Carries(t))
      PROVE  CarriesOne(c, r)
  <2>1. CASE ~Carries(t)
    <3>1. ASSUME NEW i \in 1 .. Len(c), c[i].kind \in Rebuilding
          PROVE  i \in DOMAIN s /\ c[i] = s[i]
      <4>1. ASSUME NEW k \in 1 .. Len(t), i = Len(s) + k PROVE FALSE
        BY <1>2, <2>1, <3>1, <4>1 DEF Carries
      <4> QED BY <1>2, <1>3, <4>1
    <3> QED BY <1>2, <1>7, <3>1 DEF CarriesOne
  <2>2. CASE ~Carries(s)
    <3>1. ASSUME NEW i \in 1 .. Len(c), c[i].kind \in Rebuilding
          PROVE  \E k \in DOMAIN t : i = Len(s) + k /\ c[i] = t[k]
      <4>1. ~(i \in 1 .. Len(s))
        BY <1>2, <2>2, <3>1 DEF Carries
      <4> QED BY <1>2, <1>3, <4>1
    <3>2. ASSUME NEW i \in 1 .. Len(c), NEW j \in 1 .. Len(c),
                 c[i].kind \in Rebuilding, c[j].kind \in Rebuilding
          PROVE  i = j /\ c[i].id = r
      <4>1. PICK k \in DOMAIN t : i = Len(s) + k /\ c[i] = t[k]
        BY <3>1, <3>2
      <4>2. PICK l \in DOMAIN t : j = Len(s) + l /\ c[j] = t[l]
        BY <3>1, <3>2
      <4>3. k = l /\ t[k].id = r
        BY <1>7, <3>2, <4>1, <4>2 DEF CarriesOne
      <4> QED BY <4>1, <4>2, <4>3
    <3> QED BY <1>2, <3>2 DEF CarriesOne
  <2> QED BY <1>7, <2>1, <2>2
<1> QED BY <1>1, <1>5, <1>6, <1>7

\* Tokens stay followed when what comes ends those no longer awaited.
LEMMA CatFollowed ==
  ASSUME NEW M, NEW s \in Seq(M), NEW t \in Seq(M), NEW A, NEW B,
         Followed(s, A), Followed(t, B), \A u \in A : u \in B \/ Has(t, u, Ends)
  PROVE  Followed(s \o t, B)
<1>1. PICK c : c = s \o t
  OBVIOUS
<1>2. /\ c \in Seq(M) /\ Len(c) = Len(s) + Len(t) /\ Len(s) \in Nat /\ Len(t) \in Nat
      /\ \A i \in 1 .. Len(s) : c[i] = s[i]
      /\ \A i \in 1 .. Len(t) : c[Len(s) + i] = t[i]
      /\ DOMAIN c = 1 .. Len(c) /\ DOMAIN s = 1 .. Len(s) /\ DOMAIN t = 1 .. Len(t)
  BY <1>1
<1>3. \A i \in 1 .. Len(c) : i \in 1 .. Len(s) \/ \E k \in 1 .. Len(t) : i = Len(s) + k
  <2>1. SUFFICES ASSUME NEW i \in 1 .. Len(c), ~(i <= Len(s))
                 PROVE  \E k \in 1 .. Len(t) : i = Len(s) + k
    BY <1>2
  <2>2. i - Len(s) \in 1 .. Len(t) /\ i = Len(s) + (i - Len(s))
    BY <1>2, <2>1
  <2> QED BY <2>2
<1>4. /\ \A i \in 1 .. Len(s) : i \in DOMAIN c
      /\ \A k \in 1 .. Len(t) : Len(s) + k \in DOMAIN c /\ c[Len(s) + k] = t[k]
      /\ \A i \in 1 .. Len(s), k \in 1 .. Len(t) : i < Len(s) + k
      /\ \A i, k \in 1 .. Len(t) : i < k => Len(s) + i < Len(s) + k
  BY <1>2
<1>5. ASSUME NEW i \in 1 .. Len(c), c[i].kind = "token"
      PROVE  \/ c[i].id \in B
             \/ \E j \in DOMAIN c : i < j /\ c[j].id = c[i].id /\ c[j].kind \in Ends
  <2>1. ASSUME i \in 1 .. Len(s), s[i].id \in A
        PROVE  \/ c[i].id \in B
               \/ \E j \in DOMAIN c : i < j /\ c[j].id = c[i].id /\ c[j].kind \in Ends
    <3>1. CASE Has(t, s[i].id, Ends)
      <4>1. PICK k \in 1 .. Len(t) : t[k].id = s[i].id /\ t[k].kind \in Ends
        BY <1>2, <3>1 DEF Has
      <4> QED BY <1>2, <1>4, <2>1, <4>1
    <3> QED BY <1>2, <2>1, <3>1
  <2>2. ASSUME i \in 1 .. Len(s),
               NEW j \in DOMAIN s, i < j, s[j].id = s[i].id, s[j].kind \in Ends
        PROVE  \E l \in DOMAIN c : i < l /\ c[l].id = c[i].id /\ c[l].kind \in Ends
    <3>1. j \in DOMAIN c /\ c[j] = s[j] /\ c[i] = s[i]
      BY <1>2, <1>4, <2>2
    <3> QED BY <2>2, <3>1
  <2>3. CASE i \in 1 .. Len(s)
    <3>1. \/ s[i].id \in A
          \/ \E j \in DOMAIN s : i < j /\ s[j].id = s[i].id /\ s[j].kind \in Ends
      BY <1>2, <1>5, <2>3 DEF Followed
    <3> QED BY <2>1, <2>2, <2>3, <3>1
  <2>4. ASSUME NEW k \in 1 .. Len(t), i = Len(s) + k
        PROVE  \/ c[i].id \in B
               \/ \E j \in DOMAIN c : i < j /\ c[j].id = c[i].id /\ c[j].kind \in Ends
    <3>1. \/ t[k].id \in B
          \/ \E j \in DOMAIN t : k < j /\ t[j].id = t[k].id /\ t[j].kind \in Ends
      BY <1>2, <1>5, <2>4 DEF Followed
    <3>2. c[i] = t[k]
      BY <1>2, <2>4
    <3>3. ASSUME NEW j \in DOMAIN t, k < j, t[j].id = t[k].id, t[j].kind \in Ends
          PROVE  \E l \in DOMAIN c : i < l /\ c[l].id = c[i].id /\ c[l].kind \in Ends
      <4>1. Len(s) + j \in DOMAIN c /\ c[Len(s) + j] = t[j] /\ i < Len(s) + j
        BY <1>2, <1>4, <2>4, <3>3
      <4> QED BY <3>2, <3>3, <4>1
    <3> QED BY <3>1, <3>2, <3>3
  <2> QED BY <1>3, <2>3, <2>4
<1>6. Followed(c, B)
  BY <1>2, <1>5 DEF Followed
<1> QED BY <1>1, <1>6

\* The rest of a queue stays followed; of what leaves, the ends behind it may be
\* in either part.
LEMMA CutFollowed ==
  ASSUME NEW M, NEW s \in Seq(M), NEW t \in Seq(M), NEW A, Followed(s \o t, A)
  PROVE  /\ Followed(t, A)
         /\ \A u : Has(s, u, {"token"}) => u \in A \/ Has(s, u, Ends) \/ Has(t, u, Ends)
<1>1. PICK c : c = s \o t
  OBVIOUS
<1>2. /\ c \in Seq(M) /\ Len(c) = Len(s) + Len(t) /\ Len(s) \in Nat /\ Len(t) \in Nat
      /\ \A i \in 1 .. Len(s) : c[i] = s[i]
      /\ \A i \in 1 .. Len(t) : c[Len(s) + i] = t[i]
      /\ DOMAIN c = 1 .. Len(c) /\ DOMAIN s = 1 .. Len(s) /\ DOMAIN t = 1 .. Len(t)
  BY <1>1
<1>3. \A i \in 1 .. Len(c) : i \in 1 .. Len(s) \/ \E k \in 1 .. Len(t) : i = Len(s) + k
  <2>1. SUFFICES ASSUME NEW i \in 1 .. Len(c), ~(i <= Len(s))
                 PROVE  \E k \in 1 .. Len(t) : i = Len(s) + k
    BY <1>2
  <2>2. i - Len(s) \in 1 .. Len(t) /\ i = Len(s) + (i - Len(s))
    BY <1>2, <2>1
  <2> QED BY <2>2
<1>4. /\ \A i \in 1 .. Len(s) : i \in DOMAIN c
      /\ \A k \in 1 .. Len(t) : Len(s) + k \in DOMAIN c /\ c[Len(s) + k] = t[k]
      /\ \A i \in 1 .. Len(s), k \in 1 .. Len(t) : ~(Len(s) + k < i)
      /\ \A i, k \in 1 .. Len(t) : Len(s) + i < Len(s) + k => i < k
  BY <1>2
<1>5. Followed(t, A)
  <2>1. SUFFICES ASSUME NEW k \in 1 .. Len(t), t[k].kind = "token", t[k].id \notin A
                 PROVE  \E j \in DOMAIN t : k < j /\ t[j].id = t[k].id /\ t[j].kind \in Ends
    BY <1>2 DEF Followed
  <2>2. PICK j \in DOMAIN c : /\ Len(s) + k < j /\ c[j].id = t[k].id /\ c[j].kind \in Ends
    BY <1>1, <1>4, <2>1 DEF Followed
  <2>3. PICK l \in 1 .. Len(t) : j = Len(s) + l
    BY <1>2, <1>3, <1>4, <2>2
  <2> QED BY <1>2, <1>4, <2>2, <2>3
<1>6. ASSUME NEW u, Has(s, u, {"token"}), u \notin A
      PROVE  Has(s, u, Ends) \/ Has(t, u, Ends)
  <2>1. PICK i \in 1 .. Len(s) : s[i].id = u /\ s[i].kind = "token"
    BY <1>2, <1>6 DEF Has
  <2>2. PICK j \in DOMAIN c : c[j].id = u /\ c[j].kind \in Ends
    <3>1. i \in DOMAIN c /\ c[i].id = u /\ c[i].kind = "token"
      BY <1>2, <1>4, <2>1
    <3>2. Followed(c, A)
      BY <1>1
    <3> QED BY <1>6, <3>1, <3>2 DEF Followed
  <2>3. Has(c, u, Ends)
    BY <2>2 DEF Has
  <2> QED BY <1>1, <2>3, CatHas
<1> QED BY <1>5, <1>6

\* One message of a kind to each request of S.
LEMMA MsgsAre ==
  ASSUME NEW N, NEW S \in SUBSET N, IsFiniteSet(S), NEW kind
  PROVE  /\ Msgs(kind, S) \in Seq([kind : {kind}, id : N])
         /\ \A u, K : Has(Msgs(kind, S), u, K) <=> kind \in K /\ u \in S
         /\ \A u, K : Count(Msgs(kind, S), u, K) = IF kind \in K /\ u \in S THEN 1 ELSE 0
         /\ EndsLast(Msgs(kind, S))
         /\ Carries(Msgs(kind, S)) => kind \in Rebuilding
<1>1. PICK T, n : T = {Msg(kind, i) : i \in S} /\ n = Cardinality(T)
  OBVIOUS
<1>2. IsFiniteSet(T)
  <2>1. PICK f : f = [i \in S |-> Msg(kind, i)]
    OBVIOUS
  <2>2. f \in [S -> T] /\ \A t \in T : \E i \in S : f[i] = t
    BY <1>1, <2>1
  <2>3. f \in Surjection(S, T)
    BY ONLY <2>2 DEF Surjection
  <2> QED BY <2>3, FS_Surjection
<1>3. n \in Nat /\ ExistsBijection(1 .. n, T)
  BY <1>1, <1>2, FS_CardinalityType
<1>4. PICK s : s = SetToSeq(T)
  OBVIOUS
<1>5. s = CHOOSE f \in [1 .. n -> T] : IsInjective(f)
  BY <1>1, <1>4 DEF SetToSeq
<1>6. s \in [1 .. n -> T] /\ IsInjective(s)
  <2>1. \E f \in [1 .. n -> T] : IsInjective(f)
    BY <1>3 DEF ExistsBijection, Bijection, Injection
  <2> QED BY <1>5, <2>1
<1>7. s \in Surjection(1 .. n, T)
  <2>1. s \in Injection(1 .. n, T)
    BY <1>6 DEF Injection
  <2>2. IsFiniteSet(1 .. n) /\ Cardinality(1 .. n) = n
    <3>1. 1 \in Int /\ n \in Int
      BY <1>3
    <3>2. IsFiniteSet(1 .. n) /\ Cardinality(1 .. n) = IF 1 > n THEN 0 ELSE n - 1 + 1
      BY <3>1, FS_Interval
    <3> QED BY <1>3, <3>2
  <2> QED BY <1>1, <1>2, <2>1, <2>2, FS_Injection
<1>8. \A t \in T : \E i \in 1 .. n : s[i] = t
  BY <1>7 DEF Surjection
<1>9. DOMAIN s = 1 .. n /\ \A i \in 1 .. n : \E u \in S : s[i] = Msg(kind, u)
  BY <1>1, <1>6
<1>10. s \in Seq([kind : {kind}, id : N])
  <2>1. \A i \in 1 .. n : s[i] \in [kind : {kind}, id : N]
    BY <1>9 DEF Msg
  <2>2. s \in [1 .. n -> [kind : {kind}, id : N]]
    BY <1>6, <2>1
  <2> QED BY ONLY <1>3, <2>2, SeqOfFunction
<1>11. \A i, j \in 1 .. n : s[i].id = s[j].id => i = j
  <2>1. SUFFICES ASSUME NEW i \in 1 .. n, NEW j \in 1 .. n, s[i].id = s[j].id
                 PROVE  i = j
    OBVIOUS
  <2>2. s[i] = s[j]
    BY <1>9, <2>1 DEF Msg
  <2> QED BY <1>6, <2>2 DEF IsInjective
<1>12. \A i \in 1 .. n : s[i].kind = kind /\ s[i].id \in S
  BY <1>9 DEF Msg
<1>13. \A u \in S : \E i \in 1 .. n : s[i].id = u
  <2>1. SUFFICES ASSUME NEW u \in S PROVE \E i \in 1 .. n : s[i].id = u
    OBVIOUS
  <2>2. Msg(kind, u) \in T
    BY <1>1
  <2>3. PICK i \in 1 .. n : s[i] = Msg(kind, u)
    BY <1>8, <2>2
  <2> QED BY <2>3 DEF Msg
<1>14. ASSUME NEW u, NEW K PROVE Has(s, u, K) <=> kind \in K /\ u \in S
  BY <1>9, <1>12, <1>13 DEF Has
<1>15. ASSUME NEW u, NEW K PROVE Count(s, u, K) = IF kind \in K /\ u \in S THEN 1 ELSE 0
  <2>1. CASE kind \in K /\ u \in S
    <3>1. PICK i \in 1 .. n : s[i].id = u
      BY <1>13, <2>1
    <3>2. Where(s, u, K) = {i}
      BY <1>9, <1>11, <1>12, <2>1, <3>1 DEF Where
    <3> QED BY <2>1, <3>2, FS_Singleton DEF Count
  <2>2. CASE ~(kind \in K /\ u \in S)
    <3>1. Where(s, u, K) = {}
      BY <1>9, <1>12, <2>2 DEF Where
    <3> QED BY <2>2, <3>1, FS_EmptySet DEF Count
  <2> QED BY <2>1, <2>2
<1>16. EndsLast(s)
  <2>1. \A i, j \in 1 .. n : s[i].id = s[j].id => ~(i < j)
    <3>1. \A i \in 1 .. n : ~(i < i)
      OBVIOUS
    <3> QED BY <1>11, <3>1
  <2> QED BY <1>9, <2>1 DEF EndsLast
<1>17. Carries(s) => kind \in Rebuilding
  BY <1>9, <1>12 DEF Carries
<1>18. s = Msgs(kind, S)
  BY <1>1, <1>4 DEF Msgs
<1> QED BY <1>10, <1>14, <1>15, <1>16, <1>17, <1>18

\* The messages of another kind for the same requests.
LEMMA RenamedAre ==
  ASSUME NEW M, NEW s \in Seq(M), NEW N, \A i \in DOMAIN s : s[i].id \in N,
         NEW kind, kind \notin Ends \/ kind \notin Counted, kind \notin Rebuilding
  PROVE  /\ Renamed(s, kind) \in Seq([kind : {kind}, id : N])
         /\ \A u, K : Has(Renamed(s, kind), u, K) <=>
                        kind \in K /\ \E i \in DOMAIN s : s[i].id = u
         /\ EndsLast(Renamed(s, kind))
         /\ ~Carries(Renamed(s, kind))
<1>1. PICK t : t = Renamed(s, kind)
  OBVIOUS
<1>2. /\ DOMAIN t = 1 .. Len(s) /\ DOMAIN s = 1 .. Len(s) /\ Len(s) \in Nat
      /\ \A i \in 1 .. Len(s) : t[i].kind = kind /\ t[i].id = s[i].id
  BY <1>1 DEF Renamed, Msg
<1>3. t \in Seq([kind : {kind}, id : N])
  <2>1. t = [k \in 1 .. Len(s) |-> Msg(kind, s[k].id)]
    BY <1>1, <1>2 DEF Renamed
  <2>2. \A i \in 1 .. Len(s) : Msg(kind, s[i].id) \in [kind : {kind}, id : N]
    BY <1>2 DEF Msg
  <2>3. t \in [1 .. Len(s) -> [kind : {kind}, id : N]]
    BY <2>1, <2>2
  <2> QED BY ONLY <1>2, <2>3, SeqOfFunction
<1>4. ASSUME NEW u, NEW K PROVE Has(t, u, K) <=> kind \in K /\ \E i \in DOMAIN s : s[i].id = u
  BY <1>2 DEF Has
<1>5. EndsLast(t)
  BY <1>2 DEF EndsLast
<1>6. ~Carries(t)
  BY <1>2 DEF Carries
<1> QED BY <1>1, <1>3, <1>4, <1>5, <1>6

-----------------------------------------------------------------------------
(***************************************************************************)
(* A turn of tokenize_worker, as its queues see it.                        *)
(***************************************************************************)

\* A sequence whose messages are among those of a larger set.
LEMMA SeqWiden ==
  ASSUME NEW M, NEW N, NEW s \in Seq(M), \A i \in DOMAIN s : s[i] \in N
  PROVE  s \in Seq(N)
<1>1. DOMAIN s = 1 .. Len(s) /\ Len(s) \in Nat
  OBVIOUS
<1>2. s = [i \in 1 .. Len(s) |-> s[i]]
  BY <1>1
<1>3. s \in [1 .. Len(s) -> N]
  BY <1>1, <1>2
<1> QED BY ONLY <1>1, <1>3, SeqOfFunction

\* Only the tokenize messages have an id to look up, and they have a request's.
LEMMA PromptsAre ==
  ASSUME NEW asked \in Seq(Asks), NEW P \in SUBSET ToEncode(asked), NEW kind,
         kind \notin Ends \/ kind \notin Counted, kind \notin Rebuilding
  PROVE  /\ Renamed(At(asked, P), kind) \in Seq([kind : {kind}, id : Uids])
         /\ \A u, K : Has(Renamed(At(asked, P), kind), u, K) <=>
                        kind \in K /\ \E k \in P : asked[k].id = u
         /\ EndsLast(Renamed(At(asked, P), kind))
         /\ ~Carries(Renamed(At(asked, P), kind))
<1>1. P \in SUBSET (1 .. Len(asked)) /\ DOMAIN asked = 1 .. Len(asked)
  BY DEF ToEncode
<1>2. PICK s : s = At(asked, P)
  OBVIOUS
<1>3. /\ s \in Seq(Asks)
      /\ \A i \in DOMAIN s : \E j \in P : s[i] = asked[j]
      /\ \A u, K : Has(s, u, K) <=> \E j \in P : asked[j].id = u /\ asked[j].kind \in K
  BY ONLY <1>1, <1>2, asked \in Seq(Asks), AtKeeps
<1>4. \A j \in P : asked[j].kind = "tokenize" /\ asked[j].id \in Uids
  <2>1. \A j \in P : asked[j] \in Asks /\ asked[j].kind = "tokenize"
    BY DEF ToEncode
  <2> QED BY <2>1 DEF Asks
<1>5. \A i \in DOMAIN s : s[i].id \in Uids
  BY <1>3, <1>4
<1>6. \A u : (\E i \in DOMAIN s : s[i].id = u) <=> (\E k \in P : asked[k].id = u)
  <2>1. \A u : Has(s, u, {"tokenize"}) <=> \E i \in DOMAIN s : s[i].id = u
    BY <1>3, <1>4 DEF Has
  <2>2. \A u : Has(s, u, {"tokenize"}) <=> \E j \in P : asked[j].id = u
    BY <1>3, <1>4
  <2> QED BY <2>1, <2>2
<1>7. /\ Renamed(s, kind) \in Seq([kind : {kind}, id : Uids])
      /\ \A u, K : Has(Renamed(s, kind), u, K) <=> kind \in K /\ \E i \in DOMAIN s : s[i].id = u
      /\ EndsLast(Renamed(s, kind))
      /\ ~Carries(Renamed(s, kind))
  BY <1>3, <1>5, RenamedAre
<1> QED BY <1>2, <1>6, <1>7

\* The scheduler gets the good prompts, the aborts and the rebuilds.
LEMMA ForwardedIs ==
  ASSUME NEW asked \in Seq(Asks)
  PROVE  /\ Forwarded(asked) \in Seq(Orders)
         /\ \A u : Has(Forwarded(asked), u, {"user"}) <=>
                     u \notin BadPrompts /\ Has(asked, u, {"tokenize"})
         /\ Carries(Forwarded(asked)) => Carries(asked)
         /\ \A r : CarriesOne(asked, r) => CarriesOne(Forwarded(asked), r)
<1>1. PICK a, b, c : /\ a = OfKind(asked, {"rebuild"})
                     /\ b = Renamed(At(asked, ToEncode(asked) \ ToRefuse(asked)), "user")
                     /\ c = OfKind(asked, {"abort"})
  OBVIOUS
<1>2. /\ a \in Seq(Asks)
      /\ \A i \in DOMAIN a : a[i].kind \in {"rebuild"} /\ \E j \in DOMAIN asked : a[i] = asked[j]
      /\ \A u, L : Has(a, u, L) <=> Has(asked, u, {"rebuild"} \cap L)
      /\ \A r : CarriesOne(asked, r) => CarriesOne(a, r)
  BY ONLY <1>1, asked \in Seq(Asks), OfKindIs
<1>3. /\ c \in Seq(Asks)
      /\ \A i \in DOMAIN c : c[i].kind \in {"abort"} /\ \E j \in DOMAIN asked : c[i] = asked[j]
      /\ \A u, L : Has(c, u, L) <=> Has(asked, u, {"abort"} \cap L)
      /\ \A r : CarriesOne(asked, r) => CarriesOne(c, r)
  BY ONLY <1>1, asked \in Seq(Asks), OfKindIs
<1>4. PICK P : P = ToEncode(asked) \ ToRefuse(asked)
  OBVIOUS
<1>5. P \in SUBSET ToEncode(asked)
  BY <1>4
<1>6. "user" \notin Ends /\ "user" \notin Rebuilding
  BY DEF Ends, Rebuilding
<1>7. /\ b \in Seq([kind : {"user"}, id : Uids])
      /\ \A u, K : Has(b, u, K) <=> "user" \in K /\ \E k \in P : asked[k].id = u
      /\ ~Carries(b)
  BY ONLY <1>1, <1>4, <1>5, <1>6, asked \in Seq(Asks), PromptsAre
<1>8. a \in Seq(Orders) /\ b \in Seq(Orders) /\ c \in Seq(Orders)
  <2>1. \A i \in DOMAIN a : a[i] \in Orders
    <3>1. \A i \in DOMAIN a : a[i] \in Asks /\ a[i].kind = "rebuild"
      BY <1>2
    <3> QED BY <3>1 DEF Asks, Orders
  <2>2. \A i \in DOMAIN c : c[i] \in Orders
    <3>1. \A i \in DOMAIN c : c[i] \in Asks /\ c[i].kind = "abort"
      BY <1>3
    <3> QED BY <3>1 DEF Asks, Orders
  <2>3. [kind : {"user"}, id : Uids] \subseteq Orders
    BY DEF Orders
  <2>4. a \in Seq(Orders)
    BY ONLY <1>2, <2>1, SeqWiden
  <2>5. b \in Seq(Orders)
    BY ONLY <1>7, <2>3, SeqMonotonic
  <2>6. c \in Seq(Orders)
    BY ONLY <1>3, <2>2, SeqWiden
  <2> QED BY <2>4, <2>5, <2>6
<1>9. ~Carries(c)
  BY <1>3 DEF Carries, Rebuilding
<1>10. Carries(a) => Carries(asked)
  BY <1>2 DEF Carries
<1>11. PICK d, f : d = b \o c /\ f = a \o d
  OBVIOUS
<1>12. /\ d \in Seq(Orders)
       /\ \A u, K : Has(d, u, K) <=> Has(b, u, K) \/ Has(c, u, K)
  BY ONLY <1>8, <1>11, CatHas
<1>13. /\ f \in Seq(Orders)
       /\ \A u, K : Has(f, u, K) <=> Has(a, u, K) \/ Has(d, u, K)
  BY ONLY <1>8, <1>11, <1>12, CatHas
<1>14. ~Carries(d) /\ \A r : CarriesOne(d, r)
  <2>1. \A r : CarriesOne(b, r) /\ CarriesOne(c, r)
    BY <1>7, <1>9 DEF CarriesOne, Carries
  <2>2. /\ Carries(d) <=> Carries(b) \/ Carries(c)
        /\ \A r : CarriesOne(d, r) <=>
                    CarriesOne(b, r) /\ CarriesOne(c, r) /\ ~(Carries(b) /\ Carries(c))
    BY ONLY <1>8, <1>11, CatCarries
  <2> QED BY <1>7, <1>9, <2>1, <2>2
<1>15. /\ Carries(f) <=> Carries(a) \/ Carries(d)
       /\ \A r : CarriesOne(f, r) <=>
                   CarriesOne(a, r) /\ CarriesOne(d, r) /\ ~(Carries(a) /\ Carries(d))
  BY ONLY <1>8, <1>11, <1>12, CatCarries
<1>16. ASSUME NEW u
       PROVE  Has(f, u, {"user"}) <=> u \notin BadPrompts /\ Has(asked, u, {"tokenize"})
  <2>1. ~Has(a, u, {"user"}) /\ ~Has(c, u, {"user"})
    BY <1>2, <1>3 DEF Has
  <2>2. Has(b, u, {"user"}) <=> \E k \in P : asked[k].id = u
    BY <1>7
  <2>3. (\E k \in P : asked[k].id = u) <=> u \notin BadPrompts /\ Has(asked, u, {"tokenize"})
    BY <1>4 DEF ToEncode, ToRefuse, Has
  <2> QED BY <1>12, <1>13, <2>1, <2>2, <2>3
<1>17. f = Forwarded(asked)
  BY <1>1, <1>11 DEF Forwarded
<1> QED BY <1>2, <1>10, <1>13, <1>14, <1>15, <1>16, <1>17

\* p is s and then t, for whatever is asked of a queue.
Joined(p, s, t) ==
    /\ \A u, K : Has(p, u, K) <=> Has(s, u, K) \/ Has(t, u, K)
    /\ \A u, K : Count(p, u, K) = Count(s, u, K) + Count(t, u, K)
    /\ \A u, K : Count(s, u, K) \in Nat /\ Count(t, u, K) \in Nat
    /\ EndsLast(p) <=> EndsLast(s) /\ EndsLast(t) /\ \A u : Has(s, u, Ends) => ~Has(t, u, Counted)
    /\ Carries(p) <=> Carries(s) \/ Carries(t)
    /\ \A r : CarriesOne(p, r) <=>
                CarriesOne(s, r) /\ CarriesOne(t, r) /\ ~(Carries(s) /\ Carries(t))

\* o is the messages of s of these kinds.
Picked(o, s, K) ==
    /\ \A i \in DOMAIN o : o[i].kind \in K
    /\ \A i \in DOMAIN o : \E j \in DOMAIN s : o[i] = s[j]
    /\ \A u, L : Has(o, u, L) <=> Has(s, u, K \cap L)
    /\ \A u, L : Count(o, u, L) = Count(s, u, K \cap L)
    /\ EndsLast(s) => EndsLast(o)
    /\ \A r : CarriesOne(s, r) => CarriesOne(o, r)

\* Two queues one after the other are joined.
LEMMA JoinedAre ==
  ASSUME NEW M, NEW s \in Seq(M), NEW t \in Seq(M)
  PROVE  s \o t \in Seq(M) /\ Joined(s \o t, s, t)
<1>0. s \o t \in Seq(M)
  OBVIOUS
<1>1. PICK p \in Seq(M) : p = s \o t
  BY <1>0
<1>2. ASSUME NEW u, NEW K PROVE Has(p, u, K) <=> Has(s, u, K) \/ Has(t, u, K)
  BY ONLY <1>1, s \in Seq(M), t \in Seq(M), CatHas
<1>3. ASSUME NEW u, NEW K PROVE Count(p, u, K) = Count(s, u, K) + Count(t, u, K)
  BY ONLY <1>1, s \in Seq(M), t \in Seq(M), CatCount
<1>4. ASSUME NEW u, NEW K PROVE Count(s, u, K) \in Nat /\ Count(t, u, K) \in Nat
  BY ONLY s \in Seq(M), t \in Seq(M), WhereFinite
<1>5. EndsLast(p) <=> EndsLast(s) /\ EndsLast(t) /\ \A u : Has(s, u, Ends) => ~Has(t, u, Counted)
  BY ONLY <1>1, s \in Seq(M), t \in Seq(M), CatEnds
<1>6. Carries(p) <=> Carries(s) \/ Carries(t)
  BY ONLY <1>1, s \in Seq(M), t \in Seq(M), CatCarries
<1>7. ASSUME NEW r
      PROVE  CarriesOne(p, r) <=>
               CarriesOne(s, r) /\ CarriesOne(t, r) /\ ~(Carries(s) /\ Carries(t))
  BY ONLY <1>1, s \in Seq(M), t \in Seq(M), CatCarries
<1>8. Joined(p, s, t)
  BY ONLY <1>2, <1>3, <1>4, <1>5, <1>6, <1>7 DEF Joined
<1> QED BY ONLY <1>1, <1>8

\* OfKind picks.
LEMMA PickedAre ==
  ASSUME NEW M, NEW s \in Seq(M), NEW K
  PROVE  OfKind(s, K) \in Seq(M) /\ Picked(OfKind(s, K), s, K)
<1>1. OfKind(s, K) \in Seq(M)
  BY ONLY s \in Seq(M), OfKindIs
<1>2. \A i \in DOMAIN OfKind(s, K) :
        OfKind(s, K)[i].kind \in K /\ \E j \in DOMAIN s : OfKind(s, K)[i] = s[j]
  BY ONLY s \in Seq(M), OfKindIs
<1>3. \A u, L : Has(OfKind(s, K), u, L) <=> Has(s, u, K \cap L)
  BY ONLY s \in Seq(M), OfKindIs
<1>4. \A u, L : Count(OfKind(s, K), u, L) = Count(s, u, K \cap L)
  BY ONLY s \in Seq(M), OfKindIs
<1>5. EndsLast(s) => EndsLast(OfKind(s, K))
  BY ONLY s \in Seq(M), OfKindIs
<1>6. \A r : CarriesOne(s, r) => CarriesOne(OfKind(s, K), r)
  BY ONLY s \in Seq(M), OfKindIs
<1> QED BY ONLY <1>1, <1>2, <1>3, <1>4, <1>5, <1>6 DEF Picked

\* What a turn sends to the scheduler, and to the frontend, of what it took.
Forwards(f, asked) ==
    /\ \A u : Has(f, u, {"user"}) <=> u \notin BadPrompts /\ Has(asked, u, {"tokenize"})
    /\ Carries(f) => Carries(asked)
    /\ \A r : CarriesOne(asked, r) => CarriesOne(f, r)

Answering(y, told, asked) ==
    /\ \A u : Has(y, u, Counted) <=> Has(told, u, Counted)
    /\ \A u : Has(y, u, Ends) <=>
                Has(told, u, Ends) \/ (u \in BadPrompts /\ Has(asked, u, {"tokenize"}))
    /\ \A u : Count(y, u, Tokens) = Count(told, u, Tokens)
    /\ \A u : Count(y, u, {"admitted"}) = Count(told, u, {"admitted"})
    /\ EndsLast(told) => EndsLast(y)
    /\ Carries(y) => Carries(told)
    /\ \A r : CarriesOne(told, r) => CarriesOne(y, r)

\* ForwardedIs, in one word.
LEMMA ForwardedAre ==
  ASSUME NEW asked \in Seq(Asks)
  PROVE  /\ Forwarded(asked) \in Seq(Orders) /\ Forwards(Forwarded(asked), asked)
BY ForwardedIs DEF Forwards

\* The frontend gets the replies, ends behind the rest, and the bad prompts.
LEMMA AnsweredAre ==
  ASSUME NEW told \in Seq(Replies), NEW asked \in Seq(Asks)
  PROVE  /\ Answered(told, asked) \in Seq(Replies) /\ Answering(Answered(told, asked), told, asked)
<1>1. PICK o \in Seq(Replies) : o = OfKind(told, {"rebuilt"}) /\ Picked(o, told, {"rebuilt"})
  BY ONLY told \in Seq(Replies), PickedAre
<1>2. PICK a \in Seq(Replies) : a = OfKind(told, {"admitted"}) /\ Picked(a, told, {"admitted"})
  BY ONLY told \in Seq(Replies), PickedAre
<1>3. PICK t \in Seq(Replies) : t = OfKind(told, {"token", "last"})
                                  /\ Picked(t, told, {"token", "last"})
  BY ONLY told \in Seq(Replies), PickedAre
<1>4. PICK e \in Seq(Replies) : e = OfKind(told, {"error"}) /\ Picked(e, told, {"error"})
  BY ONLY told \in Seq(Replies), PickedAre
<1>5. PICK x : x = Renamed(At(asked, ToRefuse(asked)), "error")
  OBVIOUS
<1>6. /\ x \in Seq([kind : {"error"}, id : Uids])
      /\ \A u, K : Has(x, u, K) <=> "error" \in K /\ \E k \in ToRefuse(asked) : asked[k].id = u
      /\ EndsLast(x) /\ ~Carries(x)
  <2>1. "error" \notin Counted /\ "error" \notin Rebuilding
    BY DEF Counted, Tokens, Rebuilding
  <2>2. ToRefuse(asked) \in SUBSET ToEncode(asked)
    BY DEF ToRefuse
  <2> QED BY ONLY <1>5, <2>1, <2>2, asked \in Seq(Asks), PromptsAre
<1>7. x \in Seq(Replies)
  <2>1. [kind : {"error"}, id : Uids] \subseteq Replies
    BY DEF Replies
  <2> QED BY ONLY <1>6, <2>1, SeqMonotonic
<1>8. PICK p \in Seq(Replies) : p = a \o t /\ Joined(p, a, t)
  BY ONLY a \in Seq(Replies), t \in Seq(Replies), JoinedAre
<1>9. PICK q \in Seq(Replies) : q = p \o e /\ Joined(q, p, e)
  BY ONLY p \in Seq(Replies), e \in Seq(Replies), JoinedAre
<1>10. PICK s \in Seq(Replies) : s = q \o x /\ Joined(s, q, x)
  BY ONLY q \in Seq(Replies), <1>7, JoinedAre
<1>11. PICK y \in Seq(Replies) : y = o \o s /\ Joined(y, o, s)
  BY ONLY o \in Seq(Replies), s \in Seq(Replies), JoinedAre
<1>12. ASSUME NEW u, NEW K
       PROVE  Has(y, u, K) <=> \/ Has(o, u, K) \/ Has(a, u, K) \/ Has(t, u, K) \/ Has(e, u, K)
                               \/ Has(x, u, K)
  BY <1>8, <1>9, <1>10, <1>11 DEF Joined
<1>13. \A i \in DOMAIN told : told[i].kind \in {"admitted", "token", "last", "error", "rebuilt"}
  <2>1. \A i \in DOMAIN told : told[i] \in Replies
    OBVIOUS
  <2> QED BY <2>1 DEF Replies
<1>14. ASSUME NEW u PROVE ~Has(told, u, {}) /\ Count(told, u, {}) = 0
  <2>1. Where(told, u, {}) = {}
    BY DEF Where
  <2> QED BY <2>1, FS_EmptySet DEF Count, Has
<1>15. ASSUME NEW u PROVE Has(y, u, Counted) <=> Has(told, u, Counted)
  <2>1. /\ {"rebuilt"} \cap Counted = {} /\ {"admitted"} \cap Counted = {"admitted"}
        /\ {"token", "last"} \cap Counted = Tokens /\ {"error"} \cap Counted = {}
        /\ "error" \notin Counted
    BY DEF Counted, Tokens
  <2>2. /\ ~Has(o, u, Counted)
        /\ ~Has(e, u, Counted)
        /\ Has(a, u, Counted) <=> Has(told, u, {"admitted"})
        /\ Has(t, u, Counted) <=> Has(told, u, Tokens)
    <3>1. ~Has(o, u, Counted)
      <4>1. Has(o, u, Counted) <=> Has(told, u, {"rebuilt"} \cap Counted)
        BY <1>1 DEF Picked
      <4> QED BY ONLY <1>14, <2>1, <4>1
    <3>2. ~Has(e, u, Counted)
      <4>1. Has(e, u, Counted) <=> Has(told, u, {"error"} \cap Counted)
        BY <1>4 DEF Picked
      <4> QED BY ONLY <1>14, <2>1, <4>1
    <3>3. Has(a, u, Counted) <=> Has(told, u, {"admitted"})
      <4>1. Has(a, u, Counted) <=> Has(told, u, {"admitted"} \cap Counted)
        BY <1>2 DEF Picked
      <4> QED BY ONLY <1>14, <2>1, <4>1
    <3>4. Has(t, u, Counted) <=> Has(told, u, Tokens)
      <4>1. Has(t, u, Counted) <=> Has(told, u, {"token", "last"} \cap Counted)
        BY <1>3 DEF Picked
      <4> QED BY ONLY <1>14, <2>1, <4>1
    <3> QED BY ONLY <3>1, <3>2, <3>3, <3>4
  <2>3. ~Has(x, u, Counted)
    BY <1>6, <2>1
  <2>4. Has(told, u, Counted) <=> Has(told, u, {"admitted"}) \/ Has(told, u, Tokens)
    BY DEF Has, Counted
  <2> QED BY <1>12, <2>2, <2>3, <2>4
<1>16. ASSUME NEW u
       PROVE  Has(y, u, Ends) <=>
                Has(told, u, Ends) \/ (u \in BadPrompts /\ Has(asked, u, {"tokenize"}))
  <2>1. /\ {"rebuilt"} \cap Ends = {} /\ {"admitted"} \cap Ends = {}
        /\ {"token", "last"} \cap Ends = {"last"} /\ {"error"} \cap Ends = {"error"}
        /\ "error" \in Ends
    BY DEF Ends
  <2>2. /\ ~Has(o, u, Ends)
        /\ ~Has(a, u, Ends)
        /\ Has(t, u, Ends) <=> Has(told, u, {"last"})
        /\ Has(e, u, Ends) <=> Has(told, u, {"error"})
    <3>1. ~Has(o, u, Ends)
      <4>1. Has(o, u, Ends) <=> Has(told, u, {"rebuilt"} \cap Ends)
        BY <1>1 DEF Picked
      <4> QED BY ONLY <1>14, <2>1, <4>1
    <3>2. ~Has(a, u, Ends)
      <4>1. Has(a, u, Ends) <=> Has(told, u, {"admitted"} \cap Ends)
        BY <1>2 DEF Picked
      <4> QED BY ONLY <1>14, <2>1, <4>1
    <3>3. Has(t, u, Ends) <=> Has(told, u, {"last"})
      <4>1. Has(t, u, Ends) <=> Has(told, u, {"token", "last"} \cap Ends)
        BY <1>3 DEF Picked
      <4> QED BY ONLY <1>14, <2>1, <4>1
    <3>4. Has(e, u, Ends) <=> Has(told, u, {"error"})
      <4>1. Has(e, u, Ends) <=> Has(told, u, {"error"} \cap Ends)
        BY <1>4 DEF Picked
      <4> QED BY ONLY <1>14, <2>1, <4>1
    <3> QED BY ONLY <3>1, <3>2, <3>3, <3>4
  <2>3. Has(x, u, Ends) <=> \E k \in ToRefuse(asked) : asked[k].id = u
    BY <1>6, <2>1
  <2>4. (\E k \in ToRefuse(asked) : asked[k].id = u) <=>
          u \in BadPrompts /\ Has(asked, u, {"tokenize"})
    BY DEF ToRefuse, ToEncode, Has
  <2>5. Has(told, u, Ends) <=> Has(told, u, {"last"}) \/ Has(told, u, {"error"})
    BY DEF Has, Ends
  <2> QED BY <1>12, <2>2, <2>3, <2>4, <2>5
<1>17. ASSUME NEW u, NEW K, "error" \notin K
       PROVE  Count(y, u, K) = Count(o, u, K) + (Count(a, u, K) + Count(t, u, K) + Count(e, u, K))
  <2>1. Count(p, u, K) = Count(a, u, K) + Count(t, u, K)
    BY <1>8 DEF Joined
  <2>2. Count(q, u, K) = Count(p, u, K) + Count(e, u, K)
    BY <1>9 DEF Joined
  <2>3. Count(s, u, K) = Count(q, u, K) + Count(x, u, K) /\ Count(q, u, K) \in Nat
    BY <1>10 DEF Joined
  <2>4. Count(y, u, K) = Count(o, u, K) + Count(s, u, K)
    BY <1>11 DEF Joined
  <2>5. ~Has(x, u, K)
    BY <1>6, <1>17
  <2>6. Count(x, u, K) = 0
    BY ONLY <1>7, <2>5, WhereFinite
  <2> QED BY ONLY <2>1, <2>2, <2>3, <2>4, <2>6
<1>18. ASSUME NEW u, NEW K PROVE Count(told, u, K) \in Nat
  BY ONLY told \in Seq(Replies), WhereFinite
<1>19. ASSUME NEW u PROVE Count(y, u, Tokens) = Count(told, u, Tokens)
  <2>1. /\ {"rebuilt"} \cap Tokens = {} /\ {"admitted"} \cap Tokens = {}
        /\ {"token", "last"} \cap Tokens = Tokens /\ {"error"} \cap Tokens = {}
        /\ "error" \notin Tokens
    BY DEF Tokens
  <2>2. /\ Count(o, u, Tokens) = 0
        /\ Count(a, u, Tokens) = 0
        /\ Count(t, u, Tokens) = Count(told, u, Tokens)
        /\ Count(e, u, Tokens) = 0
    <3>1. Count(o, u, Tokens) = 0
      <4>1. Count(o, u, Tokens) = Count(told, u, {"rebuilt"} \cap Tokens)
        BY <1>1 DEF Picked
      <4> QED BY ONLY <1>14, <2>1, <4>1
    <3>2. Count(a, u, Tokens) = 0
      <4>1. Count(a, u, Tokens) = Count(told, u, {"admitted"} \cap Tokens)
        BY <1>2 DEF Picked
      <4> QED BY ONLY <1>14, <2>1, <4>1
    <3>3. Count(t, u, Tokens) = Count(told, u, Tokens)
      <4>1. Count(t, u, Tokens) = Count(told, u, {"token", "last"} \cap Tokens)
        BY <1>3 DEF Picked
      <4> QED BY ONLY <1>14, <2>1, <4>1
    <3>4. Count(e, u, Tokens) = 0
      <4>1. Count(e, u, Tokens) = Count(told, u, {"error"} \cap Tokens)
        BY <1>4 DEF Picked
      <4> QED BY ONLY <1>14, <2>1, <4>1
    <3> QED BY ONLY <3>1, <3>2, <3>3, <3>4
  <2> QED BY <1>17, <1>18, <2>1, <2>2
<1>20. ASSUME NEW u PROVE Count(y, u, {"admitted"}) = Count(told, u, {"admitted"})
  <2> DEFINE K == {"admitted"}
  <2>1. /\ {"rebuilt"} \cap K = {} /\ {"admitted"} \cap K = K
        /\ {"token", "last"} \cap K = {} /\ {"error"} \cap K = {}
        /\ "error" \notin K
    OBVIOUS
  <2> HIDE DEF K
  <2>2. /\ Count(o, u, K) = 0
        /\ Count(a, u, K) = Count(told, u, K)
        /\ Count(t, u, K) = 0
        /\ Count(e, u, K) = 0
    <3>1. Count(o, u, K) = 0
      <4>1. Count(o, u, K) = Count(told, u, {"rebuilt"} \cap K)
        BY <1>1 DEF Picked
      <4> QED BY ONLY <1>14, <2>1, <4>1
    <3>2. Count(a, u, K) = Count(told, u, K)
      <4>1. Count(a, u, K) = Count(told, u, {"admitted"} \cap K)
        BY <1>2 DEF Picked
      <4> QED BY ONLY <1>14, <2>1, <4>1
    <3>3. Count(t, u, K) = 0
      <4>1. Count(t, u, K) = Count(told, u, {"token", "last"} \cap K)
        BY <1>3 DEF Picked
      <4> QED BY ONLY <1>14, <2>1, <4>1
    <3>4. Count(e, u, K) = 0
      <4>1. Count(e, u, K) = Count(told, u, {"error"} \cap K)
        BY <1>4 DEF Picked
      <4> QED BY ONLY <1>14, <2>1, <4>1
    <3> QED BY ONLY <3>1, <3>2, <3>3, <3>4
  <2>3. Count(y, u, K) = Count(told, u, K)
    BY <1>17, <1>18, <2>1, <2>2
  <2> QED BY <2>3 DEF K
<1>21. ~Carries(a) /\ ~Carries(t) /\ ~Carries(e)
  BY <1>2, <1>3, <1>4 DEF Picked, Carries, Rebuilding
<1>22. ~Carries(s) /\ \A r : CarriesOne(s, r)
  <2>1. ~Carries(s)
    BY <1>6, <1>8, <1>9, <1>10, <1>21 DEF Joined
  <2> QED BY <2>1 DEF Carries, CarriesOne
<1>23. Carries(o) => Carries(told)
  BY <1>1 DEF Carries, Picked
<1>24. Carries(y) => Carries(told)
  BY <1>11, <1>22, <1>23 DEF Joined
<1>25. ASSUME NEW r, CarriesOne(told, r) PROVE CarriesOne(y, r)
  BY <1>1, <1>11, <1>22, <1>25 DEF Joined, Picked
<1>26. ASSUME EndsLast(told) PROVE EndsLast(y)
  <2>1. EndsLast(o) /\ EndsLast(a) /\ EndsLast(t) /\ EndsLast(e)
    BY <1>1, <1>2, <1>3, <1>4, <1>26 DEF Picked
  <2>2. ASSUME NEW u
        PROVE  /\ ~Has(a, u, Ends) /\ ~Has(o, u, Ends)
               /\ ~Has(e, u, Counted) /\ ~Has(x, u, Counted)
    <3>1. {"admitted"} \cap Ends = {} /\ {"rebuilt"} \cap Ends = {} /\ {"error"} \cap Counted = {}
          /\ "error" \notin Counted
      BY DEF Ends, Counted, Tokens
    <3>2. /\ Has(a, u, Ends) <=> Has(told, u, {"admitted"} \cap Ends)
          /\ Has(o, u, Ends) <=> Has(told, u, {"rebuilt"} \cap Ends)
          /\ Has(e, u, Counted) <=> Has(told, u, {"error"} \cap Counted)
      BY <1>1, <1>2, <1>4 DEF Picked
    <3>3. ~Has(a, u, Ends) /\ ~Has(o, u, Ends) /\ ~Has(e, u, Counted)
      BY ONLY <1>14, <3>1, <3>2
    <3> QED BY <1>6, <3>1, <3>3
  <2>3. EndsLast(p)
    BY <1>8, <2>1, <2>2 DEF Joined
  <2>4. EndsLast(q)
    BY <1>9, <2>1, <2>2, <2>3 DEF Joined
  <2>5. EndsLast(s)
    BY <1>6, <1>10, <2>2, <2>4 DEF Joined
  <2> QED BY <1>11, <2>1, <2>2, <2>5 DEF Joined
<1>27. y = Answered(told, asked)
  BY <1>1, <1>2, <1>3, <1>4, <1>5, <1>8, <1>9, <1>10, <1>11 DEF Answered, Relayed
<1>28. Answering(y, told, asked)
  BY <1>15, <1>16, <1>19, <1>20, <1>24, <1>25, <1>26 DEF Answering
<1> QED BY <1>27, <1>28

-----------------------------------------------------------------------------
(***************************************************************************)
(* What each part of the invariant looks at.                               *)
(***************************************************************************)

\* EngineOK reads the scheduler's state only.
LEMMA EngineStays ==
  ASSUME EngineOK, UNCHANGED <<stage, tombstones, pending_abort_acks, admitted, emitted>>
  PROVE  EngineOK'
BY DEF EngineOK, Served

\* RepliesOK reads the queues upstream and who is over.
LEMMA RepliesStay ==
  ASSUME RepliesOK, UNCHANGED <<to_front, to_detok, stage, tombstones>>
  PROVE  RepliesOK'
BY DEF RepliesOK, Over, Answers

\* CountsOK reads the totals, the queues upstream and what the engine sent.
LEMMA CountsStay ==
  ASSUME CountsOK, UNCHANGED <<to_front, to_detok, admitted, emitted>>,
         stats'.tokens = stats.tokens, stats'.prompts = stats.prompts
  PROVE  CountsOK'
BY DEF CountsOK, Answers

\* OrdersOK reads the queues downstream: more in flight, or fewer registered, keeps it.
LEMMA OrdersStay ==
  ASSUME OrdersOK, UNCHANGED <<to_worker, to_sched, dead, stage, tombstones>>,
         stats.inflight \subseteq stats'.inflight,
         \A u \in Uids : http'[u] = "registered" => u \in stats'.inflight
  PROVE  OrdersOK'
BY DEF OrdersOK

\* InFlightOK reads the queues upstream and who is served: more in flight keeps it.
LEMMA InFlightStays ==
  ASSUME InFlightOK, UNCHANGED <<dead, stage, to_detok, to_front>>,
         stats.inflight \subseteq stats'.inflight
  PROVE  InFlightOK'
BY DEF InFlightOK, Served, Answers

\* SealOK reads the barrier, the mode and the totals.
LEMMA SealStays ==
  ASSUME SealOK, UNCHANGED <<prepare, maintenance_state, dead, sealed>>,
         stats'.inflight = stats.inflight, stats'.tokens = stats.tokens,
         stats'.prompts = stats.prompts
  PROVE  SealOK'
BY DEF SealOK, Totals

\* GateOK reads the gate and who is in flight.
LEMMA GateStays ==
  ASSUME GateOK, UNCHANGED <<gate_free, gate_uids, uid_counter, dead>>,
         stats'.inflight = stats.inflight
  PROVE  GateOK'
BY DEF GateOK

\* DeathOK reads the supervisor.
LEMMA DeathStays ==
  ASSUME DeathOK, UNCHANGED <<dead, supervisor, loop_calls>>
  PROVE  DeathOK'
BY DEF DeathOK

\* DecodeOK reads the detokenizer and who is awaited.
LEMMA DecodeStays ==
  ASSUME DecodeOK, UNCHANGED <<decode_map, to_detok, stage, pending_abort_acks>>
  PROVE  DecodeOK'
BY DEF DecodeOK, Awaited, Served

\* RebuildOK reads every queue, the engine's rebuild and the mode.
LEMMA RebuildStays ==
  ASSUME RebuildOK, UNCHANGED <<queues, queued_rebuild, rebuild_msg, active_rebuild,
                                last_rebuild_id, maintenance_state>>
  PROVE  RebuildOK'
BY DEF RebuildOK, RebuildAt, queues

\* Types of what an action leaves alone.
LEMMA QueuesStay ==
  ASSUME QueueTypes, UNCHANGED queues
  PROVE  QueueTypes'
BY DEF QueueTypes, queues

\* Types of the scheduler's state.
LEMMA EngineTypesStay ==
  ASSUME EngineTypes, UNCHANGED backend
  PROVE  EngineTypes'
BY DEF EngineTypes, backend

-----------------------------------------------------------------------------
(***************************************************************************)
(* The steps on the queues.                                                *)
(***************************************************************************)

\* The uids are finitely many numbers.
LEMMA UidsFacts ==
  /\ IsFiniteSet(Uids) /\ Cardinality(Uids) \in Nat /\ Uids \subseteq Nat
  /\ \A S \in SUBSET Uids : IsFiniteSet(S) /\ Cardinality(S) \in Nat
  /\ \A u \in Uids : u < Cardinality(Uids)
<1>1. IsFiniteSet(Uids) /\ Uids = 0 .. Cardinality(Uids) - 1
  BY RequestFlowAssumption
<1>2. Cardinality(Uids) \in Nat
  BY <1>1, FS_CardinalityType
<1>3. ASSUME NEW S \in SUBSET Uids PROVE IsFiniteSet(S) /\ Cardinality(S) \in Nat
  <2>1. IsFiniteSet(S)
    BY <1>1, FS_Subset
  <2> QED BY <2>1, FS_CardinalityType
<1> QED BY <1>1, <1>2, <1>3

\* The places of the rebuild, one by one.
LEMMA PlacesAre ==
  /\ \A w \in Tokenizers : Carries(to_worker[w]) <=> <<"worker", w>> \in RebuildAt
  /\ \A w \in Tokenizers : Carries(to_sched[w]) <=> <<"sched", w>> \in RebuildAt
  /\ \A w \in Workers : Carries(to_front[w]) <=> <<"front", w>> \in RebuildAt
  /\ Carries(to_detok) <=> <<"detok", Detokenizer>> \in RebuildAt
  /\ rebuild_msg # 0 <=> <<"engine", Detokenizer>> \in RebuildAt
BY DEF RebuildAt

\* A queue with no rebuild has none to compare with.
LEMMA CarriesNone ==
  ASSUME NEW s, ~Carries(s), NEW r
  PROVE  CarriesOne(s, r)
BY DEF Carries, CarriesOne

\* A queue's message types.
LEMMA QueueOf ==
  ASSUME QueueTypes
  PROVE  /\ \A w \in Tokenizers : to_worker[w] \in Seq(Asks) /\ to_sched[w] \in Seq(Orders)
         /\ \A w \in Workers : to_front[w] \in Seq(Replies)
         /\ Answers \in Seq(Replies) /\ to_detok \in Seq(Replies)
BY DEF QueueTypes, Answers, Workers

\* A message is appended.
LEMMA AppendedIs ==
  ASSUME NEW M, NEW s \in Seq(M), NEW m \in M
  PROVE  Append(s, m) \in Seq(M) /\ <<m>> \in Seq(M) /\ Joined(Append(s, m), s, <<m>>)
<1>1. <<m>> \in Seq(M) /\ Append(s, m) = s \o <<m>>
  OBVIOUS
<1> QED BY ONLY <1>1, s \in Seq(M), JoinedAre

\* A message is taken.
LEMMA TakenIs ==
  ASSUME NEW M, NEW s \in Seq(M), s # <<>>
  PROVE  /\ Head(s) \in M /\ Tail(s) \in Seq(M) /\ Joined(s, <<Head(s)>>, Tail(s))
<1>1. Head(s) \in M /\ Tail(s) \in Seq(M) /\ <<Head(s)>> \in Seq(M) /\ s = <<Head(s)>> \o Tail(s)
  BY ONLY s \in Seq(M), s # <<>>, HeadParts
<1>2. PICK h \in Seq(M), t \in Seq(M) : h = <<Head(s)>> /\ t = Tail(s)
  BY <1>1
<1>3. Joined(h \o t, h, t)
  BY ONLY h \in Seq(M), t \in Seq(M), JoinedAre
<1> QED BY <1>1, <1>2, <1>3

\* A queue is cut in two.
LEMMA CutIs ==
  ASSUME NEW M, NEW s \in Seq(M), NEW n \in 0 .. Len(s)
  PROVE  /\ SubSeq(s, 1, n) \in Seq(M) /\ SubSeq(s, n + 1, Len(s)) \in Seq(M)
         /\ Joined(s, SubSeq(s, 1, n), SubSeq(s, n + 1, Len(s)))
<1>1. PICK h, t : h = SubSeq(s, 1, n) /\ t = SubSeq(s, n + 1, Len(s))
  OBVIOUS
<1>2. h \in Seq(M) /\ t \in Seq(M) /\ s = h \o t
  BY ONLY <1>1, s \in Seq(M), n \in 0 .. Len(s), CutParts
<1>3. Joined(h \o t, h, t)
  BY ONLY <1>2, JoinedAre
<1> QED BY <1>1, <1>2, <1>3

\* The one message of a queue.
LEMMA OneIs ==
  ASSUME NEW m
  PROVE  /\ \A u, K : Has(<<m>>, u, K) <=> m.id = u /\ m.kind \in K
         /\ EndsLast(<<m>>) /\ (Carries(<<m>>) <=> m.kind \in Rebuilding)
         /\ \A r : CarriesOne(<<m>>, r) <=> (m.kind \in Rebuilding => m.id = r)
<1>1. DOMAIN <<m>> = {1} /\ <<m>>[1] = m
  OBVIOUS
<1>2. PICK q : q = <<m>>
  OBVIOUS
<1>3. DOMAIN q = {1} /\ q[1] = m
  BY <1>1, <1>2
<1>4. ASSUME NEW u, NEW K PROVE Has(q, u, K) <=> m.id = u /\ m.kind \in K
  BY <1>3 DEF Has
<1>5. EndsLast(q)
  BY <1>3 DEF EndsLast
<1>6. Carries(q) <=> m.kind \in Rebuilding
  BY <1>3 DEF Carries
<1>7. ASSUME NEW r PROVE CarriesOne(q, r) <=> (m.kind \in Rebuilding => m.id = r)
  BY <1>3 DEF CarriesOne
<1> QED BY ONLY <1>2, <1>4, <1>5, <1>6, <1>7

\* Sending to a tokenizer worker leaves the rest of the queues alone.
LEMMA SentIs ==
  ASSUME QueueTypes, NEW m \in Asks, Send(m)
  PROVE  /\ listening' = TRUE /\ QueueTypes' /\ UNCHANGED <<to_detok, to_sched, to_front>>
         /\ \E w \in Tokenizers :
              /\ \A v \in Tokenizers \ {w} : to_worker'[v] = to_worker[v]
              /\ Joined(to_worker'[w], to_worker[w], <<m>>)
<1>1. PICK w \in Tokenizers : to_worker' = [to_worker EXCEPT ![w] = Append(@, m)]
  BY DEF Send
<1>2. listening' = TRUE /\ UNCHANGED <<to_detok, to_sched, to_front>>
  BY DEF Send
<1>3. PICK s \in Seq(Asks) : s = to_worker[w]
  BY QueueOf
<1>4. Append(s, m) \in Seq(Asks) /\ Joined(Append(s, m), s, <<m>>)
  BY ONLY s \in Seq(Asks), m \in Asks, AppendedIs
<1>5. /\ to_worker'[w] = Append(s, m) /\ to_worker' \in [Tokenizers -> Seq(Asks)]
      /\ \A v \in Tokenizers \ {w} : to_worker'[v] = to_worker[v]
  BY <1>1, <1>3, <1>4 DEF QueueTypes
<1>6. QueueTypes'
  BY <1>2, <1>5 DEF QueueTypes
<1> QED BY <1>2, <1>3, <1>4, <1>5, <1>6

-----------------------------------------------------------------------------
(***************************************************************************)
(* The frontend's own steps keep the invariant.                            *)
(***************************************************************************)

\* A new user is in flight; nothing is counted yet.
LEMMA NewUserIs ==
  ASSUME NEW st \in Statistics, NEW u \in Uids, st.aborting \subseteq st.inflight
  PROVE  LET new == on_new_user(st, u)
         IN  /\ new \in Statistics /\ new.aborting \subseteq new.inflight
             /\ new.inflight = st.inflight \cup {u}
             /\ new.tokens = st.tokens /\ new.prompts = st.prompts
BY DEF Statistics, on_new_user

\* An abort only marks the request.
LEMMA AbortIs ==
  ASSUME NEW st \in Statistics, NEW u \in Uids, st.aborting \subseteq st.inflight
  PROVE  LET new == on_abort(st, u)
         IN  /\ new \in Statistics /\ new.aborting \subseteq new.inflight
             /\ new.inflight = st.inflight
             /\ new.tokens = st.tokens /\ new.prompts = st.prompts
BY DEF Statistics, on_abort

\* AdmitGeneration keeps the invariant: it registers a new uid, with a slot of the
\* gate, only while the serve is serving.
LEMMA AdmitKeeps ==
  ASSUME FlowInv, NEW u \in Uids, AdmitGeneration(u)
  PROVE  FlowInv'
<1>1. FrontendTypes /\ QueueTypes /\ EngineTypes
  BY DEF FlowInv, FlowTypes
<1>2. stats' \in Statistics /\ stats'.aborting \subseteq stats'.inflight
      /\ stats'.inflight = stats.inflight \cup {u}
      /\ stats'.tokens = stats.tokens /\ stats'.prompts = stats.prompts
  <2>1. stats' = on_new_user(stats, u) /\ stats \in Statistics
        /\ stats.aborting \subseteq stats.inflight
    BY <1>1 DEF AdmitGeneration, FrontendTypes
  <2> QED BY <2>1, NewUserIs
<1>3. UNCHANGED <<queues, backend, dead, decode_map, supervisor, loop_calls, prepare, sealed,
                  maintenance_state, active_rebuild, last_rebuild_id>>
  BY DEF AdmitGeneration, rebuilds, stopping, watching
<1>4. http' = [http EXCEPT ![u] = "registered"] /\ u = uid_counter /\ uid_counter' = u + 1
      /\ maintenance_state = "serving"
  BY DEF AdmitGeneration
<1>5. FrontendTypes'
  <2>1. uid_counter' \in 0 .. Cardinality(Uids)
    BY <1>4, UidsFacts
  <2>2. gate_free' \in Nat /\ gate_uids' \subseteq Uids
    <3>1. \/ GateLimit > 0 /\ gate_free > 0 /\ gate_free' = gate_free - 1
             /\ gate_uids' = gate_uids \cup {u}
          \/ UNCHANGED <<gate_free, gate_uids>>
      BY DEF AdmitGeneration
    <3>2. gate_free \in Nat /\ gate_uids \subseteq Uids
      BY <1>1 DEF FrontendTypes
    <3> QED BY ONLY <3>1, <3>2, u \in Uids
  <2>3. UNCHANGED <<maintenance_state, fatal_error, listening, acks, abort_tasks, active_rebuild,
                    rebuild_futures, last_rebuild_id, prepare, supervisor, decode_map, dead>>
    BY DEF AdmitGeneration, rebuilds, stopping, watching
  <2>4. ack_map' = ack_map \cup {u}
    BY DEF AdmitGeneration
  <2>5. http' \in [Uids -> {"none", "registered", "waiting", "answered", "failed", "left",
                            "broken"}]
    BY <1>1, <1>4 DEF FrontendTypes
  <2> QED BY <1>1, <1>2, <2>1, <2>2, <2>3, <2>4, <2>5 DEF FrontendTypes
<1>6. QueueTypes' /\ EngineTypes'
  BY <1>1, <1>3, QueuesStay, EngineTypesStay
<1>7. EngineOK' /\ RepliesOK' /\ CountsOK'
  <2>1. EngineOK'
    BY <1>3, EngineStays DEF FlowInv, backend
  <2>2. RepliesOK'
    BY <1>3, RepliesStay DEF FlowInv, backend, queues
  <2>3. CountsOK'
    BY <1>2, <1>3, CountsStay DEF FlowInv, backend, queues
  <2> QED BY <2>1, <2>2, <2>3
<1>8. OrdersOK'
  <2>1. \A v \in Uids : http'[v] = "registered" => v \in stats'.inflight
    <3>1. \A v \in Uids : http[v] = "registered" => v \in stats.inflight
      BY DEF FlowInv, OrdersOK
    <3> QED BY <1>1, <1>2, <1>4, <3>1 DEF FrontendTypes
  <2> QED BY <1>2, <1>3, <2>1, OrdersStay DEF FlowInv, backend, queues
<1>9. InFlightOK'
  BY <1>2, <1>3, InFlightStays DEF FlowInv, backend, queues
<1>10. SealOK'
  BY <1>3, <1>4 DEF FlowInv, SealOK
<1>11. GateOK'
  <2>1. GateOK
    BY DEF FlowInv
  <2>2. CASE GateLimit > 0
    <3>1. gate_free' = gate_free - 1 /\ gate_uids' = gate_uids \cup {u} /\ gate_free > 0
      BY <2>2 DEF AdmitGeneration
    <3>2. u \notin gate_uids
      BY <1>1, <1>4, <2>1, UidsFacts DEF GateOK, FrontendTypes
    <3>3. IsFiniteSet(gate_uids) /\ Cardinality(gate_uids) \in Nat
      BY <1>1, UidsFacts DEF FrontendTypes
    <3>4. Cardinality(gate_uids') = Cardinality(gate_uids) + 1
      BY <3>1, <3>2, <3>3, FS_AddElement
    <3>5. \A v \in gate_uids' : v < uid_counter'
      BY <1>1, <1>4, <2>1, <3>1, UidsFacts DEF GateOK, FrontendTypes
    <3> QED BY <1>1, <1>2, <1>3, <2>1, <2>2, <3>1, <3>3, <3>4, <3>5 DEF GateOK, FrontendTypes
  <2>3. CASE ~(GateLimit > 0)
    <3>1. UNCHANGED <<gate_free, gate_uids>>
      BY <2>3 DEF AdmitGeneration
    <3>2. \A v \in gate_uids' : v < uid_counter'
      BY <1>1, <1>4, <2>1, <3>1, UidsFacts DEF GateOK, FrontendTypes
    <3> QED BY <2>1, <2>3, <3>1, <3>2 DEF GateOK
  <2> QED BY <2>2, <2>3
<1>12. DeathOK'
  BY <1>3, DeathStays DEF FlowInv
<1>13. DecodeOK'
  BY <1>3, DecodeStays DEF FlowInv, backend, queues
<1>14. RebuildOK'
  BY <1>3, RebuildStays DEF FlowInv, backend
<1> QED BY <1>5, <1>6, <1>7, <1>8, <1>9, <1>10, <1>11, <1>12, <1>13, <1>14 DEF FlowInv, FlowTypes

\* A step of the frontend that counts nothing, ends nothing and takes nothing from a queue
\* has four parts of the invariant to keep.
LEMMA FrontendKeeps ==
  ASSUME FlowInv, FrontendTypes', QueueTypes', OrdersOK', SealOK', GateOK', RebuildOK',
         UNCHANGED <<to_detok, to_front, backend, dead, decode_map, supervisor, loop_calls>>,
         stats'.inflight = stats.inflight, stats'.tokens = stats.tokens,
         stats'.prompts = stats.prompts
  PROVE  FlowInv'
<1>1. EngineTypes'
  BY EngineTypesStay DEF FlowInv, FlowTypes
<1>2. EngineOK'
  BY EngineStays DEF FlowInv, backend
<1>3. RepliesOK'
  BY RepliesStay DEF FlowInv, backend
<1>4. CountsOK'
  BY CountsStay DEF FlowInv, backend
<1>5. InFlightOK'
  BY InFlightStays DEF FlowInv, backend
<1>6. DeathOK'
  BY DeathStays DEF FlowInv
<1>7. DecodeOK'
  BY DecodeStays DEF FlowInv, backend
<1> QED BY <1>1, <1>2, <1>3, <1>4, <1>5, <1>6, <1>7 DEF FlowInv, FlowTypes

\* What is sent to a worker besides rebuilds is an abort, or a prompt in flight.
LEMMA AskKeeps ==
  ASSUME FlowInv, NEW m \in Asks, m.kind # "rebuild", Send(m),
         m.kind = "tokenize" => m.id \in stats.inflight,
         stats'.inflight = stats.inflight,
         UNCHANGED <<dead, backend, active_rebuild, last_rebuild_id, maintenance_state>>,
         \A u \in Uids : http'[u] = "registered" => http[u] = "registered"
  PROVE  QueueTypes' /\ OrdersOK' /\ RebuildOK'
<1>1. QueueTypes /\ OrdersOK /\ RebuildOK
  BY DEF FlowInv, FlowTypes
<1>2. QueueTypes' /\ UNCHANGED <<to_detok, to_sched, to_front>>
  BY <1>1, SentIs
<1>3. PICK w \in Tokenizers : /\ \A v \in Tokenizers \ {w} : to_worker'[v] = to_worker[v]
                              /\ Joined(to_worker'[w], to_worker[w], <<m>>)
  BY <1>1, SentIs
<1>4. /\ \A u, K : Has(<<m>>, u, K) <=> m.id = u /\ m.kind \in K
      /\ ~Carries(<<m>>) /\ \A r : CarriesOne(<<m>>, r)
  BY OneIs DEF Rebuilding, Asks
<1>5. OrdersOK'
  <2>1. \A u \in Uids, v \in Tokenizers :
          Has(to_worker'[v], u, {"tokenize"}) =>
            Has(to_worker[v], u, {"tokenize"}) \/ u \in stats.inflight
    <3>1. \A u : Has(<<m>>, u, {"tokenize"}) => u \in stats.inflight
      BY <1>4
    <3>2. \A u : Has(to_worker'[w], u, {"tokenize"}) <=>
                   Has(to_worker[w], u, {"tokenize"}) \/ Has(<<m>>, u, {"tokenize"})
      BY <1>3 DEF Joined
    <3> QED BY <1>3, <3>1, <3>2
  <2>2. UNCHANGED <<dead, stage, tombstones, to_sched>>
    BY <1>2 DEF backend
  <2> QED BY <1>1, <2>1, <2>2 DEF OrdersOK
<1>6. RebuildOK'
  <2>1. \A v \in Tokenizers : /\ Carries(to_worker'[v]) <=> Carries(to_worker[v])
                              /\ \A r : CarriesOne(to_worker[v], r) => CarriesOne(to_worker'[v], r)
    <3>1. /\ Carries(to_worker'[w]) <=> Carries(to_worker[w])
          /\ \A r : CarriesOne(to_worker[w], r) => CarriesOne(to_worker'[w], r)
      BY <1>3, <1>4 DEF Joined
    <3> QED BY <1>3, <3>1
  <2>2. RebuildAt' = RebuildAt
    BY <1>2, <2>1 DEF RebuildAt, backend
  <2> QED BY <1>1, <1>2, <2>1, <2>2 DEF RebuildOK, backend
<1> QED BY <1>2, <1>5, <1>6

\* Submit keeps the invariant: the prompt it sends is in flight.
LEMMA SubmitKeeps ==
  ASSUME FlowInv, NEW u \in Uids, Submit(u)
  PROVE  FlowInv'
<1>1. FrontendTypes /\ QueueTypes
  BY DEF FlowInv, FlowTypes
<1>2. Send(Msg("tokenize", u)) /\ http[u] = "registered" /\ http' = [http EXCEPT ![u] = "waiting"]
  BY DEF Submit
<1>3. UNCHANGED <<uid_counter, ack_map, acks, gate_free, gate_uids, stats, abort_tasks,
                  maintenance_state, fatal_error, supervisor, loop_calls, active_rebuild,
                  rebuild_futures, last_rebuild_id, prepare, sealed, stop_rounds, decode_map, dead,
                  backend>>
  BY DEF Submit, rebuilds, stopping, watching
<1>4. Msg("tokenize", u) \in Asks /\ Msg("tokenize", u).kind = "tokenize"
      /\ Msg("tokenize", u).id = u
  BY DEF Msg, Asks
<1>5. u \in stats.inflight
  BY <1>2 DEF FlowInv, OrdersOK
<1>6. \A v \in Uids : http'[v] = "registered" => http[v] = "registered"
  BY <1>1, <1>2 DEF FrontendTypes
<1>7. QueueTypes' /\ OrdersOK' /\ RebuildOK'
  BY ONLY FlowInv, <1>2, <1>3, <1>4, <1>5, <1>6, AskKeeps
<1>8. listening' = TRUE /\ UNCHANGED <<to_detok, to_front>>
  BY <1>2 DEF Send
<1>9. http' \in [Uids -> {"none", "registered", "waiting", "answered", "failed", "left", "broken"}]
  BY <1>1, <1>2 DEF FrontendTypes
<1>10. FrontendTypes'
  BY <1>1, <1>3, <1>8, <1>9 DEF FrontendTypes
<1>11. SealOK' /\ GateOK'
  BY <1>3, SealStays, GateStays DEF FlowInv
<1> QED BY ONLY FlowInv, <1>3, <1>7, <1>8, <1>10, <1>11, FrontendKeeps

\* A released slot is free, and no longer the request's.
LEMMA ReleasedIs ==
  ASSUME FrontendTypes, GateOK, NEW u \in Uids, ReleaseSlot(u)
  PROVE  /\ gate_free' \in Nat /\ gate_uids' \subseteq Uids /\ gate_uids' = gate_uids \ {u}
         /\ gate_free' + Cardinality(gate_uids') = GateLimit
<1>1. gate_uids' = gate_uids \ {u}
      /\ gate_free' = gate_free + (IF u \in gate_uids THEN 1 ELSE 0)
  BY DEF ReleaseSlot
<1>2. gate_free \in Nat /\ gate_uids \subseteq Uids
      /\ gate_free + Cardinality(gate_uids) = GateLimit
  BY DEF FrontendTypes, GateOK
<1>3. IsFiniteSet(gate_uids) /\ Cardinality(gate_uids) \in Nat
  BY <1>2, UidsFacts
<1>4. Cardinality(gate_uids \ {u}) = Cardinality(gate_uids) - (IF u \in gate_uids THEN 1 ELSE 0)
  <2>1. CASE u \in gate_uids
    BY <1>3, <2>1, FS_RemoveElement
  <2>2. CASE u \notin gate_uids
    <3>1. gate_uids \ {u} = gate_uids
      BY <2>2
    <3> QED BY <1>3, <2>2, <3>1
  <2> QED BY <2>1, <2>2
<1> QED BY <1>1, <1>2, <1>3, <1>4

\* SubmitFails keeps the invariant: the prompt may have left all the same, and the request
\* stays in flight; its slot is free early, and GateOK speaks of sends that do not fail.
LEMMA SubmitFailsKeeps ==
  ASSUME FlowInv, NEW u \in Uids, SubmitFails(u)
  PROVE  FlowInv'
<1>1. FrontendTypes /\ QueueTypes /\ GateOK
  BY DEF FlowInv, FlowTypes
<1>2. http[u] = "registered" /\ http' = [http EXCEPT ![u] = "failed"] /\ SendFails
      /\ stats' = on_abort(stats, u) /\ ReleaseSlot(u) /\ ack_map' = ack_map \ {u}
  BY DEF SubmitFails
<1>3. UNCHANGED <<uid_counter, acks, abort_tasks, maintenance_state, fatal_error, supervisor,
                  loop_calls, active_rebuild, rebuild_futures, last_rebuild_id, prepare, sealed,
                  stop_rounds, decode_map, dead, backend>>
  BY DEF SubmitFails, rebuilds, stopping, watching
<1>4. Msg("tokenize", u) \in Asks /\ Msg("tokenize", u).kind = "tokenize"
      /\ Msg("tokenize", u).id = u
  BY DEF Msg, Asks
<1>5. u \in stats.inflight
  BY <1>2 DEF FlowInv, OrdersOK
<1>6. \A v \in Uids : http'[v] = "registered" => http[v] = "registered"
  BY <1>1, <1>2 DEF FrontendTypes
<1>7. /\ stats' \in Statistics /\ stats'.aborting \subseteq stats'.inflight
      /\ stats'.inflight = stats.inflight
      /\ stats'.tokens = stats.tokens /\ stats'.prompts = stats.prompts
  <2>1. stats \in Statistics /\ stats.aborting \subseteq stats.inflight
    BY <1>1 DEF FrontendTypes
  <2> QED BY <1>2, <2>1, AbortIs
<1>8. listening' = TRUE /\ UNCHANGED <<to_detok, to_front>>
  BY DEF SubmitFails, Send, queues
<1>9. QueueTypes' /\ OrdersOK' /\ RebuildOK'
  <2>1. CASE Send(Msg("tokenize", u))
    BY ONLY FlowInv, <1>3, <1>4, <1>5, <1>6, <1>7, <2>1, AskKeeps
  <2>2. CASE UNCHANGED queues
    <3>1. QueueTypes'
      BY <1>1, <2>2, QueuesStay
    <3>2. RebuildOK'
      BY <1>3, <2>2, RebuildStays DEF FlowInv, backend
    <3>3. \A v \in Uids : http'[v] = "registered" => v \in stats'.inflight
      BY <1>6, <1>7 DEF FlowInv, OrdersOK
    <3>4. OrdersOK'
      BY <1>3, <1>7, <2>2, <3>3, OrdersStay DEF FlowInv, backend, queues
    <3> QED BY <3>1, <3>2, <3>4
  <2> QED BY <2>1, <2>2 DEF SubmitFails
<1>10. /\ gate_free' \in Nat /\ gate_uids' \subseteq Uids /\ gate_uids' = gate_uids \ {u}
       /\ gate_free' + Cardinality(gate_uids') = GateLimit
  BY <1>1, <1>2, ReleasedIs
<1>11. http' \in [Uids -> {"none", "registered", "waiting", "answered", "failed", "left",
                           "broken"}]
  BY <1>1, <1>2 DEF FrontendTypes
<1>12. FrontendTypes'
  BY <1>1, <1>2, <1>3, <1>7, <1>8, <1>10, <1>11 DEF FrontendTypes
<1>13. SealOK'
  BY <1>3, <1>7, SealStays DEF FlowInv
<1>14. GateOK'
  BY <1>1, <1>2, <1>3, <1>10 DEF GateOK
<1> QED BY ONLY FlowInv, <1>3, <1>7, <1>8, <1>9, <1>12, <1>13, <1>14, FrontendKeeps

\* A step of the frontend that touches neither the statistics, nor the queues, nor the gate
\* has its own types and the barrier to keep.
LEMMA HandlerKeeps ==
  ASSUME FlowInv, FrontendTypes', SealOK',
         UNCHANGED <<uid_counter, gate_free, gate_uids, stats, queues, backend, dead, decode_map,
                     supervisor, loop_calls, maintenance_state, active_rebuild, last_rebuild_id>>,
         \A u \in Uids : http'[u] = "registered" => http[u] = "registered"
  PROVE  FlowInv'
<1>1. QueueTypes'
  BY QueuesStay DEF FlowInv, FlowTypes
<1>2. \A u \in Uids : http'[u] = "registered" => u \in stats'.inflight
  BY DEF FlowInv, OrdersOK
<1>3. OrdersOK'
  BY <1>2, OrdersStay DEF FlowInv, backend, queues
<1>4. GateOK'
  BY GateStays DEF FlowInv
<1>5. RebuildOK'
  BY RebuildStays DEF FlowInv, backend
<1>6. UNCHANGED <<to_detok, to_front>>
  BY DEF queues
<1> QED BY ONLY FlowInv, FrontendTypes', SealOK', <1>1, <1>3, <1>4, <1>5, <1>6, FrontendKeeps,
           UNCHANGED <<uid_counter, gate_free, gate_uids, stats, queues, backend, dead, decode_map,
                       supervisor, loop_calls, maintenance_state, active_rebuild, last_rebuild_id>>

\* TakeAcks, TakeAcksFails and ClientLeaves only touch the handler and its entry.
LEMMA EntriesKeep ==
  ASSUME FlowInv, NEW u \in Uids, TakeAcks(u) \/ TakeAcksFails(u) \/ ClientLeaves(u)
  PROVE  FlowInv'
<1>1. FrontendTypes
  BY DEF FlowInv, FlowTypes
<1>2. UNCHANGED <<uid_counter, gate_free, gate_uids, stats, queues, backend, dead, decode_map,
                  supervisor, loop_calls, maintenance_state, active_rebuild, last_rebuild_id,
                  rebuild_futures, prepare, sealed, stop_rounds, fatal_error, listening>>
  BY DEF TakeAcks, TakeAcksFails, ClientLeaves, rebuilds, stopping, watching
<1>3. /\ ack_map' \subseteq ack_map
      /\ acks' = acks \/ acks' = [acks EXCEPT ![u] = {}]
      /\ abort_tasks' = abort_tasks
           \/ abort_tasks' = [abort_tasks EXCEPT ![u] = @ \cup {"client"}]
      /\ http' = http
           \/ \E h \in {"answered", "left", "broken"} : http' = [http EXCEPT ![u] = h]
  BY DEF TakeAcks, TakeAcksFails, ClientLeaves
<1>4. /\ acks' \in [Uids -> SUBSET {"reply", "finished"}]
      /\ abort_tasks' \in [Uids -> SUBSET {"client", "stop"}]
      /\ http' \in [Uids -> {"none", "registered", "waiting", "answered", "failed", "left",
                             "broken"}]
      /\ \A v \in Uids : http'[v] = "registered" => http[v] = "registered"
  <2>1. acks' \in [Uids -> SUBSET {"reply", "finished"}]
    BY <1>1, <1>3 DEF FrontendTypes
  <2>2. abort_tasks' \in [Uids -> SUBSET {"client", "stop"}]
    BY <1>1, <1>3 DEF FrontendTypes
  <2>3. http' \in [Uids -> {"none", "registered", "waiting", "answered", "failed", "left",
                            "broken"}]
    BY <1>1, <1>3 DEF FrontendTypes
  <2>4. \A v \in Uids : http'[v] = "registered" => http[v] = "registered"
    BY <1>1, <1>3 DEF FrontendTypes
  <2> QED BY <2>1, <2>2, <2>3, <2>4
<1>5. FrontendTypes'
  BY <1>1, <1>2, <1>3, <1>4 DEF FrontendTypes
<1>6. SealOK'
  BY <1>2, SealStays DEF FlowInv
<1> QED BY ONLY FlowInv, <1>2, <1>4, <1>5, <1>6, HandlerKeeps

\* abort_user keeps the invariant: the request is only marked, and an abort sent.
LEMMA AbortUserKeeps ==
  ASSUME FlowInv, NEW u \in Uids, NEW why, abort_user(u, why)
  PROVE  FlowInv'
<1>1. FrontendTypes /\ QueueTypes
  BY DEF FlowInv, FlowTypes
<1>2. /\ abort_tasks' = [abort_tasks EXCEPT ![u] = @ \ {why}] /\ ack_map' = ack_map \ {u}
      /\ stats' = on_abort(stats, u) /\ Send(Msg("abort", u))
  BY DEF abort_user
<1>3. UNCHANGED <<uid_counter, acks, gate_free, gate_uids, http, maintenance_state, fatal_error,
                  supervisor, loop_calls, active_rebuild, rebuild_futures, last_rebuild_id,
                  prepare, sealed, stop_rounds, decode_map, dead, backend>>
  BY DEF abort_user, rebuilds, stopping, watching
<1>4. Msg("abort", u) \in Asks /\ Msg("abort", u).kind = "abort"
  BY DEF Msg, Asks
<1>5. /\ stats' \in Statistics /\ stats'.aborting \subseteq stats'.inflight
      /\ stats'.inflight = stats.inflight
      /\ stats'.tokens = stats.tokens /\ stats'.prompts = stats.prompts
  <2>1. stats \in Statistics /\ stats.aborting \subseteq stats.inflight
    BY <1>1 DEF FrontendTypes
  <2> QED BY <1>2, <2>1, AbortIs
<1>6. listening' = TRUE /\ UNCHANGED <<to_detok, to_front>>
  BY <1>2 DEF Send
<1>7. QueueTypes' /\ OrdersOK' /\ RebuildOK'
  <2>1. /\ Msg("abort", u).kind # "rebuild"
        /\ Msg("abort", u).kind = "tokenize" => Msg("abort", u).id \in stats.inflight
    BY <1>4
  <2>2. \A v \in Uids : http'[v] = "registered" => http[v] = "registered"
    BY <1>3
  <2> QED BY ONLY FlowInv, <1>2, <1>3, <1>4, <1>5, <2>1, <2>2, AskKeeps
<1>8. abort_tasks' \in [Uids -> SUBSET {"client", "stop"}]
  BY <1>1, <1>2 DEF FrontendTypes
<1>9. FrontendTypes'
  BY <1>1, <1>2, <1>3, <1>5, <1>6, <1>8 DEF FrontendTypes
<1>10. SealOK' /\ GateOK'
  BY <1>3, <1>5, SealStays, GateStays DEF FlowInv
<1> QED BY ONLY FlowInv, <1>3, <1>5, <1>6, <1>7, <1>9, <1>10, FrontendKeeps

\* RebuildTimeout only drops a future.
LEMMA TimeoutKeeps ==
  ASSUME FlowInv, NEW r, RebuildTimeout(r)
  PROVE  FlowInv'
<1>1. FrontendTypes
  BY DEF FlowInv, FlowTypes
<1>2. UNCHANGED <<uid_counter, gate_free, gate_uids, stats, queues, backend, dead, decode_map,
                  supervisor, loop_calls, maintenance_state, active_rebuild, last_rebuild_id,
                  prepare, sealed, fatal_error, listening, http, ack_map, acks, abort_tasks>>
  BY DEF RebuildTimeout, requests, stopping, watching
<1>3. rebuild_futures' \subseteq rebuild_futures
  BY DEF RebuildTimeout
<1>4. FrontendTypes'
  BY <1>1, <1>2, <1>3 DEF FrontendTypes
<1>5. SealOK'
  BY <1>2, SealStays DEF FlowInv
<1>6. \A u \in Uids : http'[u] = "registered" => http[u] = "registered"
  BY <1>2
<1> QED BY ONLY FlowInv, <1>2, <1>4, <1>5, <1>6, HandlerKeeps

\* The barrier waits, aborts, gives up or seals: admission is closed by then, and it seals
\* when nothing is in flight.
LEMMA BarrierKeeps ==
  ASSUME FlowInv, AbortInFlight \/ AbortsSent \/ AbortTimeout \/ Seal
  PROVE  FlowInv'
<1>1. FrontendTypes /\ SealOK
  BY DEF FlowInv, FlowTypes
<1>2. UNCHANGED <<uid_counter, gate_free, gate_uids, stats, queues, backend, dead, decode_map,
                  supervisor, loop_calls, maintenance_state, active_rebuild, last_rebuild_id,
                  rebuild_futures, fatal_error, listening, http, ack_map, acks>>
  BY DEF AbortInFlight, AbortsSent, AbortTimeout, Seal, Waiting, rebuilds, watching
<1>3. /\ prepare # "no" /\ prepare' \in {"no", "aborting", "abort_wait"}
      /\ sealed' = sealed \/ (sealed' = Totals /\ Idle)
  BY DEF AbortInFlight, AbortsSent, AbortTimeout, Seal, Waiting
<1>4. abort_tasks' \in [Uids -> SUBSET {"client", "stop"}]
  <2>1. abort_tasks \in [Uids -> SUBSET {"client", "stop"}]
    BY <1>1 DEF FrontendTypes
  <2>2. \/ abort_tasks' = abort_tasks
        \/ abort_tasks' = [u \in Uids |-> IF u \in stats.inflight THEN abort_tasks[u] \cup {"stop"}
                                                                 ELSE abort_tasks[u]]
    BY DEF AbortInFlight, AbortsSent, AbortTimeout, Seal, Waiting
  <2> QED BY ONLY <2>1, <2>2
<1>5. FrontendTypes'
  BY <1>1, <1>2, <1>3, <1>4 DEF FrontendTypes
<1>6. SealOK'
  BY <1>1, <1>2, <1>3 DEF SealOK, Totals, Idle
<1>7. \A u \in Uids : http'[u] = "registered" => http[u] = "registered"
  BY <1>2
<1> QED BY ONLY FlowInv, <1>2, <1>5, <1>6, <1>7, HandlerKeeps

\* PrepareStop closes admission before the barrier waits; a rebuild that is under way keeps
\* it from starting.
LEMMA PrepareKeeps ==
  ASSUME FlowInv, PrepareStop
  PROVE  FlowInv'
<1>1. FrontendTypes /\ QueueTypes /\ SealOK /\ RebuildOK
  BY DEF FlowInv, FlowTypes
<1>2. UNCHANGED <<uid_counter, gate_free, gate_uids, stats, queues, backend, dead, decode_map,
                  supervisor, loop_calls, active_rebuild, last_rebuild_id, sealed,
                  rebuild_futures, fatal_error, listening, http, ack_map, acks, abort_tasks>>
  BY DEF PrepareStop, requests, rebuilds, watching
<1>3. /\ prepare' = "drain" /\ sealed = <<>> /\ maintenance_state # "rebuilding"
      /\ maintenance_state' =
           IF maintenance_state = "failed" \/ fatal_error THEN "failed" ELSE "stopping"
  BY DEF PrepareStop
<1>4. FrontendTypes'
  BY <1>1, <1>2, <1>3 DEF FrontendTypes
<1>5. SealOK'
  BY <1>2, <1>3 DEF SealOK
<1>6. RebuildOK'
  <2>1. active_rebuild # 0 => maintenance_state' = "failed"
    BY <1>1, <1>3 DEF RebuildOK
  <2>2. RebuildAt' = RebuildAt
    BY <1>2 DEF RebuildAt, queues, backend
  <2> QED BY <1>1, <1>2, <2>1, <2>2 DEF RebuildOK, queues, backend
<1>7. QueueTypes'
  BY <1>1, <1>2, QueuesStay
<1>8. OrdersOK'
  <2>1. \A u \in Uids : http'[u] = "registered" => u \in stats'.inflight
    BY <1>2 DEF FlowInv, OrdersOK
  <2> QED BY <1>2, <2>1, OrdersStay DEF FlowInv, backend, queues
<1>9. GateOK'
  BY <1>2, GateStays DEF FlowInv
<1>10. UNCHANGED <<to_detok, to_front>>
  BY <1>2 DEF queues
<1> QED BY ONLY FlowInv, <1>2, <1>4, <1>5, <1>6, <1>7, <1>8, <1>9, <1>10, FrontendKeeps

\* The frontend dispatches one rebuild at a time, with an id of its own: nothing of an
\* earlier one is left anywhere when it does.
LEMMA DispatchKeeps ==
  ASSUME FlowInv, DispatchRebuild \/ DispatchFails
  PROVE  FlowInv'
<1>1. FrontendTypes /\ QueueTypes /\ SealOK /\ RebuildOK /\ EngineTypes
  BY DEF FlowInv, FlowTypes
<1>2. PICK r : r = last_rebuild_id + 1
  OBVIOUS
<1>3. /\ active_rebuild = 0 /\ maintenance_state = "serving" /\ maintenance_state' = "rebuilding"
      /\ last_rebuild_id < MaxRebuilds /\ last_rebuild_id' = r /\ active_rebuild' = r
      /\ rebuild_futures' \subseteq rebuild_futures \cup {r} /\ listening' = TRUE
      /\ Send(Msg("rebuild", r)) \/ UNCHANGED queues
  BY <1>2 DEF DispatchRebuild, DispatchFails, BeginRebuild, Send
<1>4. UNCHANGED <<uid_counter, gate_free, gate_uids, stats, backend, dead, decode_map, supervisor,
                  loop_calls, prepare, sealed, fatal_error, http, ack_map, acks, abort_tasks>>
  BY DEF DispatchRebuild, DispatchFails, BeginRebuild, requests, stopping, watching
<1>5. r \in RebuildIds /\ r # 0 /\ r \in Nat
  BY <1>1, <1>2, <1>3, RequestFlowAssumption DEF FrontendTypes, RebuildIds
<1>6. Msg("rebuild", r) \in Asks /\ Msg("rebuild", r).kind = "rebuild" /\ Msg("rebuild", r).id = r
  BY <1>5 DEF Msg, Asks
<1>7. FrontendTypes'
  <2>1. last_rebuild_id' \in 0 .. MaxRebuilds
    BY <1>3, <1>5 DEF RebuildIds
  <2>2. active_rebuild' \in {0} \cup RebuildIds
    BY <1>3, <1>5
  <2>3. rebuild_futures' \subseteq RebuildIds
    BY <1>1, <1>3, <1>5 DEF FrontendTypes
  <2> QED BY <1>1, <1>3, <1>4, <2>1, <2>2, <2>3 DEF FrontendTypes
<1>8. SealOK'
  BY <1>1, <1>3, <1>4 DEF SealOK
<1>9. GateOK'
  BY <1>4, GateStays DEF FlowInv
<1>10. UNCHANGED <<to_detok, to_front, to_sched>>
  BY <1>3 DEF Send, queues
<1>11. QueueTypes'
  <2>1. CASE Send(Msg("rebuild", r))
    BY <1>1, <1>6, <2>1, SentIs
  <2>2. CASE UNCHANGED queues
    BY <1>1, <2>2, QueuesStay
  <2> QED BY <1>3, <2>1, <2>2
<1>12. rebuild_msg = 0 /\ RebuildAt = {}
  <2>1. rebuild_msg = 0
    BY <1>1, <1>3 DEF RebuildOK
  <2>2. ASSUME NEW s \in Seq(Asks) \cup Seq(Orders) \cup Seq(Replies), CarriesOne(s, 0)
        PROVE  ~Carries(s)
    <3>1. \A i \in DOMAIN s : s[i] \in Asks \cup Orders \cup Replies
      OBVIOUS
    <3>2. \A i \in DOMAIN s : s[i].kind \in Rebuilding => s[i].id \in RebuildIds
      BY <3>1 DEF Asks, Orders, Replies, Rebuilding
    <3>3. 0 \notin RebuildIds
      BY DEF RebuildIds
    <3> QED BY <2>2, <3>2, <3>3 DEF Carries, CarriesOne
  <2>3. \A w \in Tokenizers : CarriesOne(to_worker[w], 0) /\ CarriesOne(to_sched[w], 0)
    BY <1>1, <1>3 DEF RebuildOK
  <2>4. (\A w \in Workers : CarriesOne(to_front[w], 0)) /\ CarriesOne(to_detok, 0)
    BY <1>1, <1>3 DEF RebuildOK
  <2>5. \A w \in Tokenizers : to_worker[w] \in Seq(Asks) /\ to_sched[w] \in Seq(Orders)
    BY <1>1, QueueOf
  <2>6. (\A w \in Workers : to_front[w] \in Seq(Replies)) /\ to_detok \in Seq(Replies)
    BY <1>1, QueueOf
  <2>7. \A w \in Tokenizers : ~Carries(to_worker[w]) /\ ~Carries(to_sched[w])
    BY <2>2, <2>3, <2>5
  <2>8. (\A w \in Workers : ~Carries(to_front[w])) /\ ~Carries(to_detok)
    BY <2>2, <2>4, <2>6
  <2> QED BY <2>1, <2>7, <2>8 DEF RebuildAt
<1>13. /\ \A w \in Tokenizers : ~Carries(to_worker[w]) /\ ~Carries(to_sched'[w])
       /\ \A w \in Workers : ~Carries(to_front'[w])
       /\ ~Carries(to_detok') /\ rebuild_msg' = 0 /\ queued_rebuild' = FALSE
  <2>1. \A w \in Tokenizers : ~Carries(to_worker[w]) /\ ~Carries(to_sched[w])
    BY <1>12, PlacesAre
  <2>2. (\A w \in Workers : ~Carries(to_front[w])) /\ ~Carries(to_detok)
    BY <1>12, PlacesAre
  <2>3. queued_rebuild = FALSE
    BY <1>1, <1>12 DEF RebuildOK
  <2> QED BY <1>4, <1>10, <1>12, <2>1, <2>2, <2>3 DEF backend
<1>14. \E w : /\ \A v \in Tokenizers : CarriesOne(to_worker'[v], r)
              /\ \A v \in Tokenizers : Carries(to_worker'[v]) => v = w
  <2>1. CASE Send(Msg("rebuild", r))
    <3>1. PICK w \in Tokenizers :
             /\ \A v \in Tokenizers \ {w} : to_worker'[v] = to_worker[v]
             /\ Joined(to_worker'[w], to_worker[w], <<Msg("rebuild", r)>>)
      BY <1>1, <1>6, <2>1, SentIs
    <3>2. CarriesOne(<<Msg("rebuild", r)>>, r)
      BY <1>6, OneIs
    <3>3. CarriesOne(to_worker'[w], r)
      BY <1>13, <3>1, <3>2, CarriesNone DEF Joined
    <3> QED BY <1>13, <3>1, <3>3, CarriesNone
  <2>2. CASE UNCHANGED queues
    <3>1. UNCHANGED to_worker
      BY <2>2 DEF queues
    <3> QED BY <1>13, <3>1, CarriesNone
  <2> QED BY <1>3, <2>1, <2>2
<1>15. RebuildOK'
  <2>1. PICK w : /\ \A v \in Tokenizers : CarriesOne(to_worker'[v], r)
                 /\ \A v \in Tokenizers : Carries(to_worker'[v]) => v = w
    BY <1>14
  <2>2. \A x \in RebuildAt' : x = <<"worker", w>>
    BY <1>13, <2>1 DEF RebuildAt
  <2>3. /\ \A v \in Tokenizers : CarriesOne(to_sched'[v], r)
        /\ \A v \in Workers : CarriesOne(to_front'[v], r)
        /\ CarriesOne(to_detok', r)
    BY <1>13, CarriesNone
  <2>4. \A x, y \in RebuildAt' : x = y
    BY <2>2
  <2>5. active_rebuild' <= last_rebuild_id'
    BY <1>3, <1>5
  <2> QED BY <1>3, <1>13, <2>1, <2>3, <2>4, <2>5 DEF RebuildOK
<1>16. OrdersOK'
  <2>1. \A u \in Uids, v \in Tokenizers :
          Has(to_worker'[v], u, {"tokenize"}) => Has(to_worker[v], u, {"tokenize"})
    <3>1. CASE Send(Msg("rebuild", r))
      <4>1. PICK w \in Tokenizers :
               /\ \A v \in Tokenizers \ {w} : to_worker'[v] = to_worker[v]
               /\ Joined(to_worker'[w], to_worker[w], <<Msg("rebuild", r)>>)
        BY <1>1, <1>6, <3>1, SentIs
      <4>2. \A u : ~Has(<<Msg("rebuild", r)>>, u, {"tokenize"})
        BY <1>6, OneIs
      <4> QED BY <4>1, <4>2 DEF Joined
    <3>2. CASE UNCHANGED queues
      BY <3>2 DEF queues
    <3> QED BY <1>3, <3>1, <3>2
  <2> QED BY <1>4, <1>10, <2>1 DEF FlowInv, OrdersOK, backend
<1> QED BY ONLY FlowInv, <1>4, <1>7, <1>8, <1>9, <1>10, <1>11, <1>15, <1>16, FrontendKeeps

-----------------------------------------------------------------------------
(***************************************************************************)
(* Deaths and the supervisor keep the invariant.                           *)
(***************************************************************************)

\* After a death the parts that speak of a living serve say nothing.
LEMMA DiesKeeps ==
  ASSUME FlowInv, NEW p \in Processes, Dies(p)
  PROVE  FlowInv'
<1>1. dead' = dead \cup {p}
  BY DEF Dies
<1>2. UNCHANGED <<maintenance_state, listening, uid_counter, ack_map, acks, gate_free, gate_uids,
                  stats, http, abort_tasks, active_rebuild, rebuild_futures, last_rebuild_id,
                  prepare, sealed, stop_rounds, fatal_error, supervisor, loop_calls, queues,
                  decode_map, backend>>
  BY DEF Dies, requests, rebuilds, stopping, watching
<1>3. dead' # {} /\ dead' \subseteq Processes
  BY <1>1 DEF FlowInv, FlowTypes, FrontendTypes
<1>4. FrontendTypes'
  BY <1>2, <1>3 DEF FlowInv, FlowTypes, FrontendTypes
<1>5. QueueTypes' /\ EngineTypes'
  BY <1>2, QueuesStay, EngineTypesStay DEF FlowInv, FlowTypes
<1>6. EngineOK'
  BY <1>2, EngineStays DEF FlowInv, backend
<1>7. RepliesOK'
  BY <1>2, RepliesStay DEF FlowInv, backend, queues
<1>8. CountsOK'
  BY <1>2, CountsStay DEF FlowInv, backend, queues
<1>9. OrdersOK'
  <2>1. OrdersOK /\ UNCHANGED <<http, stats, to_sched>>
    BY <1>2 DEF FlowInv, queues
  <2> QED BY <1>3, <2>1 DEF OrdersOK
<1>10. InFlightOK' /\ DeathOK'
  BY <1>3 DEF InFlightOK, DeathOK
<1>11. SealOK'
  BY <1>2, <1>3 DEF FlowInv, SealOK
<1>12. GateOK'
  BY <1>2, <1>3 DEF FlowInv, GateOK
<1>13. DecodeOK'
  BY <1>2, DecodeStays DEF FlowInv, backend, queues
<1>14. RebuildOK'
  BY <1>2, RebuildStays DEF FlowInv, backend
<1> QED BY <1>4, <1>5, <1>6, <1>7, <1>8, <1>9, <1>10, <1>11, <1>12, <1>13, <1>14
        DEF FlowInv, FlowTypes

\* A step of the supervisor, or of a callback it handed to the loop, reports a death, or
\* opens the serve for the first time.
LEMMA SupervisorKeeps ==
  ASSUME FlowInv, MarkReady \/ MarkFailed \/ FailPendingRebuilds \/ FailInflightRequests
                  \/ ResolveAll
  PROVE  FlowInv'
<1>1. FrontendTypes /\ SealOK /\ RebuildOK /\ DeathOK /\ QueueTypes
  BY DEF FlowInv, FlowTypes
<1>2. UNCHANGED <<listening, uid_counter, ack_map, acks, gate_free, gate_uids, stats, http,
                  abort_tasks, active_rebuild, last_rebuild_id, prepare, sealed, queues,
                  decode_map, dead, backend>>
  BY DEF MarkReady, MarkFailed, FailPendingRebuilds, FailInflightRequests, ResolveAll,
         SupervisorRuns, requests, rebuilds, stopping
<1>3. /\ \/ maintenance_state' = maintenance_state \/ maintenance_state' = "failed"
         \/ maintenance_state = "loading" /\ maintenance_state' = "serving"
      /\ fatal_error' \in {fatal_error, TRUE} /\ rebuild_futures' \in {rebuild_futures, {}}
      /\ supervisor' \in {supervisor, "watching", "marked", "rebuilds_failed", "done"}
  BY DEF MarkReady, MarkFailed, FailPendingRebuilds, FailInflightRequests, ResolveAll,
         SupervisorRuns, rebuilds
<1>4. FrontendTypes'
  <2>1. maintenance_state' \in {"loading", "serving", "rebuilding", "stopping", "failed"}
    BY <1>1, <1>3 DEF FrontendTypes
  <2>2. fatal_error' \in BOOLEAN
    BY <1>1, <1>3 DEF FrontendTypes
  <2>3. rebuild_futures' \subseteq RebuildIds
    BY <1>1, <1>3 DEF FrontendTypes
  <2>4. supervisor' \in {"loading", "watching", "marked", "rebuilds_failed", "done"}
    BY <1>1, <1>3 DEF FrontendTypes
  <2> QED BY <1>1, <1>2, <2>1, <2>2, <2>3, <2>4 DEF FrontendTypes
<1>5. DeathOK'
  <2>1. CASE MarkReady
    BY <1>1, <2>1 DEF MarkReady, DeathOK
  <2>2. CASE MarkFailed \/ FailPendingRebuilds \/ FailInflightRequests \/ ResolveAll
    <3>1. dead # {}
      BY <1>1, <2>2 DEF MarkFailed, FailPendingRebuilds, FailInflightRequests, ResolveAll, DeathOK
    <3> QED BY <1>2, <3>1 DEF DeathOK
  <2> QED BY <2>1, <2>2
<1>6. SealOK'
  BY <1>1, <1>2, <1>3 DEF SealOK, Totals
<1>7. RebuildOK'
  <2>1. active_rebuild' # 0 => maintenance_state' \in {"rebuilding", "failed"}
    BY <1>1, <1>2, <1>3 DEF RebuildOK
  <2>2. RebuildAt' = RebuildAt
    BY <1>2 DEF RebuildAt, queues, backend
  <2> QED BY <1>1, <1>2, <2>1, <2>2 DEF RebuildOK, queues, backend
<1>8. QueueTypes' /\ EngineTypes'
  BY <1>2, QueuesStay, EngineTypesStay DEF FlowInv, FlowTypes
<1>9. EngineOK'
  BY <1>2, EngineStays DEF FlowInv, backend
<1>10. RepliesOK'
  BY <1>2, RepliesStay DEF FlowInv, backend, queues
<1>11. CountsOK'
  BY <1>2, CountsStay DEF FlowInv, backend, queues
<1>12. OrdersOK'
  <2>1. \A u \in Uids : http'[u] = "registered" => u \in stats'.inflight
    BY <1>2 DEF FlowInv, OrdersOK
  <2> QED BY <1>2, <2>1, OrdersStay DEF FlowInv, backend, queues
<1>13. InFlightOK'
  BY <1>2, InFlightStays DEF FlowInv, backend, queues
<1>14. GateOK'
  BY <1>2, GateStays DEF FlowInv
<1>15. DecodeOK'
  BY <1>2, DecodeStays DEF FlowInv, backend, queues
<1> QED BY <1>4, <1>5, <1>6, <1>7, <1>8, <1>9, <1>10, <1>11, <1>12, <1>13, <1>14, <1>15
        DEF FlowInv, FlowTypes

\* FailAll ends requests the engine may still serve: only after a death.
LEMMA FailAllKeeps ==
  ASSUME FlowInv, FailAll
  PROVE  FlowInv'
<1>1. FrontendTypes /\ DeathOK /\ GateOK
  BY DEF FlowInv, FlowTypes
<1>2. /\ LoopFree /\ loop_calls # <<>> /\ gate_uids' = {}
      /\ gate_free' = gate_free + Cardinality(gate_uids)
      /\ acks' = [u \in Uids |-> IF u \in ack_map THEN acks[u] \cup {"finished"} ELSE acks[u]]
      /\ stats' = [stats EXCEPT
                     !.inflight = @ \ ack_map,
                     !.aborting = @ \ ack_map,
                     !.completed = @ \cup ((ack_map \cap stats.inflight) \ stats.aborting)]
  BY DEF FailAll
<1>3. UNCHANGED <<uid_counter, ack_map, http, abort_tasks, maintenance_state, listening,
                  active_rebuild, rebuild_futures, last_rebuild_id, prepare, sealed, fatal_error,
                  supervisor, queues, decode_map, dead, backend>>
  BY DEF FailAll, rebuilds, stopping
<1>4. dead # {} /\ dead' # {}
  BY <1>1, <1>2, <1>3 DEF DeathOK
<1>5. /\ stats' \in Statistics /\ stats'.aborting \subseteq stats'.inflight
      /\ stats'.tokens = stats.tokens /\ stats'.prompts = stats.prompts
  <2>1. stats \in Statistics /\ stats.aborting \subseteq stats.inflight /\ ack_map \subseteq Uids
    BY <1>1 DEF FrontendTypes
  <2> QED BY ONLY <1>2, <2>1 DEF Statistics
<1>6. FrontendTypes'
  <2>1. acks' \in [Uids -> SUBSET {"reply", "finished"}]
    BY <1>1, <1>2 DEF FrontendTypes
  <2>2. gate_free' \in Nat /\ gate_uids' \subseteq Uids
    BY <1>1, <1>2, UidsFacts DEF FrontendTypes
  <2> QED BY <1>1, <1>3, <1>5, <2>1, <2>2 DEF FrontendTypes
<1>7. QueueTypes' /\ EngineTypes'
  BY <1>3, QueuesStay, EngineTypesStay DEF FlowInv, FlowTypes
<1>8. EngineOK'
  BY <1>3, EngineStays DEF FlowInv, backend
<1>9. RepliesOK'
  BY <1>3, RepliesStay DEF FlowInv, backend, queues
<1>10. CountsOK'
  BY <1>3, <1>5, CountsStay DEF FlowInv, backend, queues
<1>11. OrdersOK'
  <2>1. OrdersOK /\ UNCHANGED <<http, to_sched>> /\ \A u \in Uids : http[u] # "registered"
    BY <1>2, <1>3 DEF FlowInv, queues, LoopFree
  <2> QED BY <1>4, <2>1 DEF OrdersOK
<1>12. InFlightOK' /\ DeathOK'
  BY <1>4 DEF InFlightOK, DeathOK
<1>13. SealOK'
  BY <1>3, <1>4 DEF FlowInv, SealOK
<1>14. GateOK'
  <2>1. Cardinality({}) = 0
    BY FS_EmptySet
  <2>2. gate_free' + Cardinality(gate_uids') = GateLimit
    BY <1>1, <1>2, <2>1, RequestFlowAssumption, UidsFacts DEF GateOK, FrontendTypes
  <2> QED BY <1>2, <1>4, <2>2 DEF GateOK
<1>15. DecodeOK'
  BY <1>3, DecodeStays DEF FlowInv, backend, queues
<1>16. RebuildOK'
  BY <1>3, RebuildStays DEF FlowInv, backend
<1> QED BY <1>6, <1>7, <1>8, <1>9, <1>10, <1>11, <1>12, <1>13, <1>14, <1>15, <1>16
        DEF FlowInv, FlowTypes

-----------------------------------------------------------------------------
(***************************************************************************)
(* The scheduler's steps keep the invariant.                               *)
(***************************************************************************)

\* A reply that ends or counts is about a request.
LEMMA RepliesAbout ==
  ASSUME NEW s \in Seq(Replies), NEW u, Has(s, u, Ends) \/ Has(s, u, Counted)
  PROVE  u \in Uids
<1>1. PICK i \in DOMAIN s : s[i].id = u /\ s[i].kind \in Ends \cup Counted
  BY DEF Has
<1>2. s[i] \in Replies
  OBVIOUS
<1> QED BY <1>1, <1>2 DEF Replies, Ends, Counted, Tokens

\* What a step of the scheduler must be like to keep the invariant: new is what it sends.
LEMMA SchedulerKeeps ==
  ASSUME FlowInv, SchedulerRuns, EngineTypes', EngineOK', RebuildOK',
         NEW new \in Seq(Replies), to_detok' = to_detok \o new,
         to_sched' \in [Tokenizers -> Seq(Orders)],
         \A v \in Tokenizers : \A u \in Uids :
            Has(to_sched'[v], u, {"user"}) => Has(to_sched[v], u, {"user"}),
         \A u \in Uids : Over(u) => Over(u)',
         \A u \in Uids : u \in tombstones \/ stage[u] # "absent" =>
                           u \in tombstones' \/ stage'[u] # "absent",
         EndsLast(new),
         \A u \in Uids : Has(new, u, Ends) => Over(u)',
         \A u \in Uids : Has(new, u, Counted) => Served(u),
         \A u \in Uids : emitted'[u] = emitted[u] + Count(new, u, Tokens),
         \A u \in Uids : (IF u \in admitted' THEN 1 ELSE 0) =
                           (IF u \in admitted THEN 1 ELSE 0) + Count(new, u, {"admitted"}),
         dead = {} => \A u \in Uids : Served(u)' => u \in stats.inflight,
         \A u \in Uids : Awaited(u) => Awaited(u)' \/ Has(new, u, Ends),
         Followed(new, {u \in Uids : Awaited(u)}')
  PROVE  FlowInv'
<1>1. FrontendTypes /\ QueueTypes /\ EngineTypes
  BY DEF FlowInv, FlowTypes
<1>2. UNCHANGED <<maintenance_state, listening, uid_counter, ack_map, acks, gate_free, gate_uids,
                  stats, http, abort_tasks, active_rebuild, rebuild_futures, last_rebuild_id,
                  prepare, sealed, fatal_error, supervisor, loop_calls, to_worker, to_front,
                  decode_map, dead>>
  BY DEF SchedulerRuns, requests, rebuilds, stopping, watching
<1>3. FrontendTypes'
  BY <1>1, <1>2 DEF FrontendTypes
<1>4. to_detok' \in Seq(Replies) /\ Joined(to_detok', to_detok, new)
  <2>1. to_detok \in Seq(Replies)
    BY <1>1, QueueOf
  <2> QED BY ONLY <2>1, new \in Seq(Replies), to_detok' = to_detok \o new, JoinedAre
<1>5. QueueTypes'
  BY <1>1, <1>2, <1>4 DEF QueueTypes
<1>6. /\ \A u, K : Has(to_detok', u, K) <=> Has(to_detok, u, K) \/ Has(new, u, K)
      /\ \A u, K : Count(to_detok', u, K) = Count(to_detok, u, K) + Count(new, u, K)
      /\ \A u, K : Count(to_detok, u, K) \in Nat /\ Count(new, u, K) \in Nat
  BY <1>4 DEF Joined
<1>7. \A u \in Uids : Served(u) => ~Over(u)
  BY DEF Served, Over
<1>8. RepliesOK'
  <2>1. RepliesOK
    BY DEF FlowInv
  <2>2. EndsLast(to_detok')
    <3>1. EndsLast(to_detok) /\ \A u \in Uids : Has(to_detok, u, Ends) => Over(u)
      BY <2>1 DEF RepliesOK
    <3>2. ASSUME NEW u, Has(to_detok, u, Ends) PROVE ~Has(new, u, Counted)
      <4>1. u \in Uids
        BY <1>1, <3>2, QueueOf, RepliesAbout
      <4> QED BY <1>7, <3>1, <3>2, <4>1
    <3> QED BY <1>4, <3>1, <3>2 DEF Joined
  <2>3. ASSUME NEW u \in Uids
        PROVE  /\ Has(Answers', u, Ends) => ~Has(to_detok', u, Counted)
               /\ Has(to_detok', u, Ends) => Over(u)'
               /\ \A w \in Workers : Has(to_front'[w], u, Ends) => Over(u)'
    <3>1. /\ Has(Answers, u, Ends) => ~Has(to_detok, u, Counted)
          /\ Has(to_detok, u, Ends) => Over(u)
          /\ \A w \in Workers : Has(to_front[w], u, Ends) => Over(u)
      BY <2>1 DEF RepliesOK
    <3>2. Has(Answers, u, Ends) => Over(u)
      BY <3>1 DEF Answers, Workers
    <3>3. Answers' = Answers
      BY <1>2 DEF Answers
    <3>4. Has(Answers', u, Ends) => ~Has(to_detok', u, Counted)
      BY <1>6, <1>7, <3>1, <3>2, <3>3
    <3>5. Has(to_detok', u, Ends) => Over(u)'
      BY <1>6, <3>1
    <3>6. \A w \in Workers : Has(to_front'[w], u, Ends) => Over(u)'
      BY <1>2, <3>1
    <3> QED BY <3>4, <3>5, <3>6
  <2>4. Answers' = Answers
    BY <1>2 DEF Answers
  <2> QED BY <1>2, <2>1, <2>2, <2>3, <2>4 DEF RepliesOK
<1>9. CountsOK'
  <2>1. ASSUME NEW u \in Uids
        PROVE  /\ stats'.tokens[u] + Count(Answers', u, Tokens) + Count(to_detok', u, Tokens)
                    = emitted'[u]
               /\ stats'.prompts[u] + Count(Answers', u, {"admitted"})
                    + Count(to_detok', u, {"admitted"}) = IF u \in admitted' THEN 1 ELSE 0
    <3>1. /\ stats.tokens[u] + Count(Answers, u, Tokens) + Count(to_detok, u, Tokens) = emitted[u]
          /\ stats.prompts[u] + Count(Answers, u, {"admitted"}) + Count(to_detok, u, {"admitted"})
               = IF u \in admitted THEN 1 ELSE 0
      BY DEF FlowInv, CountsOK
    <3>2. stats.tokens[u] \in Nat /\ stats.prompts[u] \in Nat
      BY <1>1 DEF FrontendTypes, Statistics
    <3>3. \A K : Count(Answers, u, K) \in Nat
      BY <1>1, QueueOf, WhereFinite
    <3>4. Answers' = Answers /\ stats' = stats
      BY <1>2 DEF Answers
    <3>5. stats'.tokens[u] + Count(Answers', u, Tokens) + Count(to_detok', u, Tokens) = emitted'[u]
      <4>1. PICK a \in Nat, b \in Nat, c \in Nat, d \in Nat :
                    /\ a = stats.tokens[u] /\ b = Count(Answers, u, Tokens)
                    /\ c = Count(to_detok, u, Tokens) /\ d = Count(new, u, Tokens)
        BY <1>6, <3>2, <3>3
      <4>2. a + b + (c + d) = a + b + c + d
        OBVIOUS
      <4>3. emitted'[u] = emitted[u] + d /\ Count(to_detok', u, Tokens) = c + d
        BY <1>6, <4>1
      <4>4. emitted[u] = a + b + c
        BY <3>1, <4>1
      <4>5. stats'.tokens[u] = a /\ Count(Answers', u, Tokens) = b
        BY <3>4, <4>1
      <4> QED BY ONLY <4>2, <4>3, <4>4, <4>5
    <3>6. stats'.prompts[u] + Count(Answers', u, {"admitted"}) + Count(to_detok', u, {"admitted"})
            = IF u \in admitted' THEN 1 ELSE 0
      <4>1. PICK a \in Nat, b \in Nat, c \in Nat, d \in Nat :
                    /\ a = stats.prompts[u] /\ b = Count(Answers, u, {"admitted"})
                    /\ c = Count(to_detok, u, {"admitted"}) /\ d = Count(new, u, {"admitted"})
        BY <1>6, <3>2, <3>3
      <4>2. a + b + (c + d) = a + b + c + d
        OBVIOUS
      <4>3. /\ (IF u \in admitted' THEN 1 ELSE 0) = (IF u \in admitted THEN 1 ELSE 0) + d
            /\ Count(to_detok', u, {"admitted"}) = c + d
        BY <1>6, <4>1
      <4>4. (IF u \in admitted THEN 1 ELSE 0) = a + b + c
        BY <3>1, <4>1
      <4>5. stats'.prompts[u] = a /\ Count(Answers', u, {"admitted"}) = b
        BY <3>4, <4>1
      <4> QED BY ONLY <4>2, <4>3, <4>4, <4>5
    <3> QED BY <3>5, <3>6
  <2> QED BY <2>1 DEF CountsOK
<1>10. OrdersOK'
  BY <1>2 DEF FlowInv, OrdersOK
<1>11. InFlightOK'
  <2>1. ASSUME dead = {}, NEW u \in Uids,
               Served(u)' \/ Has(to_detok', u, Counted) \/ Has(Answers', u, Counted)
        PROVE  u \in stats.inflight
    <3>1. Served(u) \/ Has(to_detok, u, Counted) \/ Has(Answers, u, Counted) =>
            u \in stats.inflight
      BY <2>1 DEF FlowInv, InFlightOK
    <3>2. Answers' = Answers
      BY <1>2 DEF Answers
    <3> QED BY <1>6, <2>1, <3>1, <3>2
  <2> QED BY <1>2, <2>1 DEF InFlightOK
<1>12. SealOK'
  BY <1>2, SealStays DEF FlowInv
<1>13. GateOK' /\ DeathOK'
  BY <1>2, GateStays, DeathStays DEF FlowInv
<1>14. DecodeOK'
  <2>1. /\ \A u \in decode_map : Awaited(u) \/ Has(to_detok, u, Ends)
        /\ Followed(to_detok, {u \in Uids : Awaited(u)})
    BY DEF FlowInv, DecodeOK
  <2>2. decode_map \subseteq Uids
    BY <1>1 DEF FrontendTypes
  <2>3. \A u \in decode_map' : Awaited(u)' \/ Has(to_detok', u, Ends)
    BY <1>2, <1>6, <2>1, <2>2
  <2>4. PICK A, B : A = {u \in Uids : Awaited(u)} /\ B = {u \in Uids : Awaited(u)}'
    OBVIOUS
  <2>5. \A u \in A : u \in B \/ Has(new, u, Ends)
    BY <2>4
  <2>6. to_detok \in Seq(Replies) /\ Followed(to_detok, A) /\ Followed(new, B)
    BY <1>1, <2>1, <2>4, QueueOf
  <2>7. Followed(to_detok \o new, B)
    BY ONLY <2>5, <2>6, new \in Seq(Replies), CatFollowed
  <2>8. Followed(to_detok', {u \in Uids : Awaited(u)}')
    BY <2>4, <2>7
  <2> QED BY <2>3, <2>8 DEF DecodeOK
<1> QED BY <1>3, <1>5, <1>8, <1>9, <1>10, <1>11, <1>12, <1>13, <1>14 DEF FlowInv, FlowTypes

\* The scheduler takes the next message of a tokenizer worker.
Pops(w) ==
    /\ SchedulerRuns
    /\ to_sched[w] # <<>>
    /\ to_sched' = [to_sched EXCEPT ![w] = Tail(@)]

\* What it took was there, and nothing is added.
LEMMA PopsIs ==
  ASSUME FlowInv, NEW w \in Tokenizers, Pops(w)
  PROVE  /\ Head(to_sched[w]) \in Orders
         /\ Has(to_sched[w], Head(to_sched[w]).id, {Head(to_sched[w]).kind})
         /\ to_sched' \in [Tokenizers -> Seq(Orders)]
         /\ \A v \in Tokenizers : \A u, K : Has(to_sched'[v], u, K) => Has(to_sched[v], u, K)
         /\ \A v \in Tokenizers : Carries(to_sched'[v]) => Carries(to_sched[v])
         /\ \A v \in Tokenizers : \A r : CarriesOne(to_sched[v], r) => CarriesOne(to_sched'[v], r)
<1>1. QueueTypes
  BY DEF FlowInv, FlowTypes
<1>2. PICK s \in Seq(Orders) : s = to_sched[w]
  BY <1>1, QueueOf
<1>3. s # <<>>
  BY <1>2 DEF Pops
<1>4. Head(s) \in Orders /\ Tail(s) \in Seq(Orders) /\ Joined(s, <<Head(s)>>, Tail(s))
  BY ONLY s \in Seq(Orders), <1>3, TakenIs
<1>5. /\ to_sched' = [to_sched EXCEPT ![w] = Tail(s)] /\ to_sched \in [Tokenizers -> Seq(Orders)]
  BY <1>1, <1>2 DEF Pops, QueueTypes
<1>6. to_sched' \in [Tokenizers -> Seq(Orders)] /\ to_sched'[w] = Tail(s)
      /\ \A v \in Tokenizers \ {w} : to_sched'[v] = to_sched[v]
  BY ONLY <1>4, <1>5, w \in Tokenizers
<1>7. PICK m : m = Head(s)
  OBVIOUS
<1>8. Has(s, m.id, {m.kind})
  <2>1. Has(<<m>>, m.id, {m.kind})
    BY OneIs
  <2> QED BY <1>4, <1>7, <2>1 DEF Joined
<1>9. \A v \in Tokenizers : \A u, K : Has(to_sched'[v], u, K) => Has(to_sched[v], u, K)
  BY <1>2, <1>4, <1>6 DEF Joined
<1>10. \A v \in Tokenizers : Carries(to_sched'[v]) => Carries(to_sched[v])
  BY <1>2, <1>4, <1>6 DEF Joined
<1>11. \A v \in Tokenizers : \A r : CarriesOne(to_sched[v], r) => CarriesOne(to_sched'[v], r)
  BY <1>2, <1>4, <1>6 DEF Joined
<1> QED BY <1>2, <1>4, <1>6, <1>7, <1>8, <1>9, <1>10, <1>11

\* A rebuild it takes is the only one, and leaves no other behind.
LEMMA PopsRebuild ==
  ASSUME FlowInv, NEW w \in Tokenizers, Pops(w), Head(to_sched[w]).kind = "rebuild"
  PROVE  /\ Head(to_sched[w]).id = active_rebuild /\ active_rebuild \in RebuildIds
         /\ RebuildAt = {<<"sched", w>>}
         /\ \A v \in Tokenizers : ~Carries(to_sched'[v])
<1>1. QueueTypes /\ RebuildOK
  BY DEF FlowInv, FlowTypes
<1>2. PICK s \in Seq(Orders) : s = to_sched[w]
  BY <1>1, QueueOf
<1>3. s # <<>>
  BY <1>2 DEF Pops
<1>4. Head(s) \in Orders /\ Tail(s) \in Seq(Orders) /\ Joined(s, <<Head(s)>>, Tail(s))
  BY ONLY s \in Seq(Orders), <1>3, TakenIs
<1>5. PICK m \in Orders : m = Head(s) /\ m.kind = "rebuild"
  BY <1>2, <1>4
<1>6. Carries(<<m>>) /\ \A r : CarriesOne(<<m>>, r) => m.id = r
  BY <1>5, OneIs DEF Rebuilding
<1>7. CarriesOne(s, active_rebuild)
  BY <1>1, <1>2 DEF RebuildOK
<1>8. CarriesOne(<<m>>, active_rebuild) /\ ~Carries(Tail(s)) /\ Carries(s)
  BY <1>4, <1>5, <1>6, <1>7 DEF Joined
<1>9. m.id = active_rebuild
  BY <1>6, <1>8
<1>10. m.id \in RebuildIds
  BY <1>5 DEF Orders
<1>11. RebuildAt = {<<"sched", w>>}
  <2>1. <<"sched", w>> \in RebuildAt
    BY <1>2, <1>8, PlacesAre
  <2>2. \A x \in RebuildAt : x = <<"sched", w>>
    BY <1>1, <2>1 DEF RebuildOK
  <2> QED BY ONLY <2>1, <2>2
<1>12. to_sched'[w] = Tail(s) /\ \A v \in Tokenizers \ {w} : to_sched'[v] = to_sched[v]
  BY <1>1, <1>2 DEF Pops, QueueTypes
<1>13. ASSUME NEW v \in Tokenizers PROVE ~Carries(to_sched'[v])
  <2>1. CASE v = w
    BY <1>8, <1>12, <2>1
  <2>2. CASE v # w
    <3>1. <<"sched", v>> \notin RebuildAt
      BY <1>11, <2>2
    <3> QED BY <1>12, <2>2, <3>1, PlacesAre
  <2> QED BY <2>1, <2>2
<1> QED BY <1>2, <1>5, <1>9, <1>10, <1>11, <1>13

\* Where no rebuild moves, the one there may be stays where it is, or has gone.
LEMMA RebuildRests ==
  ASSUME FlowInv, SchedulerRuns, UNCHANGED <<queued_rebuild, rebuild_msg>>,
         NEW new \in Seq(Replies), to_detok' = to_detok \o new, ~Carries(new),
         \A v \in Tokenizers : Carries(to_sched'[v]) => Carries(to_sched[v]),
         \A v \in Tokenizers : \A r : CarriesOne(to_sched[v], r) => CarriesOne(to_sched'[v], r)
  PROVE  RebuildOK'
<1>1. QueueTypes /\ RebuildOK
  BY DEF FlowInv, FlowTypes
<1>2. UNCHANGED <<maintenance_state, active_rebuild, last_rebuild_id, to_worker, to_front>>
  BY DEF SchedulerRuns, rebuilds
<1>3. Joined(to_detok', to_detok, new)
  <2>1. to_detok \in Seq(Replies)
    BY <1>1, QueueOf
  <2> QED BY ONLY <2>1, new \in Seq(Replies), to_detok' = to_detok \o new, JoinedAre
<1>4. /\ Carries(to_detok') <=> Carries(to_detok)
      /\ \A r : CarriesOne(to_detok, r) => CarriesOne(to_detok', r)
  BY <1>3, CarriesNone DEF Joined
<1>5. RebuildAt' \subseteq RebuildAt
  BY <1>2, <1>4 DEF RebuildAt
<1>6. \A x, y \in RebuildAt' : x = y
  BY <1>1, <1>5 DEF RebuildOK
<1> QED BY <1>1, <1>2, <1>4, <1>6 DEF RebuildOK

\* Where one moves to the scheduler's answers, or into the engine, it is only there.
LEMMA RebuildAnswered ==
  ASSUME FlowInv, SchedulerRuns, active_rebuild \in RebuildIds,
         to_detok' = to_detok \o <<Msg("rebuilt", active_rebuild)>>,
         ~Carries(to_detok), queued_rebuild' = FALSE, rebuild_msg' = 0,
         \A v \in Tokenizers : ~Carries(to_sched'[v]) /\ ~Carries(to_worker[v]),
         \A v \in Workers : ~Carries(to_front[v])
  PROVE  RebuildOK' /\ <<Msg("rebuilt", active_rebuild)>> \in Seq(Replies)
<1>1. QueueTypes /\ RebuildOK
  BY DEF FlowInv, FlowTypes
<1>2. UNCHANGED <<maintenance_state, active_rebuild, last_rebuild_id, to_worker, to_front>>
  BY DEF SchedulerRuns, rebuilds
<1>3. PICK m \in Replies :
         m = Msg("rebuilt", active_rebuild) /\ m.kind = "rebuilt" /\ m.id = active_rebuild
  BY DEF Msg, Replies
<1>4. <<m>> \in Seq(Replies)
  OBVIOUS
<1>5. Joined(to_detok', to_detok, <<m>>)
  <2>1. to_detok \in Seq(Replies) /\ to_detok' = to_detok \o <<m>>
    BY <1>1, <1>3, QueueOf
  <2> QED BY ONLY <1>4, <2>1, JoinedAre
<1>6. CarriesOne(<<m>>, active_rebuild)
  BY <1>3, OneIs
<1>7. CarriesOne(to_detok', active_rebuild)
  BY <1>5, <1>6, CarriesNone DEF Joined
<1>8. /\ \A v \in Tokenizers : ~Carries(to_worker'[v]) /\ ~Carries(to_sched'[v])
      /\ \A v \in Workers : ~Carries(to_front'[v])
  BY <1>2
<1>9. \A x \in RebuildAt' : x = <<"detok", Detokenizer>>
  BY <1>8 DEF RebuildAt
<1>10. \A x, y \in RebuildAt' : x = y
  BY <1>9
<1>11. /\ \A v \in Tokenizers :
            CarriesOne(to_worker'[v], active_rebuild) /\ CarriesOne(to_sched'[v], active_rebuild)
       /\ \A v \in Workers : CarriesOne(to_front'[v], active_rebuild)
  BY <1>8, CarriesNone
<1>12. RebuildOK'
  BY <1>1, <1>2, <1>7, <1>10, <1>11 DEF RebuildOK
<1> QED BY <1>3, <1>4, <1>12

\* Nothing is sent.
LEMMA NothingIs ==
  /\ <<>> \in Seq(Replies) /\ EndsLast(<<>>) /\ ~Carries(<<>>)
  /\ \A A : Followed(<<>>, A)
  /\ \A u, K : ~Has(<<>>, u, K) /\ Count(<<>>, u, K) = 0
  /\ \A s \in Seq(Replies) : s = s \o <<>>
<1>1. <<>> \in Seq(Replies) /\ \A s \in Seq(Replies) : s = s \o <<>>
  OBVIOUS
<1>2. \A u, K : ~Has(<<>>, u, K) /\ Count(<<>>, u, K) = 0
  BY NoMessage
<1>3. EndsLast(<<>>) /\ ~Carries(<<>>) /\ \A A : Followed(<<>>, A)
  BY DEF EndsLast, Carries, Followed
<1> QED BY <1>1, <1>2, <1>3

\* A prompt that reached the scheduler is not a bad one, and while every worker lives its
\* request is in flight unless an abort overtook it.
LEMMA UserArrives ==
  ASSUME FlowInv, NEW w \in Tokenizers, Pops(w), NEW u,
         Head(to_sched[w]) = Msg("user", u)
  PROVE  /\ u \in Uids /\ u \notin BadPrompts
         /\ dead = {} => u \in stats.inflight \/ u \in tombstones \/ stage[u] # "absent"
<1>1. Msg("user", u).kind = "user" /\ Msg("user", u).id = u
  BY DEF Msg
<1>2. Msg("user", u) \in Orders /\ Has(to_sched[w], u, {"user"})
  BY <1>1, PopsIs
<1>3. u \in Uids
  BY <1>1, <1>2 DEF Orders
<1> QED BY <1>2, <1>3 DEF FlowInv, OrdersOK

\* A message that the scheduler takes without an answer.
LEMMA QuietKeeps ==
  ASSUME FlowInv, NEW w \in Tokenizers, Pops(w), EngineTypes', EngineOK',
         UNCHANGED <<to_detok, rebuild_msg, queued_rebuild, admitted, emitted>>,
         \A v \in Uids : Over(v) => Over(v)',
         \A v \in Uids : v \in tombstones \/ stage[v] # "absent" =>
                           v \in tombstones' \/ stage'[v] # "absent",
         dead = {} => \A v \in Uids : Served(v)' => v \in stats.inflight,
         \A v \in Uids : Awaited(v) => Awaited(v)'
  PROVE  FlowInv'
<1>1. QueueTypes /\ EngineTypes
  BY DEF FlowInv, FlowTypes
<1>2. to_detok' = to_detok \o <<>>
  BY <1>1, QueueOf, NothingIs
<1>3. SchedulerRuns
  BY DEF Pops
<1>4. UNCHANGED <<queued_rebuild, rebuild_msg>>
  OBVIOUS
<1>5. RebuildOK'
  BY ONLY FlowInv, <1>2, <1>3, <1>4, w \in Tokenizers, Pops(w), PopsIs, NothingIs, RebuildRests
<1>6. /\ \A v \in Uids : emitted'[v] = emitted[v] + Count(<<>>, v, Tokens)
      /\ \A v \in Uids : (IF v \in admitted' THEN 1 ELSE 0) =
                           (IF v \in admitted THEN 1 ELSE 0) + Count(<<>>, v, {"admitted"})
  BY <1>1, NothingIs DEF EngineTypes
<1>7. \A v \in Uids : Awaited(v) => Awaited(v)' \/ Has(<<>>, v, Ends)
  OBVIOUS
<1> QED BY ONLY FlowInv, <1>2, <1>3, <1>5, <1>6, <1>7, EngineTypes', EngineOK',
           \A v \in Uids : Over(v) => Over(v)',
           \A v \in Uids : v \in tombstones \/ stage[v] # "absent" =>
                             v \in tombstones' \/ stage'[v] # "absent",
           dead = {} => \A v \in Uids : Served(v)' => v \in stats.inflight,
           w \in Tokenizers, Pops(w), PopsIs, NothingIs, SchedulerKeeps

\* UserDropped keeps the invariant: the request is over with its tombstone.
LEMMA UserDroppedKeeps ==
  ASSUME FlowInv, NEW w \in Tokenizers, Pops(w), NEW u, Head(to_sched[w]) = Msg("user", u),
         Backend!UserDropped(u), UNCHANGED <<to_detok, rebuild_msg>>
  PROVE  FlowInv'
<1>1. EngineTypes /\ EngineOK
  BY DEF FlowInv, FlowTypes
<1>2. u \in Uids /\ u \notin BadPrompts
  BY UserArrives
<1>3. /\ stage[u] = "absent" /\ u \in tombstones /\ tombstones' = tombstones \ {u}
      /\ stage' = [stage EXCEPT ![u] = "ended"]
      /\ UNCHANGED <<pending_abort_acks, admitted, emitted, queued_rebuild>>
  BY DEF Backend!UserDropped
<1>4. stage'[u] = "ended" /\ \A v \in Uids \ {u} : stage'[v] = stage[v]
  BY <1>1, <1>2, <1>3 DEF EngineTypes
<1>5. EngineTypes'
  <2>1. stage' \in [Uids -> {"absent", "held", "closing", "ended"}]
    BY <1>1, <1>2, <1>3 DEF EngineTypes
  <2> QED BY <1>1, <1>3, <2>1 DEF EngineTypes
<1>6. EngineOK'
  BY <1>1, <1>2, <1>3, <1>4 DEF EngineOK, Served
<1>7. \A v \in Uids : Over(v) => Over(v)'
  BY <1>2, <1>3, <1>4 DEF Over
<1>8. /\ \A v \in Uids : Served(v)' => Served(v)
      /\ \A v \in Uids : Awaited(v) => Awaited(v)'
      /\ \A v \in Uids : v \in tombstones \/ stage[v] # "absent" =>
                           v \in tombstones' \/ stage'[v] # "absent"
  BY <1>2, <1>3, <1>4 DEF Served, Awaited
<1>9. dead = {} => \A v \in Uids : Served(v)' => v \in stats.inflight
  BY <1>8 DEF FlowInv, InFlightOK
<1> QED BY <1>3, <1>5, <1>6, <1>7, <1>8, <1>9, QuietKeeps

\* UserQueued keeps the invariant: the request is not over, and in flight.
LEMMA UserQueuedKeeps ==
  ASSUME FlowInv, NEW w \in Tokenizers, Pops(w), NEW u, Head(to_sched[w]) = Msg("user", u),
         Backend!UserQueued(u), UNCHANGED <<to_detok, rebuild_msg>>
  PROVE  FlowInv'
<1>1. EngineTypes /\ EngineOK
  BY DEF FlowInv, FlowTypes
<1>2. u \in Uids /\ u \notin BadPrompts
      /\ (dead = {} => u \in stats.inflight \/ u \in tombstones \/ stage[u] # "absent")
  BY UserArrives
<1>3. /\ stage[u] = "absent" /\ u \notin tombstones
      /\ stage' = [stage EXCEPT ![u] = "held"]
      /\ UNCHANGED <<tombstones, pending_abort_acks, admitted, emitted, queued_rebuild>>
  BY DEF Backend!UserQueued
<1>4. stage'[u] = "held" /\ \A v \in Uids \ {u} : stage'[v] = stage[v]
  BY <1>1, <1>2, <1>3 DEF EngineTypes
<1>5. EngineTypes'
  <2>1. stage' \in [Uids -> {"absent", "held", "closing", "ended"}]
    BY <1>1, <1>2, <1>3 DEF EngineTypes
  <2> QED BY <1>1, <1>3, <2>1 DEF EngineTypes
<1>6. EngineOK'
  <2>1. u \notin pending_abort_acks /\ u \notin admitted
    BY <1>1, <1>2, <1>3 DEF EngineOK
  <2>2. emitted[u] = 0 /\ 0 < MaxTokens
    BY <1>1, <1>2, <2>1, RequestFlowAssumption DEF EngineOK
  <2> QED BY <1>1, <1>2, <1>3, <1>4, <2>1, <2>2 DEF EngineOK, Served
<1>7. \A v \in Uids : Over(v) => Over(v)'
  BY <1>2, <1>3, <1>4 DEF Over
<1>8. /\ \A v \in Uids : Served(v)' => Served(v) \/ v = u
      /\ \A v \in Uids : Awaited(v) => Awaited(v)'
      /\ \A v \in Uids : v \in tombstones \/ stage[v] # "absent" =>
                           v \in tombstones' \/ stage'[v] # "absent"
  BY <1>2, <1>3, <1>4 DEF Served, Awaited
<1>9. dead = {} => \A v \in Uids : Served(v)' => v \in stats.inflight
  BY <1>2, <1>3, <1>8 DEF FlowInv, InFlightOK
<1> QED BY <1>3, <1>5, <1>6, <1>7, <1>8, <1>9, QuietKeeps

\* AbortReceived keeps the invariant: the request is over, or closing, and its
\* acknowledgement is awaited.
LEMMA AbortReceivedKeeps ==
  ASSUME FlowInv, NEW w \in Tokenizers, Pops(w), NEW u, Head(to_sched[w]) = Msg("abort", u),
         Backend!AbortReceived(u), UNCHANGED <<to_detok, rebuild_msg>>
  PROVE  FlowInv'
<1>1. EngineTypes /\ EngineOK
  BY DEF FlowInv, FlowTypes
<1>2. u \in Uids
  <2>1. Msg("abort", u) \in Orders /\ Msg("abort", u).kind = "abort" /\ Msg("abort", u).id = u
    BY PopsIs DEF Msg
  <2> QED BY <2>1 DEF Orders
<1>3. /\ tombstones' = tombstones \cup {u} /\ pending_abort_acks' = pending_abort_acks \cup {u}
      /\ stage' = [stage EXCEPT ![u] = IF @ # "held" THEN @
                                         ELSE IF u \in admitted THEN "closing" ELSE "ended"]
      /\ UNCHANGED <<admitted, emitted, queued_rebuild>>
  BY DEF Backend!AbortReceived
<1>4. /\ \A v \in Uids \ {u} : stage'[v] = stage[v]
      /\ stage[u] # "held" => stage'[u] = stage[u]
      /\ stage[u] = "held" => stage'[u] \in {"closing", "ended"}
  BY <1>1, <1>2, <1>3 DEF EngineTypes
<1>5. EngineTypes'
  <2>1. stage' \in [Uids -> {"absent", "held", "closing", "ended"}]
    BY <1>1, <1>2, <1>3 DEF EngineTypes
  <2> QED BY <1>1, <1>2, <1>3, <2>1 DEF EngineTypes
<1>6. EngineOK'
  BY <1>1, <1>2, <1>3, <1>4 DEF EngineOK, Served
<1>7. \A v \in Uids : Over(v) => Over(v)'
  BY <1>2, <1>3, <1>4 DEF Over
<1>8. /\ \A v \in Uids : Served(v)' => Served(v)
      /\ \A v \in Uids : Awaited(v) => Awaited(v)'
      /\ \A v \in Uids : v \in tombstones \/ stage[v] # "absent" =>
                           v \in tombstones' \/ stage'[v] # "absent"
  BY <1>2, <1>3, <1>4 DEF Served, Awaited
<1>9. dead = {} => \A v \in Uids : Served(v)' => v \in stats.inflight
  BY <1>8 DEF FlowInv, InFlightOK
<1> QED BY <1>3, <1>5, <1>6, <1>7, <1>8, <1>9, QuietKeeps

\* s is a message of this kind for each request of S.
Sends(s, kind, S) ==
    /\ \A u, K : Has(s, u, K) <=> kind \in K /\ u \in S
    /\ \A u, K : Count(s, u, K) = IF kind \in K /\ u \in S THEN 1 ELSE 0
    /\ EndsLast(s)
    /\ Carries(s) => kind \in Rebuilding

\* Msgs sends one message each.
LEMMA SendsAre ==
  ASSUME NEW S \in SUBSET Uids, NEW kind \in {"admitted", "token", "last", "error"}
  PROVE  Msgs(kind, S) \in Seq(Replies) /\ Sends(Msgs(kind, S), kind, S)
<1>1. IsFiniteSet(S)
  BY UidsFacts
<1>2. Msgs(kind, S) \in Seq([kind : {kind}, id : Uids])
  BY ONLY <1>1, S \in SUBSET Uids, MsgsAre
<1>3. [kind : {kind}, id : Uids] \subseteq Replies
  BY DEF Replies
<1>4. Msgs(kind, S) \in Seq(Replies)
  BY ONLY <1>2, <1>3, SeqMonotonic
<1>5. \A u, K : Has(Msgs(kind, S), u, K) <=> kind \in K /\ u \in S
  BY ONLY <1>1, S \in SUBSET Uids, MsgsAre
<1>6. \A u, K : Count(Msgs(kind, S), u, K) = IF kind \in K /\ u \in S THEN 1 ELSE 0
  BY ONLY <1>1, S \in SUBSET Uids, MsgsAre
<1>7. EndsLast(Msgs(kind, S)) /\ (Carries(Msgs(kind, S)) => kind \in Rebuilding)
  BY ONLY <1>1, S \in SUBSET Uids, MsgsAre
<1> QED BY ONLY <1>4, <1>5, <1>6, <1>7 DEF Sends

\* UserRejected keeps the invariant: the error it is answered with is its end.
LEMMA UserRejectedKeeps ==
  ASSUME FlowInv, NEW w \in Tokenizers, Pops(w), NEW u, Head(to_sched[w]) = Msg("user", u),
         Backend!UserRejected(u), Reply(Msgs("error", {u})), UNCHANGED rebuild_msg
  PROVE  FlowInv'
<1>1. EngineTypes /\ EngineOK
  BY DEF FlowInv, FlowTypes
<1>2. u \in Uids /\ u \notin BadPrompts
  BY UserArrives
<1>3. /\ stage[u] = "absent" /\ u \notin tombstones
      /\ stage' = [stage EXCEPT ![u] = "ended"]
      /\ UNCHANGED <<tombstones, pending_abort_acks, admitted, emitted, queued_rebuild>>
  BY DEF Backend!UserRejected
<1>4. stage'[u] = "ended" /\ \A v \in Uids \ {u} : stage'[v] = stage[v]
  BY <1>1, <1>2, <1>3 DEF EngineTypes
<1>5. EngineTypes'
  <2>1. stage' \in [Uids -> {"absent", "held", "closing", "ended"}]
    BY <1>1, <1>2, <1>3 DEF EngineTypes
  <2> QED BY <1>1, <1>3, <2>1 DEF EngineTypes
<1>6. EngineOK'
  <2>1. u \notin pending_abort_acks
    BY <1>1, <1>2, <1>3 DEF EngineOK
  <2> QED BY <1>1, <1>2, <1>3, <1>4, <2>1 DEF EngineOK, Served
<1>7. \A v \in Uids : Over(v) => Over(v)'
  BY <1>2, <1>3, <1>4 DEF Over
<1>8. /\ \A v \in Uids : Served(v)' => Served(v)
      /\ \A v \in Uids : Awaited(v) => Awaited(v)'
      /\ \A v \in Uids : v \in tombstones \/ stage[v] # "absent" =>
                           v \in tombstones' \/ stage'[v] # "absent"
  BY <1>2, <1>3, <1>4 DEF Served, Awaited
<1>9. dead = {} => \A v \in Uids : Served(v)' => v \in stats.inflight
  BY <1>8 DEF FlowInv, InFlightOK
<1>10. PICK S \in SUBSET Uids : S = {u}
  BY <1>2
<1>11. PICK kind \in {"admitted", "token", "last", "error"} : kind = "error"
  OBVIOUS
<1>12. PICK new \in Seq(Replies) : new = Msgs(kind, S) /\ Sends(new, kind, S)
  BY ONLY S \in SUBSET Uids, kind \in {"admitted", "token", "last", "error"}, SendsAre
<1>13. EndsLast(new) /\ \A v, K : Has(new, v, K) <=> "error" \in K /\ v \in S
  BY <1>11, <1>12 DEF Sends
<1>14. /\ ~Carries(new) /\ \A v : ~Has(new, v, Counted)
       /\ \A v : Count(new, v, Tokens) = 0 /\ Count(new, v, {"admitted"}) = 0
       /\ \A A : Followed(new, A)
  <2>1. "error" \notin Rebuilding /\ "error" \notin Counted /\ "error" \notin Tokens
        /\ "error" \notin {"admitted"} /\ "error" \notin {"token"}
    BY DEF Rebuilding, Counted, Tokens
  <2>2. \A A : Followed(new, A)
    <3>1. \A v : ~Has(new, v, {"token"})
      BY <1>13, <2>1
    <3> QED BY <3>1 DEF Followed, Has
  <2> QED BY <1>11, <1>12, <2>1, <2>2 DEF Sends
<1>15. \A v \in Uids : Has(new, v, Ends) => Over(v)'
  BY <1>4, <1>10, <1>13 DEF Over
<1>16. to_detok' = to_detok \o new /\ SchedulerRuns /\ UNCHANGED <<queued_rebuild, rebuild_msg>>
  BY <1>3, <1>10, <1>11, <1>12 DEF Reply, Pops
<1>17. RebuildOK'
  BY ONLY FlowInv, new \in Seq(Replies), <1>14, <1>16, w \in Tokenizers, Pops(w), PopsIs, RebuildRests
<1>18. /\ \A v \in Uids : emitted'[v] = emitted[v] + Count(new, v, Tokens)
       /\ \A v \in Uids : (IF v \in admitted' THEN 1 ELSE 0) =
                            (IF v \in admitted THEN 1 ELSE 0) + Count(new, v, {"admitted"})
  BY <1>1, <1>3, <1>14 DEF EngineTypes
<1> QED BY ONLY FlowInv, <1>5, <1>6, <1>7, <1>8, <1>9, new \in Seq(Replies), <1>13, <1>14, <1>15, <1>16, <1>17,
           <1>18, w \in Tokenizers, Pops(w), PopsIs, SchedulerKeeps

\* A step that only moves a rebuild keeps the rest of the invariant.
LEMMA MovesKeep ==
  ASSUME FlowInv, SchedulerRuns, RebuildOK', queued_rebuild' \in BOOLEAN,
         rebuild_msg' \in {0} \cup RebuildIds,
         UNCHANGED <<stage, tombstones, pending_abort_acks, admitted, emitted>>,
         NEW new \in Seq(Replies), to_detok' = to_detok \o new,
         \A i \in DOMAIN new : new[i].kind = "rebuilt",
         to_sched' \in [Tokenizers -> Seq(Orders)],
         \A v \in Tokenizers : \A u \in Uids :
            Has(to_sched'[v], u, {"user"}) => Has(to_sched[v], u, {"user"})
  PROVE  FlowInv'
<1>1. EngineTypes
  BY DEF FlowInv, FlowTypes
<1>2. EngineTypes'
  BY <1>1 DEF EngineTypes
<1>3. EngineOK'
  BY EngineStays DEF FlowInv
<1>4. /\ \A v \in Uids : Over(v) => Over(v)'
      /\ \A v \in Uids : v \in tombstones \/ stage[v] # "absent" =>
                           v \in tombstones' \/ stage'[v] # "absent"
      /\ \A v \in Uids : Awaited(v) => Awaited(v)'
      /\ \A v \in Uids : Served(v)' => Served(v)
  BY DEF Over, Awaited, Served
<1>5. dead = {} => \A v \in Uids : Served(v)' => v \in stats.inflight
  BY <1>4 DEF FlowInv, InFlightOK
<1>6. "rebuilt" \notin Ends /\ "rebuilt" \notin Counted /\ "rebuilt" \notin Tokens
  BY DEF Ends, Counted, Tokens
<1>7. EndsLast(new) /\ \A A : Followed(new, A)
  BY <1>6 DEF EndsLast, Followed
<1>8. \A v \in Uids : ~Has(new, v, Ends) /\ ~Has(new, v, Counted)
  BY <1>6 DEF Has
<1>9. \A v \in Uids : ~Has(new, v, Tokens) /\ ~Has(new, v, {"admitted"})
  BY <1>6 DEF Has
<1>10. \A v \in Uids : Count(new, v, Tokens) = 0 /\ Count(new, v, {"admitted"}) = 0
  BY ONLY <1>9, new \in Seq(Replies), WhereFinite
<1>11. /\ \A v \in Uids : emitted'[v] = emitted[v] + Count(new, v, Tokens)
       /\ \A v \in Uids : (IF v \in admitted' THEN 1 ELSE 0) =
                            (IF v \in admitted THEN 1 ELSE 0) + Count(new, v, {"admitted"})
  BY <1>1, <1>10 DEF EngineTypes
<1>12. /\ \A v \in Uids : Has(new, v, Ends) => Over(v)'
       /\ \A v \in Uids : Has(new, v, Counted) => Served(v)
       /\ \A v \in Uids : Awaited(v) => Awaited(v)' \/ Has(new, v, Ends)
  BY <1>4, <1>8
<1> QED BY ONLY FlowInv, SchedulerRuns, RebuildOK', new \in Seq(Replies),
           to_detok' = to_detok \o new, to_sched' \in [Tokenizers -> Seq(Orders)],
           \A v \in Tokenizers : \A u \in Uids :
              Has(to_sched'[v], u, {"user"}) => Has(to_sched[v], u, {"user"}),
           <1>2, <1>3, <1>4, <1>5, <1>7, <1>11, <1>12, SchedulerKeeps

\* A rebuild is queued in the engine: it is then nowhere else.
LEMMA RebuildQueuedKeeps ==
  ASSUME FlowInv, NEW w \in Tokenizers, Pops(w), Head(to_sched[w]).kind = "rebuild",
         Backend!RebuildQueued, rebuild_msg' = Head(to_sched[w]).id, UNCHANGED to_detok
  PROVE  FlowInv'
<1>1. QueueTypes /\ RebuildOK
  BY DEF FlowInv, FlowTypes
<1>2. /\ rebuild_msg' = active_rebuild /\ active_rebuild \in RebuildIds
      /\ RebuildAt = {<<"sched", w>>}
      /\ \A v \in Tokenizers : ~Carries(to_sched'[v])
  BY PopsRebuild
<1>3. queued_rebuild' = TRUE
      /\ UNCHANGED <<stage, tombstones, pending_abort_acks, admitted, emitted>>
  BY DEF Backend!RebuildQueued
<1>4. UNCHANGED <<maintenance_state, active_rebuild, last_rebuild_id, to_worker, to_front>>
      /\ SchedulerRuns
  BY DEF Pops, SchedulerRuns, rebuilds
<1>5. /\ \A v \in Tokenizers : ~Carries(to_worker'[v])
      /\ \A v \in Workers : ~Carries(to_front'[v])
      /\ ~Carries(to_detok')
  <2>1. \A v : /\ <<"worker", v>> \notin RebuildAt /\ <<"front", v>> \notin RebuildAt
               /\ <<"detok", v>> \notin RebuildAt
    BY <1>2
  <2> QED BY <1>4, <2>1, PlacesAre
<1>6. 0 \notin RebuildIds
  BY DEF RebuildIds
<1>7. RebuildOK'
  <2>1. \A x \in RebuildAt' : x = <<"engine", Detokenizer>>
    BY <1>2, <1>5 DEF RebuildAt
  <2>2. \A x, y \in RebuildAt' : x = y
    BY <2>1
  <2>3. /\ \A v \in Tokenizers :
             CarriesOne(to_worker'[v], active_rebuild) /\ CarriesOne(to_sched'[v], active_rebuild)
        /\ \A v \in Workers : CarriesOne(to_front'[v], active_rebuild)
        /\ CarriesOne(to_detok', active_rebuild)
    BY <1>2, <1>5, CarriesNone
  <2> QED BY <1>1, <1>2, <1>3, <1>4, <1>6, <2>2, <2>3 DEF RebuildOK
<1>8. to_detok' = to_detok \o <<>>
  BY <1>1, QueueOf, NothingIs
<1>9. \A i \in DOMAIN <<>> : <<>>[i].kind = "rebuilt"
  OBVIOUS
<1>10. queued_rebuild' \in BOOLEAN /\ rebuild_msg' \in {0} \cup RebuildIds
  BY <1>2, <1>3
<1>11. PICK new \in Seq(Replies) : new = <<>>
  BY NothingIs
<1>12. to_detok' = to_detok \o new /\ \A i \in DOMAIN new : new[i].kind = "rebuilt"
  BY <1>8, <1>9, <1>11
<1> QED BY ONLY FlowInv, <1>3, <1>4, <1>7, <1>10, new \in Seq(Replies), <1>12, w \in Tokenizers,
           Pops(w), PopsIs, MovesKeep

\* A rebuild is answered: busy, at once, or executed, when nothing is held.
LEMMA RebuildAnsweredKeeps ==
  ASSUME FlowInv, SchedulerRuns, active_rebuild \in RebuildIds,
         to_detok' = to_detok \o <<Msg("rebuilt", active_rebuild)>>,
         ~Carries(to_detok), queued_rebuild' = FALSE, rebuild_msg' = 0,
         UNCHANGED <<stage, tombstones, pending_abort_acks, admitted, emitted>>,
         \A v \in Tokenizers : ~Carries(to_sched'[v]) /\ ~Carries(to_worker[v]),
         \A v \in Workers : ~Carries(to_front[v]),
         to_sched' \in [Tokenizers -> Seq(Orders)],
         \A v \in Tokenizers : \A u \in Uids :
            Has(to_sched'[v], u, {"user"}) => Has(to_sched[v], u, {"user"})
  PROVE  FlowInv'
<1>1. RebuildOK' /\ <<Msg("rebuilt", active_rebuild)>> \in Seq(Replies)
  BY RebuildAnswered
<1>2. PICK new \in Seq(Replies) : new = <<Msg("rebuilt", active_rebuild)>>
  BY <1>1
<1>3. \A i \in DOMAIN new : new[i].kind = "rebuilt"
  BY <1>2 DEF Msg
<1>4. to_detok' = to_detok \o new
  BY <1>2
<1>5. queued_rebuild' \in BOOLEAN /\ rebuild_msg' \in {0} \cup RebuildIds
  OBVIOUS
<1> QED BY <1>1, <1>3, <1>4, <1>5, MovesKeep

\* A rebuild that meets work is answered busy.
LEMMA RebuildBusyKeeps ==
  ASSUME FlowInv, NEW w \in Tokenizers, Pops(w), Head(to_sched[w]).kind = "rebuild",
         Backend!RebuildBusy, Reply(<<Msg("rebuilt", Head(to_sched[w]).id)>>),
         UNCHANGED rebuild_msg
  PROVE  FlowInv'
<1>1. RebuildOK
  BY DEF FlowInv
<1>2. /\ Head(to_sched[w]).id = active_rebuild /\ active_rebuild \in RebuildIds
      /\ RebuildAt = {<<"sched", w>>}
      /\ \A v \in Tokenizers : ~Carries(to_sched'[v])
  BY PopsRebuild
<1>3. UNCHANGED <<stage, tombstones, pending_abort_acks, admitted, emitted, queued_rebuild>>
  BY DEF Backend!RebuildBusy, Backend!engine
<1>4. /\ \A v \in Tokenizers : ~Carries(to_worker[v])
      /\ \A v \in Workers : ~Carries(to_front[v])
      /\ ~Carries(to_detok) /\ rebuild_msg = 0
  <2>1. \A v : /\ <<"worker", v>> \notin RebuildAt /\ <<"front", v>> \notin RebuildAt
               /\ <<"detok", v>> \notin RebuildAt /\ <<"engine", v>> \notin RebuildAt
    BY <1>2
  <2> QED BY <2>1, PlacesAre
<1>5. queued_rebuild' = FALSE /\ rebuild_msg' = 0
  BY <1>1, <1>3, <1>4 DEF RebuildOK
<1>6. to_detok' = to_detok \o <<Msg("rebuilt", active_rebuild)>> /\ SchedulerRuns
  BY <1>2 DEF Reply, Pops
<1> QED BY <1>2, <1>3, <1>4, <1>5, <1>6, PopsIs, RebuildAnsweredKeeps

\* The rebuild the engine holds is executed, and answered.
LEMMA RebuildsKeeps ==
  ASSUME FlowInv, SchedulerRebuilds
  PROVE  FlowInv'
<1>1. RebuildOK /\ QueueTypes /\ EngineTypes
  BY DEF FlowInv, FlowTypes
<1>2. /\ SchedulerRuns /\ queued_rebuild /\ queued_rebuild' = FALSE /\ rebuild_msg' = 0
      /\ to_detok' = to_detok \o <<Msg("rebuilt", rebuild_msg)>> /\ UNCHANGED to_sched
      /\ UNCHANGED <<stage, tombstones, pending_abort_acks, admitted, emitted>>
  BY DEF SchedulerRebuilds, Reply, Backend!RebuildExecuted
<1>3. rebuild_msg # 0 /\ rebuild_msg = active_rebuild /\ active_rebuild \in RebuildIds
  BY <1>1, <1>2 DEF RebuildOK, EngineTypes
<1>4. \A x \in RebuildAt : x = <<"engine", Detokenizer>>
  BY <1>1, <1>3, PlacesAre DEF RebuildOK
<1>5. /\ \A v \in Tokenizers : ~Carries(to_worker[v]) /\ ~Carries(to_sched[v])
      /\ \A v \in Workers : ~Carries(to_front[v])
      /\ ~Carries(to_detok)
  <2>1. \A v : /\ <<"worker", v>> \notin RebuildAt /\ <<"front", v>> \notin RebuildAt
               /\ <<"detok", v>> \notin RebuildAt /\ <<"sched", v>> \notin RebuildAt
    BY <1>4
  <2> QED BY <2>1, PlacesAre
<1>6. to_sched' \in [Tokenizers -> Seq(Orders)]
  BY <1>1, <1>2 DEF QueueTypes
<1> QED BY <1>2, <1>3, <1>5, <1>6, RebuildAnsweredKeeps

\* Whatever the scheduler receives.
LEMMA ReceivesKeeps ==
  ASSUME FlowInv, NEW w \in Tokenizers, SchedulerReceives(w)
  PROVE  FlowInv'
<1>1. Pops(w)
  BY DEF SchedulerReceives, Pops
<1>2. PICK m \in Orders : m = Head(to_sched[w])
  BY <1>1, PopsIs
<1>3. CASE m.kind = "user"
  <2>1. m = Msg("user", m.id)
    BY <1>3 DEF Msg, Orders
  <2>2. /\ \/ (Backend!UserDropped(m.id) \/ Backend!UserQueued(m.id)) /\ UNCHANGED to_detok
           \/ Backend!UserRejected(m.id) /\ Reply(Msgs("error", {m.id}))
        /\ UNCHANGED rebuild_msg
    BY <1>2, <1>3 DEF SchedulerReceives
  <2> QED BY <1>1, <1>2, <2>1, <2>2, UserDroppedKeeps, UserQueuedKeeps, UserRejectedKeeps
<1>4. CASE m.kind = "abort"
  <2>1. m = Msg("abort", m.id)
    BY <1>4 DEF Msg, Orders
  <2>2. Backend!AbortReceived(m.id) /\ UNCHANGED <<to_detok, rebuild_msg>>
    BY <1>2, <1>4 DEF SchedulerReceives
  <2> QED BY <1>1, <1>2, <2>1, <2>2, AbortReceivedKeeps
<1>5. CASE m.kind = "rebuild"
  <2>1. \/ Backend!RebuildQueued /\ rebuild_msg' = m.id /\ UNCHANGED to_detok
        \/ Backend!RebuildBusy /\ Reply(<<Msg("rebuilt", m.id)>>) /\ UNCHANGED rebuild_msg
    BY <1>2, <1>5 DEF SchedulerReceives
  <2> QED BY <1>1, <1>2, <1>5, <2>1, RebuildQueuedKeeps, RebuildBusyKeeps
<1>6. m.kind \in {"user", "abort", "rebuild"}
  BY DEF Orders
<1> QED BY <1>3, <1>4, <1>5, <1>6

\* SchedulerAdmits keeps the invariant: a held request is in flight, and nothing of it ended.
LEMMA AdmitsKeeps ==
  ASSUME FlowInv, SchedulerAdmits
  PROVE  FlowInv'
<1>1. QueueTypes /\ EngineTypes /\ EngineOK
  BY DEF FlowInv, FlowTypes
<1>2. PICK S \in SUBSET Uids : Backend!PromptsAdmitted(S) /\ Reply(Msgs("admitted", S))
  BY DEF SchedulerAdmits
<1>3. SchedulerRuns /\ UNCHANGED <<to_sched, rebuild_msg>>
  BY DEF SchedulerAdmits
<1>4. /\ \A u \in S : stage[u] = "held" /\ u \notin admitted
      /\ admitted' = admitted \cup S
      /\ UNCHANGED <<stage, tombstones, pending_abort_acks, emitted, queued_rebuild>>
  BY <1>2 DEF Backend!PromptsAdmitted, Backend!HeldRequests
<1>5. PICK kind \in {"admitted", "token", "last", "error"} : kind = "admitted"
  OBVIOUS
<1>6. PICK new \in Seq(Replies) : new = Msgs(kind, S) /\ Sends(new, kind, S)
  BY ONLY S \in SUBSET Uids, kind \in {"admitted", "token", "last", "error"}, SendsAre
<1>7. to_detok' = to_detok \o new
  BY <1>2, <1>5, <1>6 DEF Reply
<1>8. /\ "admitted" \notin Ends /\ "admitted" \notin Tokens /\ "admitted" \notin Rebuilding
      /\ "admitted" \in {"admitted"} /\ "admitted" \notin {"token"}
  BY DEF Ends, Tokens, Rebuilding
<1>9. EngineTypes'
  <2>1. admitted' \subseteq Uids
    BY <1>1, <1>4 DEF EngineTypes
  <2> QED BY <1>1, <1>3, <1>4, <2>1 DEF EngineTypes
<1>10. EngineOK'
  BY <1>1, <1>4 DEF EngineOK, Served
<1>11. /\ EndsLast(new) /\ ~Carries(new)
       /\ \A u : ~Has(new, u, Ends) /\ ~Has(new, u, {"token"})
       /\ \A u : Has(new, u, Counted) => u \in S
       /\ \A u : Count(new, u, Tokens) = 0
       /\ \A u : Count(new, u, {"admitted"}) = IF u \in S THEN 1 ELSE 0
  BY <1>5, <1>6, <1>8 DEF Sends
<1>12. \A A : Followed(new, A)
  BY <1>11 DEF Followed, Has
<1>13. /\ \A v \in Uids : Over(v) => Over(v)'
       /\ \A v \in Uids : v \in tombstones \/ stage[v] # "absent" =>
                            v \in tombstones' \/ stage'[v] # "absent"
       /\ \A v \in Uids : Served(v)' => Served(v)
       /\ \A v \in Uids : Has(new, v, Ends) => Over(v)'
       /\ \A v \in Uids : Has(new, v, Counted) => Served(v)
       /\ \A v \in Uids : Awaited(v) => Awaited(v)' \/ Has(new, v, Ends)
  BY <1>4, <1>11 DEF Over, Served, Awaited
<1>14. dead = {} => \A v \in Uids : Served(v)' => v \in stats.inflight
  BY <1>13 DEF FlowInv, InFlightOK
<1>15. /\ \A v \in Uids : emitted'[v] = emitted[v] + Count(new, v, Tokens)
       /\ \A v \in Uids : (IF v \in admitted' THEN 1 ELSE 0) =
                            (IF v \in admitted THEN 1 ELSE 0) + Count(new, v, {"admitted"})
  BY <1>1, <1>4, <1>11 DEF EngineTypes
<1>16. to_sched' \in [Tokenizers -> Seq(Orders)]
  BY <1>1, <1>3 DEF QueueTypes
<1>17. /\ \A v \in Tokenizers : \A u \in Uids :
            Has(to_sched'[v], u, {"user"}) => Has(to_sched[v], u, {"user"})
       /\ \A v \in Tokenizers : Carries(to_sched'[v]) => Carries(to_sched[v])
       /\ \A v \in Tokenizers : \A r : CarriesOne(to_sched[v], r) => CarriesOne(to_sched'[v], r)
       /\ UNCHANGED <<queued_rebuild, rebuild_msg>>
  BY <1>3, <1>4
<1>18. RebuildOK'
  BY ONLY FlowInv, <1>3, <1>7, <1>11, <1>17, new \in Seq(Replies), RebuildRests
<1> QED BY ONLY FlowInv, <1>3, <1>7, <1>9, <1>10, <1>11, <1>12, <1>13, <1>14, <1>15, <1>16, <1>17,
           <1>18, new \in Seq(Replies), SchedulerKeeps

\* SchedulerPublishes keeps the invariant: a token goes to a served request, its last one
\* and every acknowledgement end a request that is over then.
LEMMA PublishesKeeps ==
  ASSUME FlowInv, SchedulerPublishes
  PROVE  FlowInv'
<1>1. QueueTypes /\ EngineTypes /\ EngineOK
  BY DEF FlowInv, FlowTypes
<1>2. PICK S \in SUBSET Uids : \E F \in SUBSET S :
         /\ {u \in S : emitted[u] + 1 = MaxTokens} \subseteq F
         /\ Backend!Published(S, F)
         /\ Reply(Msgs("token", S \ F) \o Msgs("last", F) \o Msgs("error", pending_abort_acks))
  BY DEF SchedulerPublishes
<1>3. PICK F \in SUBSET S :
         /\ {u \in S : emitted[u] + 1 = MaxTokens} \subseteq F
         /\ Backend!Published(S, F)
         /\ Reply(Msgs("token", S \ F) \o Msgs("last", F) \o Msgs("error", pending_abort_acks))
  BY <1>2
<1>4. SchedulerRuns /\ UNCHANGED <<to_sched, rebuild_msg>>
  BY DEF SchedulerPublishes
<1>5. /\ \A u \in S : u \in admitted /\ Served(u)
      /\ emitted' = [u \in Uids |-> emitted[u] + (IF u \in S THEN 1 ELSE 0)]
      /\ stage' = [u \in Uids |-> IF u \in F \/ stage[u] = "closing" THEN "ended" ELSE stage[u]]
      /\ pending_abort_acks' = {}
      /\ UNCHANGED <<tombstones, admitted, queued_rebuild>>
  BY <1>3 DEF Backend!Published, Served
<1>6. PICK P \in SUBSET Uids : P = pending_abort_acks
  BY <1>1 DEF EngineTypes
<1>7. PICK R \in SUBSET Uids, L \in SUBSET Uids : R = S \ F /\ L = F
  OBVIOUS
<1>8. PICK t \in Seq(Replies) : t = Msgs("token", R) /\ Sends(t, "token", R)
  <2>1. PICK kind \in {"admitted", "token", "last", "error"} : kind = "token"
    OBVIOUS
  <2>2. PICK t \in Seq(Replies) : t = Msgs(kind, R) /\ Sends(t, kind, R)
    BY ONLY R \in SUBSET Uids, kind \in {"admitted", "token", "last", "error"}, SendsAre
  <2> QED BY ONLY <2>1, <2>2, t \in Seq(Replies)
<1>9. PICK l \in Seq(Replies) : l = Msgs("last", L) /\ Sends(l, "last", L)
  <2>1. PICK kind \in {"admitted", "token", "last", "error"} : kind = "last"
    OBVIOUS
  <2>2. PICK l \in Seq(Replies) : l = Msgs(kind, L) /\ Sends(l, kind, L)
    BY ONLY L \in SUBSET Uids, kind \in {"admitted", "token", "last", "error"}, SendsAre
  <2> QED BY ONLY <2>1, <2>2, l \in Seq(Replies)
<1>10. PICK e \in Seq(Replies) : e = Msgs("error", P) /\ Sends(e, "error", P)
  <2>1. PICK kind \in {"admitted", "token", "last", "error"} : kind = "error"
    OBVIOUS
  <2>2. PICK e \in Seq(Replies) : e = Msgs(kind, P) /\ Sends(e, kind, P)
    BY ONLY P \in SUBSET Uids, kind \in {"admitted", "token", "last", "error"}, SendsAre
  <2> QED BY ONLY <2>1, <2>2, e \in Seq(Replies)
<1>11. PICK d \in Seq(Replies) : d = t \o l /\ Joined(d, t, l)
  BY ONLY t \in Seq(Replies), l \in Seq(Replies), JoinedAre
<1>12. PICK new \in Seq(Replies) : new = d \o e /\ Joined(new, d, e)
  BY ONLY d \in Seq(Replies), e \in Seq(Replies), JoinedAre
<1>13. to_detok' = to_detok \o new
  BY <1>3, <1>6, <1>7, <1>8, <1>9, <1>10, <1>11, <1>12 DEF Reply
<1>14. /\ "token" \notin Ends /\ "token" \in Counted /\ "token" \in Tokens
       /\ "token" \notin Rebuilding /\ "token" \notin {"admitted"}
       /\ "last" \in Ends /\ "last" \in Counted /\ "last" \in Tokens
       /\ "last" \notin Rebuilding /\ "last" \notin {"admitted"} /\ "last" \notin {"token"}
       /\ "error" \in Ends /\ "error" \notin Counted /\ "error" \notin Tokens
       /\ "error" \notin Rebuilding /\ "error" \notin {"admitted"} /\ "error" \notin {"token"}
  BY DEF Ends, Counted, Tokens, Rebuilding
<1>15. /\ EndsLast(t) /\ ~Carries(t) /\ \A u : ~Has(t, u, Ends)
       /\ \A u : Has(t, u, Counted) <=> u \in R
       /\ \A u : Has(t, u, {"token"}) <=> u \in R
       /\ \A u : Count(t, u, Tokens) = IF u \in R THEN 1 ELSE 0
       /\ \A u : Count(t, u, {"admitted"}) = 0
  BY <1>8, <1>14 DEF Sends
<1>16. /\ EndsLast(l) /\ ~Carries(l) /\ \A u : Has(l, u, Ends) <=> u \in L
       /\ \A u : Has(l, u, Counted) <=> u \in L
       /\ \A u : ~Has(l, u, {"token"})
       /\ \A u : Count(l, u, Tokens) = IF u \in L THEN 1 ELSE 0
       /\ \A u : Count(l, u, {"admitted"}) = 0
  BY <1>9, <1>14 DEF Sends
<1>17. /\ EndsLast(e) /\ ~Carries(e) /\ \A u : Has(e, u, Ends) <=> u \in P
       /\ \A u : ~Has(e, u, Counted) /\ ~Has(e, u, {"token"})
       /\ \A u : Count(e, u, Tokens) = 0 /\ Count(e, u, {"admitted"}) = 0
  BY <1>10, <1>14 DEF Sends
<1>18. /\ EndsLast(new) /\ ~Carries(new)
       /\ \A u : Has(new, u, Ends) <=> u \in L \/ u \in P
       /\ \A u : Has(new, u, Counted) <=> u \in R \/ u \in L
  <2>1. /\ EndsLast(d) /\ ~Carries(d)
        /\ \A u : Has(d, u, Ends) <=> u \in L
        /\ \A u : Has(d, u, Counted) <=> u \in R \/ u \in L
    BY <1>11, <1>15, <1>16 DEF Joined
  <2> QED BY <1>12, <1>17, <2>1 DEF Joined
<1>19. \A u : /\ Count(new, u, Tokens) = IF u \in S THEN 1 ELSE 0
              /\ Count(new, u, {"admitted"}) = 0
  <2>1. \A u, K : Count(new, u, K) = Count(t, u, K) + Count(l, u, K) + Count(e, u, K)
    BY <1>11, <1>12 DEF Joined
  <2>2. \A u : Count(new, u, {"admitted"}) = 0
    BY <1>15, <1>16, <1>17, <2>1
  <2>3. \A u : Count(new, u, Tokens) = (IF u \in R THEN 1 ELSE 0) + (IF u \in L THEN 1 ELSE 0) + 0
    BY <1>15, <1>16, <1>17, <2>1
  <2> QED BY <1>7, <2>2, <2>3
<1>20. /\ \A u \in Uids : stage'[u] = IF u \in F \/ stage[u] = "closing" THEN "ended" ELSE stage[u]
       /\ \A u \in Uids : emitted'[u] = emitted[u] + (IF u \in S THEN 1 ELSE 0)
  BY <1>5
<1>21. EngineTypes'
  <2>1. stage' \in [Uids -> {"absent", "held", "closing", "ended"}]
    BY <1>1, <1>5 DEF EngineTypes
  <2>2. emitted' \in [Uids -> Nat]
    BY <1>1, <1>5 DEF EngineTypes
  <2> QED BY <1>1, <1>4, <1>5, <2>1, <2>2 DEF EngineTypes
<1>22. EngineOK'
  <2>1. ASSUME NEW u \in Uids
        PROVE  /\ stage'[u] # "closing"
               /\ u \in BadPrompts => stage'[u] = "absent"
               /\ u \in admitted' => stage'[u] # "absent"
               /\ u \notin admitted' => emitted'[u] = 0
               /\ emitted'[u] <= MaxTokens
               /\ stage'[u] \in {"held", "closing"} => emitted'[u] < MaxTokens
    <3>1. /\ u \in BadPrompts => stage[u] = "absent"
          /\ u \in admitted => stage[u] # "absent"
          /\ u \notin admitted => emitted[u] = 0
          /\ emitted[u] <= MaxTokens
          /\ Served(u) => emitted[u] < MaxTokens
      BY <1>1 DEF EngineOK
    <3>2. emitted[u] \in Nat /\ MaxTokens \in Nat
      BY <1>1, RequestFlowAssumption DEF EngineTypes
    <3>3. u \in S => u \in admitted /\ Served(u)
      BY <1>5
    <3>4. u \in S /\ emitted[u] + 1 = MaxTokens => u \in F
      BY <1>3
    <3>5. stage'[u] = (IF u \in F \/ stage[u] = "closing" THEN "ended" ELSE stage[u])
          /\ emitted'[u] = emitted[u] + (IF u \in S THEN 1 ELSE 0) /\ admitted' = admitted
          /\ (u \in F => u \in S)
      BY <1>5, <1>20
    <3>6. /\ stage'[u] # "closing"
          /\ u \in BadPrompts => stage'[u] = "absent"
          /\ u \in admitted' => stage'[u] # "absent"
      BY <3>1, <3>3, <3>5 DEF Served
    <3>7. u \notin admitted' => emitted'[u] = 0
      BY <3>1, <3>2, <3>3, <3>5
    <3>8. emitted'[u] <= MaxTokens
      BY <3>1, <3>2, <3>3, <3>5
    <3>9. stage'[u] \in {"held", "closing"} => emitted'[u] < MaxTokens
      <4>1. stage'[u] \in {"held", "closing"} => u \notin F /\ Served(u)
        BY <3>5 DEF Served
      <4> QED BY <3>1, <3>2, <3>4, <3>5, <4>1
    <3> QED BY <3>6, <3>7, <3>8, <3>9
  <2> QED BY <1>5, <2>1 DEF EngineOK, Served
<1>23. /\ \A v \in Uids : v \in P => stage[v] # "held" /\ (stage[v] = "absent" => v \in tombstones)
       /\ \A v \in Uids : stage[v] = "closing" => v \in P
  BY <1>1, <1>6 DEF EngineOK
<1>24. \A v \in Uids : v \in F => Served(v)
  BY <1>5
<1>25. /\ \A v \in Uids : Over(v) => Over(v)'
       /\ \A v \in Uids : v \in tombstones \/ stage[v] # "absent" =>
                            v \in tombstones' \/ stage'[v] # "absent"
       /\ \A v \in Uids : Served(v)' => Served(v)
  <2>1. \A v \in Uids : Over(v) => Over(v)'
    BY <1>5, <1>20, <1>24 DEF Over, Served
  <2>2. \A v \in Uids : v \in tombstones \/ stage[v] # "absent" =>
                          v \in tombstones' \/ stage'[v] # "absent"
    BY <1>5, <1>20
  <2>3. \A v \in Uids : Served(v)' => Served(v)
    BY <1>20 DEF Served
  <2> QED BY <2>1, <2>2, <2>3
<1>26. \A v \in Uids : Has(new, v, Ends) => Over(v)'
  <2>1. ASSUME NEW v \in Uids, v \in L PROVE Over(v)'
    BY <1>7, <1>20, <2>1 DEF Over
  <2>2. ASSUME NEW v \in Uids, v \in P PROVE Over(v)'
    <3>1. stage[v] \in {"absent", "closing", "ended"}
      BY <1>1, <1>23, <2>2 DEF EngineTypes
    <3> QED BY <1>5, <1>20, <1>23, <2>2, <3>1 DEF Over
  <2> QED BY <1>18, <2>1, <2>2
<1>27. \A v \in Uids : Has(new, v, Counted) => Served(v)
  BY <1>5, <1>7, <1>18
<1>28. \A v \in Uids : Awaited(v) => Awaited(v)' \/ Has(new, v, Ends)
  <2>1. ASSUME NEW v \in Uids, Served(v) PROVE Served(v)' \/ v \in L \/ v \in P
    BY <1>7, <1>20, <1>23, <2>1 DEF Served
  <2> QED BY <1>6, <1>18, <2>1 DEF Awaited
<1>29. Followed(new, {u \in Uids : Awaited(u)}')
  <2>1. PICK B : B = {u \in Uids : Awaited(u)}'
    OBVIOUS
  <2>2. Followed(t, R)
    <3>1. \A i \in DOMAIN t : t[i].kind = "token" => t[i].id \in R
      <4>1. \A i \in DOMAIN t : t[i].kind = "token" => Has(t, t[i].id, {"token"})
        BY DEF Has
      <4> QED BY <1>15, <4>1
    <3> QED BY <3>1 DEF Followed
  <2>3. Followed(l, R)
    <3>1. \A i \in DOMAIN l : l[i].kind # "token"
      <4>1. \A i \in DOMAIN l : l[i].kind = "token" => Has(l, l[i].id, {"token"})
        BY DEF Has
      <4> QED BY <1>16, <4>1
    <3> QED BY <3>1 DEF Followed
  <2>4. \A u \in R : u \in R \/ Has(l, u, Ends)
    OBVIOUS
  <2>5. Followed(d, R)
    BY ONLY <1>11, <2>2, <2>3, <2>4, t \in Seq(Replies), l \in Seq(Replies), CatFollowed
  <2>6. Followed(e, B)
    BY <1>17 DEF Followed, Has
  <2>7. \A u \in R : u \in B \/ Has(e, u, Ends)
    <3>1. ASSUME NEW u \in R, u \notin P PROVE u \in B
      <4>1. u \in Uids /\ Served(u) /\ u \notin F
        BY <1>5, <1>7
      <4>2. Served(u)'
        BY <1>20, <1>23, <3>1, <4>1 DEF Served
      <4> QED BY <2>1, <4>1, <4>2 DEF Awaited
    <3> QED BY <1>17, <3>1
  <2>8. Followed(new, B)
    BY ONLY <1>12, <2>5, <2>6, <2>7, d \in Seq(Replies), e \in Seq(Replies), CatFollowed
  <2> QED BY <2>1, <2>8
<1>30. dead = {} => \A v \in Uids : Served(v)' => v \in stats.inflight
  BY <1>25 DEF FlowInv, InFlightOK
<1>31. /\ \A v \in Uids : emitted'[v] = emitted[v] + Count(new, v, Tokens)
       /\ \A v \in Uids : (IF v \in admitted' THEN 1 ELSE 0) =
                            (IF v \in admitted THEN 1 ELSE 0) + Count(new, v, {"admitted"})
  BY <1>5, <1>19, <1>20
<1>32. to_sched' \in [Tokenizers -> Seq(Orders)]
  BY <1>1, <1>4 DEF QueueTypes
<1>33. /\ \A v \in Tokenizers : \A u \in Uids :
            Has(to_sched'[v], u, {"user"}) => Has(to_sched[v], u, {"user"})
       /\ \A v \in Tokenizers : Carries(to_sched'[v]) => Carries(to_sched[v])
       /\ \A v \in Tokenizers : \A r : CarriesOne(to_sched[v], r) => CarriesOne(to_sched'[v], r)
       /\ UNCHANGED <<queued_rebuild, rebuild_msg>>
  BY <1>4, <1>5
<1>34. RebuildOK'
  BY ONLY FlowInv, <1>4, <1>13, <1>18, <1>33, new \in Seq(Replies), RebuildRests
<1> QED BY ONLY FlowInv, <1>4, <1>13, <1>18, <1>21, <1>22, <1>25, <1>26, <1>27, <1>28, <1>29, <1>30,
           <1>31, <1>32, <1>33, <1>34, new \in Seq(Replies), SchedulerKeeps

-----------------------------------------------------------------------------
(***************************************************************************)
(* The listener's steps keep the invariant.                                *)
(***************************************************************************)

\* What the statistics make of a reply.
LEMMA ObserveIs ==
  ASSUME NEW st \in Statistics, st.aborting \subseteq st.inflight, NEW m \in Replies,
         m.kind # "rebuilt"
  PROVE  LET new == observe(st, m)
         IN  /\ new \in Statistics /\ new.aborting \subseteq new.inflight
             /\ new.inflight = IF Finished(m) THEN st.inflight \ {m.id} ELSE st.inflight
             /\ \A u \in Uids : /\ new.tokens[u] = st.tokens[u]
                                     + (IF m.id = u /\ m.kind \in Tokens THEN 1 ELSE 0)
                                /\ new.prompts[u] = st.prompts[u]
                                     + (IF m.id = u /\ m.kind \in {"admitted"} THEN 1 ELSE 0)
             /\ m.kind \notin Counted => new.tokens = st.tokens /\ new.prompts = st.prompts
<1>1. m.id \in Uids /\ m.kind \in {"admitted", "token", "last", "error"}
  BY DEF Replies
<1>2. PICK k : k = [st EXCEPT !.tokens[m.id] = @ + (IF m.kind \in {"token", "last"} THEN 1 ELSE 0),
                              !.prompts[m.id] = @ + (IF m.kind = "admitted" THEN 1 ELSE 0)]
  OBVIOUS
<1>3. st.tokens \in [Uids -> Nat] /\ st.prompts \in [Uids -> Nat]
  BY DEF Statistics
<1>4. /\ k.tokens = [st.tokens EXCEPT ![m.id] = @ + (IF m.kind \in {"token", "last"} THEN 1 ELSE 0)]
      /\ k.prompts = [st.prompts EXCEPT ![m.id] = @ + (IF m.kind = "admitted" THEN 1 ELSE 0)]
      /\ k.inflight = st.inflight /\ k.aborting = st.aborting /\ k.completed = st.completed
      /\ k = [inflight |-> st.inflight, aborting |-> st.aborting, completed |-> st.completed,
              prompts |-> k.prompts, tokens |-> k.tokens]
  BY <1>2 DEF Statistics
<1>5. k.tokens \in [Uids -> Nat] /\ k.prompts \in [Uids -> Nat]
  BY <1>1, <1>3, <1>4
<1>6. k \in Statistics
  <2>1. st.inflight \in SUBSET Uids /\ st.aborting \in SUBSET Uids /\ st.completed \in SUBSET Uids
    BY DEF Statistics
  <2> QED BY ONLY <1>4, <1>5, <2>1 DEF Statistics
<1>7. \A u \in Uids : /\ k.tokens[u] = st.tokens[u]
                           + (IF m.id = u /\ m.kind \in Tokens THEN 1 ELSE 0)
                      /\ k.prompts[u] = st.prompts[u]
                           + (IF m.id = u /\ m.kind \in {"admitted"} THEN 1 ELSE 0)
  BY <1>1, <1>3, <1>4 DEF Tokens
<1>8. m.kind \notin Counted => k.tokens = st.tokens /\ k.prompts = st.prompts
  BY <1>1, <1>3, <1>4 DEF Counted, Tokens
<1>9. PICK new : new = observe(st, m)
  OBVIOUS
<1>10. new = IF Finished(m) THEN observe_end(k, m.id) ELSE k
  BY <1>2, <1>9 DEF observe
<1>11. /\ observe_end(k, m.id) \in Statistics
       /\ observe_end(k, m.id).aborting \subseteq observe_end(k, m.id).inflight
       /\ observe_end(k, m.id).inflight = st.inflight \ {m.id}
       /\ observe_end(k, m.id).tokens = k.tokens /\ observe_end(k, m.id).prompts = k.prompts
  <2>1. k.aborting \subseteq k.inflight /\ k.inflight = st.inflight
    BY <1>4
  <2> QED BY <1>1, <1>6, <2>1 DEF observe_end, Statistics
<1>12. /\ new \in Statistics /\ new.aborting \subseteq new.inflight
       /\ new.inflight = IF Finished(m) THEN st.inflight \ {m.id} ELSE st.inflight
       /\ new.tokens = k.tokens /\ new.prompts = k.prompts
  BY <1>4, <1>6, <1>10, <1>11
<1> QED BY <1>7, <1>8, <1>9, <1>12

\* The listener takes a message of a worker.
LEMMA TakesIs ==
  ASSUME FlowInv, NEW w \in Workers, Takes(w)
  PROVE  /\ Received(w) \in Replies
         /\ to_front' \in [Workers -> Seq(Replies)]
         /\ Joined(to_front[w], <<Received(w)>>, to_front'[w])
         /\ \A v \in Workers \ {w} : to_front'[v] = to_front[v]
         /\ \A v \in Workers : \A i \in DOMAIN to_front'[v] : \E j \in DOMAIN to_front[v] :
               to_front'[v][i] = to_front[v][j]
         /\ \E j \in DOMAIN to_front[w] : Received(w) = to_front[w][j]
<1>1. QueueTypes
  BY DEF FlowInv, FlowTypes
<1>2. PICK s \in Seq(Replies) : s = to_front[w]
  BY <1>1, QueueOf
<1>3. s # <<>>
  BY <1>2 DEF Takes
<1>4. Head(s) \in Replies /\ Tail(s) \in Seq(Replies) /\ Joined(s, <<Head(s)>>, Tail(s))
  BY ONLY s \in Seq(Replies), <1>3, TakenIs
<1>5. to_front' = [to_front EXCEPT ![w] = Tail(s)] /\ to_front \in [Workers -> Seq(Replies)]
  BY <1>1, <1>2 DEF Takes, QueueTypes
<1>6. to_front' \in [Workers -> Seq(Replies)] /\ to_front'[w] = Tail(s)
      /\ \A v \in Workers \ {w} : to_front'[v] = to_front[v]
  BY ONLY <1>4, <1>5, w \in Workers
<1>7. \A i \in DOMAIN Tail(s) : \E j \in DOMAIN s : Tail(s)[i] = s[j]
  <2>1. ASSUME NEW i \in DOMAIN Tail(s) PROVE i + 1 \in DOMAIN s /\ Tail(s)[i] = s[i + 1]
    BY <1>3
  <2> QED BY <2>1
<1>8. \A v \in Workers : \A i \in DOMAIN to_front'[v] : \E j \in DOMAIN to_front[v] :
         to_front'[v][i] = to_front[v][j]
  <2>1. ASSUME NEW v \in Workers
        PROVE  \A i \in DOMAIN to_front'[v] : \E j \in DOMAIN to_front[v] :
                 to_front'[v][i] = to_front[v][j]
    <3>1. CASE v = w
      <4>1. PICK t : t = Tail(s)
        OBVIOUS
      <4>2. to_front'[v] = t /\ to_front[v] = s
        BY <1>2, <1>6, <3>1, <4>1
      <4>3. \A i \in DOMAIN t : \E j \in DOMAIN s : t[i] = s[j]
        BY ONLY <1>7, <4>1
      <4> QED BY ONLY <4>2, <4>3
    <3>2. CASE v # w
      <4>1. to_front'[v] = to_front[v]
        BY <1>6, <3>2
      <4> QED BY ONLY <4>1
    <3> QED BY <3>1, <3>2
  <2> QED BY <2>1
<1>9. 1 \in DOMAIN s /\ Head(s) = s[1]
  BY <1>3
<1> QED BY <1>2, <1>4, <1>6, <1>8, <1>9 DEF Received

\* Of a request with a bad prompt the engine sends nothing that counts.
LEMMA BadUncounted ==
  ASSUME FlowInv, NEW u \in BadPrompts
  PROVE  ~Has(to_detok, u, Counted) /\ ~Has(Answers, u, Counted)
<1>1. u \in Uids
  BY RequestFlowAssumption
<1>2. u \notin admitted /\ emitted[u] = 0
  BY <1>1 DEF FlowInv, EngineOK
<1>3. /\ stats.tokens[u] + Count(Answers, u, Tokens) + Count(to_detok, u, Tokens) = 0
      /\ stats.prompts[u] + Count(Answers, u, {"admitted"}) + Count(to_detok, u, {"admitted"}) = 0
  BY <1>1, <1>2 DEF FlowInv, CountsOK
<1>4. to_detok \in Seq(Replies) /\ Answers \in Seq(Replies)
  BY QueueOf DEF FlowInv, FlowTypes
<1>5. \A K : Count(Answers, u, K) \in Nat /\ Count(to_detok, u, K) \in Nat
  BY <1>4, WhereFinite
<1>6. stats.tokens[u] \in Nat /\ stats.prompts[u] \in Nat
  BY <1>1 DEF FlowInv, FlowTypes, FrontendTypes, Statistics
<1>7. /\ Count(Answers, u, Tokens) = 0 /\ Count(to_detok, u, Tokens) = 0
      /\ Count(Answers, u, {"admitted"}) = 0 /\ Count(to_detok, u, {"admitted"}) = 0
  <2>1. Count(Answers, u, Tokens) \in Nat /\ Count(to_detok, u, Tokens) \in Nat
    BY <1>5
  <2>2. Count(Answers, u, {"admitted"}) \in Nat /\ Count(to_detok, u, {"admitted"}) \in Nat
    BY <1>5
  <2>3. \A a, b, c \in Nat : a + b + c = 0 => b = 0 /\ c = 0
    OBVIOUS
  <2> QED BY ONLY <1>3, <1>6, <2>1, <2>2, <2>3, Zenon
<1>8. /\ ~Has(Answers, u, Tokens) /\ ~Has(to_detok, u, Tokens)
      /\ ~Has(Answers, u, {"admitted"}) /\ ~Has(to_detok, u, {"admitted"})
  BY <1>4, <1>7, WhereFinite
<1> QED BY <1>8 DEF Has, Counted

\* The end of a request is the last the listener hears of it.
LEMMA EndReceived ==
  ASSUME FlowInv, NEW w \in Workers, Takes(w), Finished(Received(w))
  PROVE  LET u == Received(w).id
         IN  /\ u \in Uids /\ Over(u)
             /\ ~Has(to_detok, u, Counted) /\ ~Has(Answers', u, Counted)
<1>1. RepliesOK
  BY DEF FlowInv
<1>2. PICK m \in Replies : m = Received(w) /\ m.kind \in Ends
  BY TakesIs DEF Finished, Ends
<1>3. m.id \in Uids
  BY <1>2 DEF Replies, Ends
<1>4. /\ Joined(to_front[w], <<m>>, to_front'[w])
      /\ \A v \in Workers \ {w} : to_front'[v] = to_front[v]
  BY <1>2, TakesIs
<1>5. Has(<<m>>, m.id, Ends)
  BY <1>2, OneIs
<1>6. Has(to_front[w], m.id, Ends)
  BY <1>4, <1>5 DEF Joined
<1>7. Over(m.id)
  BY <1>1, <1>3, <1>6 DEF RepliesOK
<1>8. CASE w = Detokenizer
  <2>1. ~Has(to_detok, m.id, Counted)
    BY <1>1, <1>3, <1>6, <1>8 DEF RepliesOK, Answers
  <2>2. EndsLast(to_front[w])
    BY <1>1, <1>8 DEF RepliesOK, Answers
  <2>3. ~Has(to_front'[w], m.id, Counted)
    BY <1>4, <1>5, <2>2 DEF Joined
  <2> QED BY <1>2, <1>3, <1>7, <1>8, <2>1, <2>3 DEF Answers
<1>9. CASE w # Detokenizer
  <2>1. m.id \in BadPrompts
    <3>1. PICK j \in DOMAIN to_front[w] : m = to_front[w][j]
      BY <1>2, TakesIs
    <3> QED BY <1>1, <1>2, <1>9, <3>1 DEF RepliesOK
  <2>2. Answers' = Answers
    BY <1>4, <1>9 DEF Answers, Workers
  <2> QED BY <1>2, <1>3, <1>7, <2>1, <2>2, BadUncounted
<1> QED BY <1>8, <1>9

\* What the listener takes leaves the replies behind it as they were.
LEMMA TakesKeeps ==
  ASSUME FlowInv, NEW w \in Workers, Takes(w)
  PROVE  /\ QueueTypes' /\ EngineTypes' /\ EngineOK' /\ RepliesOK' /\ DeathOK' /\ DecodeOK'
         /\ \A v \in Workers : \A u, K : Has(to_front'[v], u, K) => Has(to_front[v], u, K)
         /\ \A v \in Workers : Carries(to_front'[v]) => Carries(to_front[v])
         /\ \A v \in Workers : \A r : CarriesOne(to_front[v], r) => CarriesOne(to_front'[v], r)
         /\ UNCHANGED <<to_worker, to_detok, to_sched, listening, fatal_error, supervisor,
                        loop_calls, prepare, sealed, stop_rounds, decode_map, dead, backend>>
<1>1. QueueTypes /\ EngineTypes /\ RepliesOK
  BY DEF FlowInv, FlowTypes
<1>2. UNCHANGED <<to_worker, to_detok, to_sched, listening, fatal_error, supervisor,
                  loop_calls, prepare, sealed, stop_rounds, decode_map, dead, backend>>
  BY DEF Takes, watching, stopping
<1>3. PICK m \in Replies : m = Received(w)
  BY TakesIs
<1>4. /\ to_front' \in [Workers -> Seq(Replies)]
      /\ Joined(to_front[w], <<m>>, to_front'[w])
      /\ \A v \in Workers \ {w} : to_front'[v] = to_front[v]
      /\ \A v \in Workers : \A i \in DOMAIN to_front'[v] : \E j \in DOMAIN to_front[v] :
            to_front'[v][i] = to_front[v][j]
  BY <1>3, TakesIs
<1>5. QueueTypes' /\ EngineTypes'
  <2>1. EngineTypes'
    BY <1>1, <1>2, EngineTypesStay
  <2> QED BY <1>1, <1>2, <1>4, <2>1 DEF QueueTypes
<1>6. EngineOK' /\ DeathOK' /\ DecodeOK'
  BY <1>2, EngineStays, DeathStays, DecodeStays DEF FlowInv, backend
<1>7. \A v \in Workers : \A u, K : Has(to_front'[v], u, K) => Has(to_front[v], u, K)
  BY <1>4 DEF Joined
<1>8. \A v \in Workers : Carries(to_front'[v]) => Carries(to_front[v])
  BY <1>4 DEF Joined
<1>9. \A v \in Workers : \A r : CarriesOne(to_front[v], r) => CarriesOne(to_front'[v], r)
  BY <1>4 DEF Joined
<1>10. \A v \in Workers : EndsLast(to_front[v]) => EndsLast(to_front'[v])
  BY <1>4 DEF Joined
<1>11. Detokenizer \in Workers
  BY DEF Workers
<1>12. RepliesOK'
  <2>1. \A v \in Workers \ {Detokenizer} : \A i \in DOMAIN to_front'[v] :
          to_front'[v][i].kind = "error" /\ to_front'[v][i].id \in BadPrompts
    <3>1. ASSUME NEW v \in Workers \ {Detokenizer}, NEW i \in DOMAIN to_front'[v]
          PROVE  to_front'[v][i].kind = "error" /\ to_front'[v][i].id \in BadPrompts
      <4>1. PICK j \in DOMAIN to_front[v] : to_front'[v][i] = to_front[v][j]
        BY <1>4
      <4> QED BY <1>1, <4>1 DEF RepliesOK
    <3> QED BY <3>1
  <2>2. EndsLast(to_detok)' /\ EndsLast(Answers)'
    BY <1>1, <1>2, <1>10, <1>11 DEF RepliesOK, Answers
  <2>3. \A u : Over(u)' <=> Over(u)
    BY <1>2 DEF Over, backend
  <2>4. ASSUME NEW u \in Uids
        PROVE  /\ Has(Answers', u, Ends) => ~Has(to_detok', u, Counted)
               /\ Has(to_detok', u, Ends) => Over(u)'
               /\ \A v \in Workers : Has(to_front'[v], u, Ends) => Over(u)'
    <3>1. /\ Has(Answers, u, Ends) => ~Has(to_detok, u, Counted)
          /\ Has(to_detok, u, Ends) => Over(u)
          /\ \A v \in Workers : Has(to_front[v], u, Ends) => Over(u)
      BY <1>1 DEF RepliesOK
    <3>2. Has(Answers', u, Ends) => Has(Answers, u, Ends)
      BY <1>7, <1>11 DEF Answers
    <3> QED BY <1>2, <1>7, <2>3, <3>1, <3>2
  <2> QED BY <2>1, <2>2, <2>4 DEF RepliesOK
<1> QED BY <1>2, <1>5, <1>6, <1>7, <1>8, <1>9, <1>12

\* Handing a reply over keeps the invariant: what it says is counted as it leaves the queue,
\* and what ends a request is the last of it.
LEMMA ListenReplyKeeps ==
  ASSUME FlowInv, NEW w \in Workers, ListenReply(w)
  PROVE  FlowInv'
<1>1. FrontendTypes /\ QueueTypes /\ GateOK /\ SealOK /\ CountsOK /\ OrdersOK /\ InFlightOK
      /\ RebuildOK
  BY DEF FlowInv, FlowTypes
<1>2. Takes(w)
  BY DEF ListenReply
<1>3. PICK m \in Replies : m = Received(w)
  BY <1>2, TakesIs
<1>4. /\ m.kind # "rebuilt"
      /\ stats' = observe(stats, m)
      /\ IF Finished(m) THEN ReleaseSlot(m.id) ELSE UNCHANGED <<gate_free, gate_uids>>
      /\ acks' = [acks EXCEPT ![m.id] =
                     IF m.id \notin ack_map THEN @
                     ELSE @ \cup {IF Finished(m) THEN "finished" ELSE "reply"}]
      /\ UNCHANGED <<uid_counter, ack_map, http, abort_tasks, maintenance_state, active_rebuild,
                     rebuild_futures, last_rebuild_id>>
  BY <1>3 DEF ListenReply, rebuilds
<1>5. m.id \in Uids /\ m.kind \in {"admitted", "token", "last", "error"}
  BY <1>4 DEF Replies
<1>6. /\ QueueTypes' /\ EngineTypes' /\ EngineOK' /\ RepliesOK' /\ DeathOK' /\ DecodeOK'
      /\ \A v \in Workers : \A u, K : Has(to_front'[v], u, K) => Has(to_front[v], u, K)
      /\ \A v \in Workers : Carries(to_front'[v]) => Carries(to_front[v])
      /\ \A v \in Workers : \A r : CarriesOne(to_front[v], r) => CarriesOne(to_front'[v], r)
      /\ UNCHANGED <<to_worker, to_detok, to_sched, listening, fatal_error, supervisor,
                     loop_calls, prepare, sealed, stop_rounds, decode_map, dead, backend>>
  BY <1>2, TakesKeeps
<1>7. /\ stats' \in Statistics /\ stats'.aborting \subseteq stats'.inflight
      /\ stats'.inflight = IF Finished(m) THEN stats.inflight \ {m.id} ELSE stats.inflight
      /\ \A u \in Uids : /\ stats'.tokens[u] = stats.tokens[u]
                              + (IF m.id = u /\ m.kind \in Tokens THEN 1 ELSE 0)
                         /\ stats'.prompts[u] = stats.prompts[u]
                              + (IF m.id = u /\ m.kind \in {"admitted"} THEN 1 ELSE 0)
      /\ m.kind \notin Counted => stats'.tokens = stats.tokens /\ stats'.prompts = stats.prompts
  <2>1. stats \in Statistics /\ stats.aborting \subseteq stats.inflight
    BY <1>1 DEF FrontendTypes
  <2> QED BY <1>4, <2>1, ObserveIs
<1>8. /\ gate_free' \in Nat /\ gate_uids' \subseteq Uids
      /\ gate_uids' = IF Finished(m) THEN gate_uids \ {m.id} ELSE gate_uids
      /\ gate_free' + Cardinality(gate_uids') = GateLimit
  <2>1. CASE Finished(m)
    BY <1>1, <1>4, <1>5, <2>1, ReleasedIs
  <2>2. CASE ~Finished(m)
    BY <1>1, <1>4, <2>2 DEF FrontendTypes, GateOK
  <2> QED BY <2>1, <2>2
<1>9. FrontendTypes'
  <2>1. acks' \in [Uids -> SUBSET {"reply", "finished"}]
    BY <1>1, <1>4, <1>5 DEF FrontendTypes
  <2> QED BY <1>1, <1>4, <1>6, <1>7, <1>8, <2>1 DEF FrontendTypes
<1>10. Finished(m) => /\ Over(m.id) /\ ~Has(to_detok, m.id, Counted)
                      /\ ~Has(Answers', m.id, Counted)
  <2>1. PICK u \in Uids : u = m.id
    BY <1>5
  <2>2. Finished(m) => /\ Over(u) /\ ~Has(to_detok, u, Counted) /\ ~Has(Answers', u, Counted)
    BY <1>2, <1>3, <2>1, EndReceived
  <2> QED BY <2>1, <2>2
<1>10a. w # Detokenizer => m.kind = "error"
  <2>1. PICK j \in DOMAIN to_front[w] : m = to_front[w][j]
    BY <1>2, <1>3, TakesIs
  <2> QED BY <2>1 DEF FlowInv, RepliesOK
<1>11. CountsOK'
  <2>1. CASE w = Detokenizer
    <3>1. Joined(Answers, <<m>>, Answers')
      BY <1>2, <1>3, <2>1, TakesIs DEF Answers
    <3>2. ASSUME NEW u \in Uids, NEW K
          PROVE  /\ Count(Answers, u, K) = (IF m.id = u /\ m.kind \in K THEN 1 ELSE 0)
                                             + Count(Answers', u, K)
                 /\ Count(Answers', u, K) \in Nat
      <4>1. Count(<<m>>, u, K) = IF m.id = u /\ m.kind \in K THEN 1 ELSE 0
        BY OneMessage
      <4> QED BY <3>1, <4>1 DEF Joined
    <3>3. ASSUME NEW u \in Uids
          PROVE  stats'.tokens[u] + Count(Answers', u, Tokens) + Count(to_detok', u, Tokens)
                   = emitted'[u]
      <4>1. stats.tokens[u] + Count(Answers, u, Tokens) + Count(to_detok, u, Tokens) = emitted[u]
        BY <1>1 DEF CountsOK
      <4>2. stats.tokens[u] \in Nat /\ Count(to_detok, u, Tokens) \in Nat
        <5>1. to_detok \in Seq(Replies)
          BY <1>1, QueueOf
        <5> QED BY <1>1, <5>1, WhereFinite DEF FrontendTypes, Statistics
      <4>3. PICK d \in {0, 1} : d = IF m.id = u /\ m.kind \in Tokens THEN 1 ELSE 0
        OBVIOUS
      <4>4. stats'.tokens[u] = stats.tokens[u] + d
            /\ Count(Answers, u, Tokens) = d + Count(Answers', u, Tokens)
            /\ Count(Answers', u, Tokens) \in Nat /\ to_detok' = to_detok /\ emitted' = emitted
        BY <1>6, <1>7, <3>2, <4>3 DEF backend
      <4>5. PICK a \in Nat, b \in Nat, c \in Nat :
              a = stats.tokens[u] /\ b = Count(Answers', u, Tokens) /\ c = Count(to_detok, u, Tokens)
        BY <4>2, <4>4
      <4>6. (a + d) + b + c = a + (d + b) + c
        BY ONLY a \in Nat, b \in Nat, c \in Nat, d \in {0, 1}
      <4> QED BY ONLY <4>1, <4>4, <4>5, <4>6
    <3>4. ASSUME NEW u \in Uids
          PROVE  stats'.prompts[u] + Count(Answers', u, {"admitted"})
                   + Count(to_detok', u, {"admitted"}) = IF u \in admitted' THEN 1 ELSE 0
      <4>1. stats.prompts[u] + Count(Answers, u, {"admitted"}) + Count(to_detok, u, {"admitted"})
              = IF u \in admitted THEN 1 ELSE 0
        BY <1>1 DEF CountsOK
      <4>2. stats.prompts[u] \in Nat /\ Count(to_detok, u, {"admitted"}) \in Nat
        <5>1. to_detok \in Seq(Replies)
          BY <1>1, QueueOf
        <5> QED BY <1>1, <5>1, WhereFinite DEF FrontendTypes, Statistics
      <4>3. PICK d \in {0, 1} : d = IF m.id = u /\ m.kind \in {"admitted"} THEN 1 ELSE 0
        OBVIOUS
      <4>4. stats'.prompts[u] = stats.prompts[u] + d
            /\ Count(Answers, u, {"admitted"}) = d + Count(Answers', u, {"admitted"})
            /\ Count(Answers', u, {"admitted"}) \in Nat /\ to_detok' = to_detok
            /\ admitted' = admitted
        BY <1>6, <1>7, <3>2, <4>3 DEF backend
      <4>5. PICK a \in Nat, b \in Nat, c \in Nat :
              a = stats.prompts[u] /\ b = Count(Answers', u, {"admitted"}) /\ c = Count(to_detok, u, {"admitted"})
        BY <4>2, <4>4
      <4>6. (a + d) + b + c = a + (d + b) + c
        BY ONLY a \in Nat, b \in Nat, c \in Nat, d \in {0, 1}
      <4> QED BY ONLY <4>1, <4>4, <4>5, <4>6
    <3> QED BY <3>3, <3>4 DEF CountsOK
  <2>2. CASE w # Detokenizer
    <3>1. m.kind = "error"
      BY <1>10a, <2>2
    <3>2. stats'.tokens = stats.tokens /\ stats'.prompts = stats.prompts
      BY <1>7, <3>1 DEF Counted, Tokens
    <3>3. Answers' = Answers
      BY <1>2, <2>2, TakesIs DEF Answers, Workers
    <3> QED BY <1>1, <1>6, <3>2, <3>3 DEF CountsOK, backend
  <2> QED BY <2>1, <2>2
<1>12. OrdersOK'
  <2>1. \A u \in Uids : http'[u] # "registered"
    BY <1>2, <1>4 DEF Takes, LoopFree
  <2>2. ASSUME NEW u \in Uids, u \in stats.inflight
        PROVE  u \in stats'.inflight \/ u \in tombstones \/ stage[u] # "absent" \/ u \in BadPrompts
    BY <1>7, <1>10, <2>2 DEF Over
  <2> QED BY <1>1, <1>6, <2>1, <2>2 DEF OrdersOK, backend
<1>13. InFlightOK'
  <2>1. ASSUME dead = {}, NEW u \in Uids,
               Served(u) \/ Has(to_detok, u, Counted) \/ Has(Answers', u, Counted)
        PROVE  u \in stats'.inflight
    <3>1. Has(Answers', u, Counted) => Has(Answers, u, Counted)
      BY <1>6 DEF Answers, Workers
    <3>2. u \in stats.inflight
      BY <1>1, <2>1, <3>1 DEF InFlightOK
    <3>3. ~(Finished(m) /\ m.id = u)
      BY <1>10, <2>1 DEF Over, Served
    <3> QED BY <1>7, <3>2, <3>3
  <2>2. stage' = stage /\ dead' = dead /\ to_detok' = to_detok
    BY <1>6 DEF backend
  <2> QED BY <2>1, <2>2 DEF InFlightOK, Served
<1>14. SealOK'
  <2>1. ASSUME dead = {}, sealed # <<>>
        PROVE  stats'.inflight = {} /\ Totals' = Totals
    <3>1. stats.inflight = {}
      BY <1>1, <2>1 DEF SealOK
    <3>2. stats'.inflight = {}
      BY <1>7, <3>1
    <3>3. m.kind \notin Counted
      <4>1. CASE w = Detokenizer
        <5>1. Joined(Answers, <<m>>, Answers')
          BY <1>2, <1>3, <4>1, TakesIs DEF Answers
        <5>2. Has(<<m>>, m.id, Counted) <=> m.kind \in Counted
          BY OneIs
        <5>3. ~Has(Answers, m.id, Counted)
          BY <1>1, <1>5, <2>1, <3>1 DEF InFlightOK
        <5> QED BY <5>1, <5>2, <5>3 DEF Joined
      <4>2. CASE w # Detokenizer
        <5>1. m.kind = "error"
          BY <1>10a, <4>2
        <5> QED BY <5>1 DEF Counted, Tokens
      <4> QED BY <4>1, <4>2
    <3> QED BY <1>7, <3>2, <3>3 DEF Totals
  <2> QED BY <1>1, <1>4, <1>6, <2>1 DEF SealOK
<1>15. GateOK'
  <2>1. \A u \in gate_uids' : u < uid_counter'
    BY <1>1, <1>4, <1>8 DEF GateOK
  <2>2. GateLimit > 0 /\ ~SendFails /\ dead = {} => gate_uids' = stats'.inflight
    BY <1>1, <1>7, <1>8 DEF GateOK
  <2>3. GateLimit = 0 => gate_uids' = {}
    BY <1>1, <1>8 DEF GateOK
  <2> QED BY <1>6, <1>8, <2>1, <2>2, <2>3 DEF GateOK
<1>16. RebuildOK'
  <2>1. RebuildAt' \subseteq RebuildAt
    BY <1>6 DEF RebuildAt, backend
  <2>2. /\ \A v \in Workers : CarriesOne(to_front'[v], active_rebuild)
    BY <1>1, <1>6 DEF RebuildOK
  <2>3. UNCHANGED <<to_worker, to_sched, to_detok, queued_rebuild, rebuild_msg, active_rebuild,
                    last_rebuild_id, maintenance_state>>
    BY <1>4, <1>6 DEF backend
  <2> QED BY <1>1, <2>1, <2>2, <2>3 DEF RebuildOK
<1> QED BY <1>6, <1>9, <1>11, <1>12, <1>13, <1>14, <1>15, <1>16 DEF FlowInv, FlowTypes

\* Resolving the active rebuild keeps the invariant: it was the only one, and what a stop or a
\* death has closed stays closed.
LEMMA ResolveRebuildKeeps ==
  ASSUME FlowInv, NEW w \in Workers, ResolveRebuild(w)
  PROVE  FlowInv'
<1>1. FrontendTypes /\ QueueTypes /\ GateOK /\ SealOK /\ CountsOK /\ OrdersOK /\ InFlightOK
      /\ RebuildOK
  BY DEF FlowInv, FlowTypes
<1>2. Takes(w)
  BY DEF ResolveRebuild
<1>3. PICK m \in Replies : m = Received(w)
  BY <1>2, TakesIs
<1>4. m.kind = "rebuilt" /\ m.id \in RebuildIds /\ m.id # 0
  <2>1. m.kind = "rebuilt"
    BY <1>3 DEF ResolveRebuild
  <2>2. m.id \in RebuildIds
    BY <2>1 DEF Replies
  <2> QED BY <2>1, <2>2 DEF RebuildIds
<1>5. /\ QueueTypes' /\ EngineTypes' /\ EngineOK' /\ RepliesOK' /\ DeathOK' /\ DecodeOK'
      /\ \A v \in Workers : \A u, K : Has(to_front'[v], u, K) => Has(to_front[v], u, K)
      /\ UNCHANGED <<to_worker, to_detok, to_sched, listening, fatal_error, supervisor,
                     loop_calls, prepare, sealed, stop_rounds, decode_map, dead, backend>>
  BY <1>2, TakesKeeps
<1>6. /\ Joined(to_front[w], <<m>>, to_front'[w])
      /\ \A v \in Workers \ {w} : to_front'[v] = to_front[v]
  BY <1>2, <1>3, TakesIs
<1>7. /\ Carries(<<m>>) /\ \A r : CarriesOne(<<m>>, r) <=> m.id = r
      /\ \A u : ~Has(<<m>>, u, Tokens) /\ ~Has(<<m>>, u, {"admitted"})
  <2>1. m.kind \in Rebuilding /\ m.kind \notin Tokens /\ m.kind \notin {"admitted"}
    BY <1>4 DEF Rebuilding, Tokens
  <2> QED BY <2>1, OneIs
<1>8. m.id = active_rebuild /\ Carries(to_front[w]) /\ ~Carries(to_front'[w])
  <2>1. CarriesOne(to_front[w], active_rebuild)
    BY <1>1 DEF RebuildOK
  <2> QED BY <1>6, <1>7, <2>1 DEF Joined
<1>9. /\ active_rebuild' = 0
      /\ rebuild_futures' = rebuild_futures \ {active_rebuild}
      /\ maintenance_state' = AfterRebuild
      /\ last_rebuild_id' = last_rebuild_id
      /\ UNCHANGED <<uid_counter, ack_map, acks, gate_free, gate_uids, stats, http, abort_tasks>>
  BY <1>3, <1>8 DEF ResolveRebuild, IsActive, requests
<1>10. maintenance_state \in {"rebuilding", "failed"}
  BY <1>1, <1>4, <1>8 DEF RebuildOK
<1>11. /\ maintenance_state' \in {"serving", "failed"}
       /\ maintenance_state = "failed" => maintenance_state' = "failed"
  BY <1>9, <1>10 DEF AfterRebuild
<1>12. FrontendTypes'
  BY <1>1, <1>5, <1>9, <1>11 DEF FrontendTypes
<1>13. CountsOK'
  <2>1. ASSUME NEW u \in Uids, NEW K \in {Tokens, {"admitted"}}
        PROVE  Count(Answers', u, K) = Count(Answers, u, K)
    <3>1. CASE w = Detokenizer
      <4>1. Joined(Answers, <<m>>, Answers')
        BY <1>6, <3>1 DEF Answers
      <4>2. Count(<<m>>, u, K) = 0
        <5>1. m.kind \notin K
          BY <1>4 DEF Tokens
        <5> QED BY <5>1, OneMessage
      <4> QED BY <4>1, <4>2 DEF Joined
    <3>2. CASE w # Detokenizer
      <4>1. Answers' = Answers
        BY <1>6, <3>2 DEF Answers, Workers
      <4> QED BY <4>1
    <3> QED BY <3>1, <3>2
  <2> QED BY <1>1, <1>5, <1>9, <2>1 DEF CountsOK, backend
<1>14. OrdersOK'
  BY <1>1, <1>5, <1>9, OrdersStay DEF OrdersOK, backend
<1>15. InFlightOK'
  <2>1. \A u : Has(Answers', u, Counted) => Has(Answers, u, Counted)
    BY <1>5 DEF Answers, Workers
  <2> QED BY <1>1, <1>5, <1>9, <2>1 DEF InFlightOK, Served, backend
<1>16. SealOK'
  BY <1>1, <1>5, <1>9, <1>10, <1>11 DEF SealOK, Totals
<1>17. GateOK'
  BY <1>1, <1>5, <1>9 DEF GateOK
<1>18. RebuildOK'
  <2>1. \A x \in RebuildAt : x = <<"front", w>>
    BY <1>1, <1>8, PlacesAre DEF RebuildOK
  <2>2. \A v : /\ <<"worker", v>> \notin RebuildAt /\ <<"sched", v>> \notin RebuildAt
               /\ <<"detok", v>> \notin RebuildAt /\ <<"engine", v>> \notin RebuildAt
               /\ v # w => <<"front", v>> \notin RebuildAt
    BY <2>1
  <2>3. /\ \A v \in Tokenizers : ~Carries(to_worker[v]) /\ ~Carries(to_sched[v])
        /\ \A v \in Workers \ {w} : ~Carries(to_front[v])
        /\ ~Carries(to_detok) /\ rebuild_msg = 0
    BY <2>2, PlacesAre
  <2>4. /\ \A v \in Tokenizers : ~Carries(to_worker'[v]) /\ ~Carries(to_sched'[v])
        /\ \A v \in Workers : ~Carries(to_front'[v])
        /\ ~Carries(to_detok') /\ rebuild_msg' = 0 /\ queued_rebuild' = queued_rebuild
    BY <1>5, <1>6, <1>8, <2>3 DEF backend
  <2>5. \A x, y \in RebuildAt' : x = y
    BY <2>4 DEF RebuildAt
  <2>6. /\ \A v \in Tokenizers :
             CarriesOne(to_worker'[v], active_rebuild') /\ CarriesOne(to_sched'[v], active_rebuild')
        /\ \A v \in Workers : CarriesOne(to_front'[v], active_rebuild')
        /\ CarriesOne(to_detok', active_rebuild')
    BY <2>4, CarriesNone
  <2>7. active_rebuild' <= last_rebuild_id'
    BY <1>1, <1>9 DEF FrontendTypes
  <2> QED BY <1>1, <1>9, <2>3, <2>4, <2>5, <2>6, <2>7 DEF RebuildOK
<1> QED BY <1>5, <1>12, <1>13, <1>14, <1>15, <1>16, <1>17, <1>18 DEF FlowInv, FlowTypes

-----------------------------------------------------------------------------
(***************************************************************************)
(* A turn of a worker keeps the invariant.                                 *)
(***************************************************************************)

\* A turn takes asked and told, and sends f to the scheduler and y to the frontend.
Turn(w, asked, told, f, y) ==
    /\ Forwards(f, asked) /\ Answering(y, told, asked)
    /\ Joined(to_front'[w], to_front[w], y)
    /\ \A v \in Workers \ {w} : to_front'[v] = to_front[v]
    /\ w \in Tokenizers =>
         /\ Joined(to_worker[w], asked, to_worker'[w]) /\ Joined(to_sched'[w], to_sched[w], f)
         /\ \A v \in Tokenizers \ {w} : to_worker'[v] = to_worker[v] /\ to_sched'[v] = to_sched[v]
    /\ w \notin Tokenizers => asked = <<>> /\ UNCHANGED <<to_worker, to_sched>>
    /\ w = Detokenizer =>
         /\ to_detok = told \o to_detok' /\ Joined(to_detok, told, to_detok')
         /\ decode_map' \subseteq Uids
         /\ \A u \in decode_map' : /\ u \in decode_map \/ Has(told, u, {"token"})
                                   /\ ~Has(told, u, Ends)
    /\ w # Detokenizer => told = <<>> /\ UNCHANGED <<to_detok, decode_map>>
    /\ QueueTypes'

\* What a turn takes from the queue of asks.
LEMMA AsksTurned ==
  ASSUME QueueTypes, NEW w \in Workers, NEW i \in Nat,
         i \in 0 .. (IF w \in Tokenizers THEN Len(to_worker[w]) ELSE 0)
  PROVE  LET asked == IF w \in Tokenizers THEN SubSeq(to_worker[w], 1, i) ELSE <<>>
             rest  == SubSeq(to_worker[w], i + 1, Len(to_worker[w]))
         IN  /\ asked \in Seq(Asks)
             /\ w \in Tokenizers => rest \in Seq(Asks) /\ Joined(to_worker[w], asked, rest)
<1>1. CASE w \in Tokenizers
  <2>1. PICK s \in Seq(Asks) : s = to_worker[w]
    BY <1>1, QueueOf
  <2>2. i \in 0 .. Len(s)
    BY <1>1, <2>1
  <2>3. /\ SubSeq(s, 1, i) \in Seq(Asks) /\ SubSeq(s, i + 1, Len(s)) \in Seq(Asks)
        /\ Joined(s, SubSeq(s, 1, i), SubSeq(s, i + 1, Len(s)))
    BY ONLY s \in Seq(Asks), <2>2, CutIs
  <2> QED BY <1>1, <2>1, <2>3
<1>2. CASE w \notin Tokenizers
  BY <1>2
<1> QED BY <1>1, <1>2

\* What a turn takes from the queue of replies.
LEMMA RepliesTurned ==
  ASSUME QueueTypes, NEW w \in Workers, NEW j \in Nat,
         j \in 0 .. (IF w = Detokenizer THEN Len(to_detok) ELSE 0)
  PROVE  LET told == SubSeq(to_detok, 1, j)
             rest == SubSeq(to_detok, j + 1, Len(to_detok))
         IN  /\ told \in Seq(Replies) /\ rest \in Seq(Replies)
             /\ to_detok = told \o rest /\ Joined(to_detok, told, rest)
             /\ w # Detokenizer => told = <<>> /\ rest = to_detok
<1>1. PICK s \in Seq(Replies) : s = to_detok
  BY QueueOf
<1>2. j \in 0 .. Len(s) /\ (w # Detokenizer => j = 0)
  BY <1>1
<1>3. /\ SubSeq(s, 1, j) \in Seq(Replies) /\ SubSeq(s, j + 1, Len(s)) \in Seq(Replies)
      /\ Joined(s, SubSeq(s, 1, j), SubSeq(s, j + 1, Len(s)))
  BY ONLY s \in Seq(Replies), <1>2, CutIs
<1>4. s = SubSeq(s, 1, j) \o SubSeq(s, j + 1, Len(s))
  BY ONLY s \in Seq(Replies), <1>2, CutParts
<1>5. j = 0 => SubSeq(s, 1, j) = <<>>
  OBVIOUS
<1>6. j = 0 => SubSeq(s, j + 1, Len(s)) = s
  BY <1>3, <1>4, <1>5
<1> QED BY <1>1, <1>2, <1>3, <1>4, <1>5, <1>6

\* Whose decode status a turn leaves.
LEMMA DecodeTurned ==
  ASSUME NEW D \in SUBSET Uids, NEW told \in Seq(Replies), NEW A
  PROVE  LET left == (D \cup Ids(OfKind(told, {"token"})))
                       \ (Ids(OfKind(told, {"last", "error"})) \cup A)
         IN  /\ left \subseteq Uids
             /\ \A u \in left : (u \in D \/ Has(told, u, {"token"})) /\ ~Has(told, u, Ends)
<1>1. PICK t \in Seq(Replies) : t = OfKind(told, {"token"}) /\ Picked(t, told, {"token"})
  BY ONLY told \in Seq(Replies), PickedAre
<1>2. PICK e \in Seq(Replies) : e = OfKind(told, {"last", "error"})
                                  /\ Picked(e, told, {"last", "error"})
  BY ONLY told \in Seq(Replies), PickedAre
<1>3. \A u \in Ids(t) : u \in Uids /\ Has(told, u, {"token"})
  <2>1. ASSUME NEW k \in DOMAIN t PROVE t[k].id \in Uids /\ Has(told, t[k].id, {"token"})
    <3>1. t[k].kind = "token" /\ t[k] \in Replies
      BY <1>1 DEF Picked
    <3>2. Has(t, t[k].id, {"token"})
      BY <3>1 DEF Has
    <3>3. {"token"} \cap {"token"} = {"token"}
      OBVIOUS
    <3>4. Has(told, t[k].id, {"token"})
      BY <1>1, <3>2, <3>3 DEF Picked
    <3> QED BY <3>1, <3>4 DEF Replies
  <2> QED BY <2>1 DEF Ids
<1>4. \A u : Has(told, u, Ends) => u \in Ids(e)
  <2>1. ASSUME NEW u, Has(told, u, Ends) PROVE u \in Ids(e)
    <3>1. {"last", "error"} \cap Ends = Ends
      BY DEF Ends
    <3>2. Has(e, u, Ends)
      BY <1>2, <2>1, <3>1 DEF Picked
    <3> QED BY <3>2 DEF Has, Ids
  <2> QED BY <2>1
<1> QED BY <1>1, <1>2, <1>3, <1>4

\* A worker's turn is one.
LEMMA TurnIs ==
  ASSUME FlowInv, NEW w \in Workers, WorkerTurn(w)
  PROVE  \E asked \in Seq(Asks), told \in Seq(Replies) :
         \E f \in Seq(Orders), y \in Seq(Replies) : Turn(w, asked, told, f, y)
<1>1. QueueTypes
  BY DEF FlowInv, FlowTypes
<1>2. PICK i \in 0 .. (IF w \in Tokenizers THEN Len(to_worker[w]) ELSE 0),
           j \in 0 .. (IF w = Detokenizer THEN Len(to_detok) ELSE 0) :
        LET asked == IF w \in Tokenizers THEN SubSeq(to_worker[w], 1, i) ELSE <<>>
            told  == SubSeq(to_detok, 1, j)
        IN  /\ to_front' = [to_front EXCEPT ![w] = @ \o Answered(told, asked)]
            /\ IF w \in Tokenizers
               THEN /\ to_worker' = [to_worker EXCEPT ![w] = SubSeq(@, i + 1, Len(@))]
                    /\ to_sched' = [to_sched EXCEPT ![w] = @ \o Forwarded(asked)]
               ELSE UNCHANGED <<to_worker, to_sched>>
            /\ to_detok' = SubSeq(to_detok, j + 1, Len(to_detok))
            /\ decode_map' = IF w = Detokenizer
                             THEN (decode_map \cup Ids(OfKind(told, {"token"})))
                                    \ DecodeEnds(told, asked)
                             ELSE decode_map
  BY DEF WorkerTurn
<1>3. i \in Nat /\ j \in Nat
  <2>1. ASSUME NEW n, NEW k \in 0 .. n PROVE k \in Nat
    OBVIOUS
  <2> QED BY <2>1
<1>4. PICK asked \in Seq(Asks), rest \in Seq(Asks) :
        /\ asked = IF w \in Tokenizers THEN SubSeq(to_worker[w], 1, i) ELSE <<>>
        /\ w \in Tokenizers => rest = SubSeq(to_worker[w], i + 1, Len(to_worker[w]))
                                 /\ Joined(to_worker[w], asked, rest)
  <2>1. <<>> \in Seq(Asks)
    OBVIOUS
  <2> QED BY <1>1, <1>2, <1>3, <2>1, AsksTurned
<1>5. PICK told \in Seq(Replies), left \in Seq(Replies) :
        /\ told = SubSeq(to_detok, 1, j) /\ left = SubSeq(to_detok, j + 1, Len(to_detok))
        /\ to_detok = told \o left /\ Joined(to_detok, told, left)
        /\ w # Detokenizer => told = <<>> /\ left = to_detok
  BY <1>1, <1>2, <1>3, RepliesTurned
<1>6. PICK f \in Seq(Orders) : f = Forwarded(asked) /\ Forwards(f, asked)
  BY ONLY asked \in Seq(Asks), ForwardedAre
<1>7. PICK y \in Seq(Replies) : y = Answered(told, asked) /\ Answering(y, told, asked)
  BY ONLY told \in Seq(Replies), asked \in Seq(Asks), AnsweredAre
<1>8. /\ to_front' = [to_front EXCEPT ![w] = @ \o y]
      /\ w \in Tokenizers => /\ to_worker' = [to_worker EXCEPT ![w] = rest]
                             /\ to_sched' = [to_sched EXCEPT ![w] = @ \o f]
      /\ w \notin Tokenizers => UNCHANGED <<to_worker, to_sched>>
      /\ to_detok' = left
      /\ w = Detokenizer => decode_map' = (decode_map \cup Ids(OfKind(told, {"token"})))
                                            \ DecodeEnds(told, asked)
      /\ w # Detokenizer => decode_map' = decode_map
  BY <1>2, <1>4, <1>5, <1>6, <1>7
<1>9. PICK s \in Seq(Replies) : s = to_front[w]
  BY <1>1, QueueOf
<1>11. s \o y \in Seq(Replies) /\ Joined(s \o y, s, y)
  BY ONLY s \in Seq(Replies), y \in Seq(Replies), JoinedAre
<1>12. /\ Joined(to_front'[w], to_front[w], y)
       /\ \A v \in Workers \ {w} : to_front'[v] = to_front[v]
       /\ to_front' \in [Workers -> Seq(Replies)]
  BY <1>1, <1>8, <1>9, <1>11 DEF QueueTypes
<1>13. w \in Tokenizers =>
         /\ Joined(to_worker[w], asked, to_worker'[w]) /\ Joined(to_sched'[w], to_sched[w], f)
         /\ \A v \in Tokenizers \ {w} : to_worker'[v] = to_worker[v] /\ to_sched'[v] = to_sched[v]
         /\ to_worker' \in [Tokenizers -> Seq(Asks)] /\ to_sched' \in [Tokenizers -> Seq(Orders)]
  <2>1. SUFFICES ASSUME w \in Tokenizers
                 PROVE  /\ Joined(to_worker[w], asked, to_worker'[w])
                        /\ Joined(to_sched'[w], to_sched[w], f)
                        /\ \A v \in Tokenizers \ {w} :
                             to_worker'[v] = to_worker[v] /\ to_sched'[v] = to_sched[v]
                        /\ to_worker' \in [Tokenizers -> Seq(Asks)]
                        /\ to_sched' \in [Tokenizers -> Seq(Orders)]
    OBVIOUS
  <2>2. PICK o \in Seq(Orders) : o = to_sched[w]
    BY <1>1, <2>1, QueueOf
  <2>4. o \o f \in Seq(Orders) /\ Joined(o \o f, o, f)
    BY ONLY o \in Seq(Orders), f \in Seq(Orders), JoinedAre
  <2>5. to_sched' = [to_sched EXCEPT ![w] = o \o f] /\ to_worker' = [to_worker EXCEPT ![w] = rest]
    BY <1>8, <2>1, <2>2
  <2> QED BY <1>1, <1>4, <2>1, <2>2, <2>4, <2>5 DEF QueueTypes
<1>14. w \notin Tokenizers => asked = <<>> /\ UNCHANGED <<to_worker, to_sched>>
  BY <1>4, <1>8
<1>15. QueueTypes'
  BY <1>1, <1>8, <1>12, <1>13, <1>14 DEF QueueTypes
<1>16. w = Detokenizer =>
         /\ decode_map' \subseteq Uids
         /\ \A u \in decode_map' : /\ u \in decode_map \/ Has(told, u, {"token"})
                                   /\ ~Has(told, u, Ends)
  <2>1. PICK D \in SUBSET Uids : D = decode_map
    BY DEF FlowInv, FlowTypes, FrontendTypes
  <2>2. PICK A : A = Ids(OfKind(asked, {"abort"}))
    OBVIOUS
  <2>3. PICK d : d = (D \cup Ids(OfKind(told, {"token"})))
                       \ (Ids(OfKind(told, {"last", "error"})) \cup A)
    OBVIOUS
  <2>4. /\ d \subseteq Uids
        /\ \A u \in d : (u \in D \/ Has(told, u, {"token"})) /\ ~Has(told, u, Ends)
    BY ONLY <2>3, D \in SUBSET Uids, told \in Seq(Replies), DecodeTurned
  <2>5. w = Detokenizer => decode_map' = d
    BY <1>8, <2>1, <2>2, <2>3 DEF DecodeEnds
  <2> QED BY <2>1, <2>4, <2>5
<1>17. Turn(w, asked, told, f, y)
  BY <1>5, <1>6, <1>7, <1>8, <1>12, <1>13, <1>14, <1>15, <1>16 DEF Turn
<1> QED BY <1>17

\* What a turn hands to the frontend leaves nothing behind an end.
LEMMA TurnReplies ==
  ASSUME FlowInv, NEW w \in Workers, NEW asked \in Seq(Asks), NEW told \in Seq(Replies),
         NEW f \in Seq(Orders), NEW y \in Seq(Replies), Turn(w, asked, told, f, y),
         UNCHANGED backend
  PROVE  RepliesOK'
<1>1. RepliesOK /\ QueueTypes
  BY DEF FlowInv, FlowTypes
<1>2. /\ Answering(y, told, asked)
      /\ Joined(to_front'[w], to_front[w], y)
      /\ \A v \in Workers \ {w} : to_front'[v] = to_front[v]
      /\ w = Detokenizer => Joined(to_detok, told, to_detok')
      /\ w # Detokenizer => told = <<>> /\ to_detok' = to_detok
      /\ to_front' \in [Workers -> Seq(Replies)]
  BY DEF Turn, QueueTypes
<1>3. Detokenizer \in Workers
  BY DEF Workers
<1>4. \A u, K : Has(told, u, K) => Has(to_detok, u, K)
  BY <1>2, NoMessage DEF Joined
<1>5. \A u, K : Has(to_detok', u, K) => Has(to_detok, u, K)
  BY <1>2 DEF Joined
<1>6. EndsLast(told) /\ EndsLast(to_detok')
  BY <1>1, <1>2, NoMessage DEF Joined, RepliesOK
<1>7. \A u : Over(u)' <=> Over(u)
  BY DEF Over, backend
<1>8. \A u \in Uids : Has(y, u, Ends) => Over(u)
  <2>1. ASSUME NEW u \in Uids, Has(y, u, Ends) PROVE Over(u)
    <3>1. Has(told, u, Ends) \/ u \in BadPrompts
      BY <1>2, <2>1 DEF Answering
    <3>2. Has(to_detok, u, Ends) => Over(u)
      BY <1>1 DEF RepliesOK
    <3>3. u \in BadPrompts => Over(u)
      BY DEF FlowInv, EngineOK, Over
    <3> QED BY <1>4, <3>1, <3>2, <3>3
  <2> QED BY <2>1
<1>9. \A v \in Workers \ {Detokenizer} : \A i \in DOMAIN to_front'[v] :
        to_front'[v][i].kind = "error" /\ to_front'[v][i].id \in BadPrompts
  <2>1. ASSUME NEW v \in Workers \ {Detokenizer}, NEW i \in DOMAIN to_front'[v]
        PROVE  to_front'[v][i].kind = "error" /\ to_front'[v][i].id \in BadPrompts
    <3>1. CASE v # w
      BY <1>1, <1>2, <2>1, <3>1 DEF RepliesOK
    <3>2. CASE v = w
      <4>1. PICK r : r = to_front'[w][i]
        OBVIOUS
      <4>2. r \in Replies
        BY <1>2, <3>2, <4>1
      <4>3. \A K : r.kind \in K => Has(to_front'[w], r.id, K)
        BY <3>2, <4>1 DEF Has
      <4>4. told = <<>>
        BY <1>2, <2>1, <3>2
      <4>5. \A u, K : ~Has(told, u, K)
        BY <4>4 DEF Has
      <4>6. \A k \in DOMAIN to_front[w] :
              to_front[w][k].kind = "error" /\ to_front[w][k].id \in BadPrompts
        BY <1>1, <2>1, <3>2 DEF RepliesOK
      <4>7. \A u, K : Has(to_front[w], u, K) => "error" \in K /\ u \in BadPrompts
        BY <4>6 DEF Has
      <4>8. /\ "error" \notin Counted /\ "rebuilt" \in Rebuilding /\ "error" \notin Rebuilding
            /\ "error" \in Ends
        BY DEF Counted, Tokens, Rebuilding, Ends
      <4>9. r.kind \notin Counted
        <5>1. ~Has(to_front[w], r.id, Counted)
          BY <4>7, <4>8
        <5>2. ~Has(y, r.id, Counted)
          BY <1>2, <4>5 DEF Answering
        <5>3. ~Has(to_front'[w], r.id, Counted)
          BY <1>2, <5>1, <5>2 DEF Joined
        <5> QED BY <4>3, <5>3
      <4>10. r.kind # "rebuilt"
        <5>1. ~Carries(told) /\ ~Carries(to_front[w])
          BY <4>4, <4>6, <4>8 DEF Carries
        <5>2. ~Carries(to_front'[w])
          BY <1>2, <5>1 DEF Joined, Answering
        <5> QED BY <3>2, <4>1, <4>8, <5>2 DEF Carries
      <4>11. r.kind = "error"
        BY <4>2, <4>9, <4>10 DEF Replies, Counted, Tokens
      <4>12. Has(to_front[w], r.id, Ends) \/ Has(y, r.id, Ends)
        <5>1. Has(to_front'[w], r.id, Ends)
          BY <4>3, <4>8, <4>11
        <5> QED BY <1>2, <5>1 DEF Joined
      <4>13. r.id \in BadPrompts
        <5>1. Has(y, r.id, Ends) => r.id \in BadPrompts
          BY <1>2, <4>5 DEF Answering
        <5> QED BY <4>7, <4>12, <5>1
      <4> QED BY <3>2, <4>1, <4>11, <4>13
    <3> QED BY <3>1, <3>2
  <2> QED BY <2>1
<1>10. CASE w = Detokenizer
  <2>1. Joined(Answers', Answers, y)
    BY <1>2, <1>10 DEF Answers
  <2>2. EndsLast(y)
    BY <1>2, <1>6 DEF Answering
  <2>3. \A u : Has(Answers, u, Ends) => ~Has(y, u, Counted)
    <3>1. ASSUME NEW u, Has(Answers, u, Ends), Has(y, u, Counted) PROVE FALSE
      <4>1. u \in Uids
        BY <3>1, RepliesAbout
      <4>2. Has(to_detok, u, Counted)
        BY <1>2, <1>4, <3>1 DEF Answering
      <4> QED BY <1>1, <3>1, <4>1, <4>2 DEF RepliesOK
    <3> QED BY <3>1
  <2>4. EndsLast(Answers')
    BY <1>1, <2>1, <2>2, <2>3 DEF Joined, RepliesOK
  <2>5. ASSUME NEW u \in Uids, Has(Answers', u, Ends) PROVE ~Has(to_detok', u, Counted)
    <3>1. Has(Answers, u, Ends) \/ Has(y, u, Ends)
      BY <2>1, <2>5 DEF Joined
    <3>2. CASE Has(Answers, u, Ends)
      BY <1>1, <1>5, <3>2 DEF RepliesOK
    <3>3. CASE Has(told, u, Ends)
      <4>1. EndsLast(to_detok) /\ Joined(to_detok, told, to_detok')
        BY <1>1, <1>2, <1>10 DEF RepliesOK
      <4> QED BY <3>3, <4>1 DEF Joined
    <3>4. CASE u \in BadPrompts
      <4>1. ~Has(to_detok, u, Counted)
        BY <3>4, BadUncounted
      <4> QED BY <1>5, <4>1
    <3> QED BY <1>2, <3>1, <3>2, <3>3, <3>4 DEF Answering
  <2>6. ASSUME NEW u \in Uids
        PROVE  /\ Has(to_detok', u, Ends) => Over(u)'
               /\ \A v \in Workers : Has(to_front'[v], u, Ends) => Over(u)'
    <3>1. Has(to_detok', u, Ends) => Over(u)
      BY <1>1, <1>5 DEF RepliesOK
    <3>2. \A v \in Workers : Has(to_front[v], u, Ends) => Over(u)
      BY <1>1 DEF RepliesOK
    <3>3. \A v \in Workers : Has(to_front'[v], u, Ends) =>
                               Has(to_front[v], u, Ends) \/ Has(y, u, Ends)
      BY <1>2 DEF Joined
    <3> QED BY <1>7, <1>8, <3>1, <3>2, <3>3
  <2> QED BY <1>6, <1>9, <2>4, <2>5, <2>6 DEF RepliesOK
<1>11. CASE w # Detokenizer
  <2>1. Answers' = Answers /\ to_detok' = to_detok
    BY <1>2, <1>3, <1>11 DEF Answers
  <2>2. ASSUME NEW u \in Uids
        PROVE  \A v \in Workers : Has(to_front'[v], u, Ends) => Over(u)'
    <3>1. \A v \in Workers : Has(to_front[v], u, Ends) => Over(u)
      BY <1>1 DEF RepliesOK
    <3>2. \A v \in Workers : Has(to_front'[v], u, Ends) =>
                               Has(to_front[v], u, Ends) \/ Has(y, u, Ends)
      BY <1>2 DEF Joined
    <3> QED BY <1>7, <1>8, <3>1, <3>2
  <2>3. \A u \in Uids : /\ Has(Answers', u, Ends) => ~Has(to_detok', u, Counted)
                        /\ Has(to_detok', u, Ends) => Over(u)'
    BY <1>1, <1>7, <2>1 DEF RepliesOK
  <2>4. EndsLast(to_detok)' /\ EndsLast(Answers)'
    BY <1>1, <2>1 DEF RepliesOK
  <2> QED BY <1>9, <2>2, <2>3, <2>4 DEF RepliesOK
<1> QED BY <1>10, <1>11

\* What a turn counts off one queue it counts onto the next.
LEMMA TurnCounts ==
  ASSUME FlowInv, NEW w \in Workers, NEW asked \in Seq(Asks), NEW told \in Seq(Replies),
         NEW f \in Seq(Orders), NEW y \in Seq(Replies), Turn(w, asked, told, f, y),
         UNCHANGED <<stats, backend>>
  PROVE  CountsOK'
<1>1. CountsOK /\ QueueTypes
  BY DEF FlowInv, FlowTypes
<1>2. /\ Answering(y, told, asked)
      /\ Joined(to_front'[w], to_front[w], y)
      /\ \A v \in Workers \ {w} : to_front'[v] = to_front[v]
      /\ w = Detokenizer => Joined(to_detok, told, to_detok')
      /\ w # Detokenizer => told = <<>> /\ to_detok' = to_detok
  BY DEF Turn
<1>3. CASE w = Detokenizer
  <2>1. Joined(Answers', Answers, y) /\ Joined(to_detok, told, to_detok')
    BY <1>2, <1>3 DEF Answers
  <2>2. ASSUME NEW u \in Uids, NEW K \in {Tokens, {"admitted"}}, NEW n \in Nat, NEW m,
               n + Count(Answers, u, K) + Count(to_detok, u, K) = m
        PROVE  n + Count(Answers', u, K) + Count(to_detok', u, K) = m
    <3>1. Count(y, u, K) = Count(told, u, K)
      BY <1>2 DEF Answering
    <3>2. PICK a, b, c : a = Count(Answers, u, K) /\ b = Count(told, u, K)
                           /\ c = Count(to_detok', u, K)
      OBVIOUS
    <3>3. /\ a \in Nat /\ b \in Nat /\ c \in Nat
          /\ Count(Answers', u, K) = a + b /\ Count(to_detok, u, K) = b + c
      BY <2>1, <3>1, <3>2 DEF Joined
    <3>4. n + (a + b) + c = n + a + (b + c)
      BY ONLY <3>3, n \in Nat
    <3> QED BY ONLY <2>2, <3>2, <3>3, <3>4
  <2>3. stats' = stats /\ admitted' = admitted /\ emitted' = emitted
    BY DEF backend
  <2>4. \A u \in Uids : stats.tokens[u] \in Nat /\ stats.prompts[u] \in Nat
    BY DEF FlowInv, FlowTypes, FrontendTypes, Statistics
  <2>5. ASSUME NEW u \in Uids
        PROVE  /\ stats'.tokens[u] + Count(Answers', u, Tokens) + Count(to_detok', u, Tokens)
                    = emitted'[u]
               /\ stats'.prompts[u] + Count(Answers', u, {"admitted"})
                    + Count(to_detok', u, {"admitted"}) = IF u \in admitted' THEN 1 ELSE 0
    <3>1. /\ stats.tokens[u] + Count(Answers, u, Tokens) + Count(to_detok, u, Tokens) = emitted[u]
          /\ stats.prompts[u] + Count(Answers, u, {"admitted"}) + Count(to_detok, u, {"admitted"})
               = IF u \in admitted THEN 1 ELSE 0
      BY <1>1 DEF CountsOK
    <3>2. PICK t \in Nat, q \in Nat : t = stats.tokens[u] /\ q = stats.prompts[u]
      BY <2>4
    <3> QED BY <2>2, <2>3, <3>1, <3>2
  <2> QED BY <2>5 DEF CountsOK
<1>4. CASE w # Detokenizer
  <2>1. Answers' = Answers /\ to_detok' = to_detok
    BY <1>2, <1>4 DEF Answers, Workers
  <2> QED BY <1>1, <2>1 DEF CountsOK, backend
<1> QED BY <1>3, <1>4

\* A turn moves the rebuild, if it takes it, one place on.
LEMMA TurnRebuilds ==
  ASSUME FlowInv, NEW w \in Workers, NEW asked \in Seq(Asks), NEW told \in Seq(Replies),
         NEW f \in Seq(Orders), NEW y \in Seq(Replies), Turn(w, asked, told, f, y),
         UNCHANGED <<maintenance_state, active_rebuild, last_rebuild_id, backend>>
  PROVE  RebuildOK'
<1>1. RebuildOK /\ QueueTypes
  BY DEF FlowInv, FlowTypes
<1>2. /\ Forwards(f, asked) /\ Answering(y, told, asked)
      /\ Joined(to_front'[w], to_front[w], y)
      /\ \A v \in Workers \ {w} : to_front'[v] = to_front[v]
      /\ w \in Tokenizers =>
           /\ Joined(to_worker[w], asked, to_worker'[w]) /\ Joined(to_sched'[w], to_sched[w], f)
           /\ \A v \in Tokenizers \ {w} : to_worker'[v] = to_worker[v] /\ to_sched'[v] = to_sched[v]
      /\ w \notin Tokenizers => asked = <<>> /\ UNCHANGED <<to_worker, to_sched>>
      /\ w = Detokenizer => Joined(to_detok, told, to_detok')
      /\ w # Detokenizer => told = <<>> /\ to_detok' = to_detok
  BY DEF Turn
<1>3. UNCHANGED <<queued_rebuild, rebuild_msg>>
  BY DEF backend
<1>4. PICK r : r = active_rebuild
  OBVIOUS
<1>5. /\ \A v \in Tokenizers : CarriesOne(to_worker[v], r) /\ CarriesOne(to_sched[v], r)
      /\ \A v \in Workers : CarriesOne(to_front[v], r)
      /\ CarriesOne(to_detok, r)
      /\ \A p, q \in RebuildAt : p = q
  BY <1>1, <1>4 DEF RebuildOK
<1>6. ~Carries(<<>>) /\ CarriesOne(<<>>, r)
  BY DEF Carries, CarriesOne
<1>7. /\ CarriesOne(asked, r) /\ CarriesOne(told, r)
      /\ Carries(asked) => w \in Tokenizers /\ Carries(to_worker[w]) /\ ~Carries(to_worker'[w])
      /\ Carries(told) => w = Detokenizer /\ Carries(to_detok) /\ ~Carries(to_detok')
  <2>1. CASE w \in Tokenizers
    <3>1. CarriesOne(to_worker[w], r) /\ Joined(to_worker[w], asked, to_worker'[w])
      BY <1>2, <1>5, <2>1
    <3>2. CarriesOne(asked, r) /\ (Carries(asked) => Carries(to_worker[w]) /\ ~Carries(to_worker'[w]))
      BY <3>1 DEF Joined
    <3>3. CASE w = Detokenizer
      <4>1. Joined(to_detok, told, to_detok')
        BY <1>2, <3>3
      <4> QED BY <1>5, <2>1, <3>2, <3>3, <4>1 DEF Joined
    <3>4. CASE w # Detokenizer
      BY <1>2, <1>6, <2>1, <3>2, <3>4
    <3> QED BY <3>3, <3>4
  <2>2. CASE w \notin Tokenizers
    <3>1. w = Detokenizer
      BY <2>2 DEF Workers
    <3>2. Joined(to_detok, told, to_detok') /\ asked = <<>>
      BY <1>2, <2>2, <3>1
    <3> QED BY <1>5, <1>6, <3>1, <3>2 DEF Joined
  <2> QED BY <2>1, <2>2
<1>8. /\ CarriesOne(f, r) /\ CarriesOne(y, r)
      /\ Carries(f) => Carries(asked)
      /\ Carries(y) => Carries(told)
  BY <1>2, <1>7 DEF Forwards, Answering
<1>9. /\ \A v \in Tokenizers : Carries(to_worker'[v]) => Carries(to_worker[v])
      /\ \A v \in Tokenizers :
           Carries(to_sched'[v]) => Carries(to_sched[v]) \/ (v = w /\ Carries(f))
      /\ \A v \in Workers : Carries(to_front'[v]) => Carries(to_front[v]) \/ (v = w /\ Carries(y))
      /\ Carries(to_detok') => Carries(to_detok)
  <2>1. CASE w \in Tokenizers
    BY <1>2, <2>1 DEF Joined
  <2>2. CASE w \notin Tokenizers
    BY <1>2, <2>2 DEF Joined
  <2> QED BY <2>1, <2>2
<1>10. /\ \A v \in Tokenizers : CarriesOne(to_worker'[v], r)
       /\ CarriesOne(to_detok', r)
  <2>1. CarriesOne(to_detok', r)
    BY <1>2, <1>5 DEF Joined
  <2>2. ASSUME NEW v \in Tokenizers PROVE CarriesOne(to_worker'[v], r)
    <3>1. CASE v = w
      BY <1>2, <1>5, <3>1 DEF Joined
    <3>2. CASE v # w
      BY <1>2, <1>5, <3>2
    <3> QED BY <3>1, <3>2
  <2> QED BY <2>1, <2>2
<1>11. \A v \in Tokenizers : CarriesOne(to_sched'[v], r)
  <2>1. ASSUME NEW v \in Tokenizers PROVE CarriesOne(to_sched'[v], r)
    <3>1. CASE v = w
      <4>1. Carries(f) => <<"worker", w>> \in RebuildAt
        BY <1>7, <1>8, <3>1, PlacesAre
      <4>2. Carries(to_sched[w]) => <<"sched", w>> \in RebuildAt
        BY <3>1, PlacesAre
      <4>3. ~(Carries(to_sched[w]) /\ Carries(f))
        BY <1>5, <4>1, <4>2
      <4> QED BY <1>2, <1>5, <1>8, <3>1, <4>3 DEF Joined
    <3>2. CASE v # w
      BY <1>2, <1>5, <3>2
    <3> QED BY <3>1, <3>2
  <2> QED BY <2>1
<1>12. \A v \in Workers : CarriesOne(to_front'[v], r)
  <2>1. ASSUME NEW v \in Workers PROVE CarriesOne(to_front'[v], r)
    <3>1. CASE v = w
      <4>1. Carries(y) => <<"detok", Detokenizer>> \in RebuildAt
        BY <1>7, <1>8, PlacesAre
      <4>2. Carries(to_front[w]) => <<"front", w>> \in RebuildAt
        BY PlacesAre
      <4>3. ~(Carries(to_front[w]) /\ Carries(y))
        BY <1>5, <4>1, <4>2
      <4> QED BY <1>2, <1>5, <1>8, <3>1, <4>3 DEF Joined
    <3>2. CASE v # w
      BY <1>2, <1>5, <3>2
    <3> QED BY <3>1, <3>2
  <2> QED BY <2>1
<1>13. \A p, q \in RebuildAt' : p = q
  <2>1. CASE Carries(asked)
    <3>1. \A p \in RebuildAt : p = <<"worker", w>>
      BY <1>5, <1>7, <2>1, PlacesAre
    <3>2. \A v : /\ <<"sched", v>> \notin RebuildAt /\ <<"front", v>> \notin RebuildAt
                 /\ <<"detok", v>> \notin RebuildAt /\ <<"engine", v>> \notin RebuildAt
                 /\ v # w => <<"worker", v>> \notin RebuildAt
      BY <3>1
    <3>3. /\ \A v \in Tokenizers : ~Carries(to_sched[v]) /\ (v # w => ~Carries(to_worker[v]))
          /\ \A v \in Workers : ~Carries(to_front[v])
          /\ ~Carries(to_detok) /\ rebuild_msg = 0
      BY <3>2, PlacesAre
    <3>4. ~Carries(y) /\ ~Carries(to_worker'[w])
      BY <1>7, <1>8, <2>1, <3>3
    <3>5. /\ \A v \in Tokenizers : ~Carries(to_worker'[v]) /\ (Carries(to_sched'[v]) => v = w)
          /\ \A v \in Workers : ~Carries(to_front'[v])
          /\ ~Carries(to_detok') /\ rebuild_msg' = 0
      BY <1>3, <1>9, <3>3, <3>4
    <3>6. \A p \in RebuildAt' : p = <<"sched", w>>
      BY <3>5 DEF RebuildAt
    <3> QED BY <3>6
  <2>2. CASE Carries(told)
    <3>1. \A p \in RebuildAt : p = <<"detok", Detokenizer>>
      BY <1>5, <1>7, <2>2, PlacesAre
    <3>2. \A v : /\ <<"sched", v>> \notin RebuildAt /\ <<"front", v>> \notin RebuildAt
                 /\ <<"worker", v>> \notin RebuildAt /\ <<"engine", v>> \notin RebuildAt
      BY <3>1
    <3>3. /\ \A v \in Tokenizers : ~Carries(to_sched[v]) /\ ~Carries(to_worker[v])
          /\ \A v \in Workers : ~Carries(to_front[v])
          /\ rebuild_msg = 0
      BY <3>2, PlacesAre
    <3>4. ~Carries(f) /\ ~Carries(to_detok')
      BY <1>7, <1>8, <2>2, <3>3
    <3>5. /\ \A v \in Tokenizers : ~Carries(to_worker'[v]) /\ ~Carries(to_sched'[v])
          /\ \A v \in Workers : Carries(to_front'[v]) => v = w
          /\ ~Carries(to_detok') /\ rebuild_msg' = 0
      BY <1>3, <1>9, <3>3, <3>4
    <3>6. \A p \in RebuildAt' : p = <<"front", w>>
      BY <3>5 DEF RebuildAt
    <3> QED BY <3>6
  <2>3. CASE ~Carries(asked) /\ ~Carries(told)
    <3>1. ~Carries(f) /\ ~Carries(y)
      BY <1>8, <2>3
    <3>2. RebuildAt' \subseteq RebuildAt
      BY <1>3, <1>9, <3>1 DEF RebuildAt
    <3> QED BY <1>5, <3>2
  <2> QED BY <2>1, <2>2, <2>3
<1> QED BY <1>1, <1>3, <1>4, <1>10, <1>11, <1>12, <1>13 DEF RebuildOK

\* A turn of a worker keeps the invariant: whatever it does, messages only move on.
LEMMA WorkerTurnKeeps ==
  ASSUME FlowInv, NEW w \in Workers, WorkerTurn(w)
  PROVE  FlowInv'
<1>1. FrontendTypes /\ QueueTypes /\ EngineTypes /\ RepliesOK /\ OrdersOK /\ InFlightOK /\ DecodeOK
  BY DEF FlowInv, FlowTypes
<1>2. PICK asked \in Seq(Asks), told \in Seq(Replies) :
        \E f \in Seq(Orders), y \in Seq(Replies) : Turn(w, asked, told, f, y)
  BY TurnIs
<1>3. PICK f \in Seq(Orders), y \in Seq(Replies) : Turn(w, asked, told, f, y)
  BY <1>2
<1>4. UNCHANGED <<maintenance_state, listening, uid_counter, ack_map, acks, gate_free, gate_uids,
                  stats, http, abort_tasks, active_rebuild, rebuild_futures, last_rebuild_id,
                  prepare, sealed, stop_rounds, fatal_error, supervisor, loop_calls, dead, backend>>
  BY DEF WorkerTurn, requests, rebuilds, stopping, watching
<1>5. /\ Forwards(f, asked) /\ Answering(y, told, asked)
      /\ Joined(to_front'[w], to_front[w], y)
      /\ \A v \in Workers \ {w} : to_front'[v] = to_front[v]
      /\ w \in Tokenizers =>
           /\ Joined(to_worker[w], asked, to_worker'[w]) /\ Joined(to_sched'[w], to_sched[w], f)
           /\ \A v \in Tokenizers \ {w} : to_worker'[v] = to_worker[v] /\ to_sched'[v] = to_sched[v]
      /\ w \notin Tokenizers => asked = <<>> /\ UNCHANGED <<to_worker, to_sched>>
      /\ w # Detokenizer => told = <<>> /\ UNCHANGED <<to_detok, decode_map>>
      /\ QueueTypes'
  BY <1>3 DEF Turn
<1>6. w = Detokenizer =>
        /\ to_detok = told \o to_detok' /\ Joined(to_detok, told, to_detok')
        /\ decode_map' \subseteq Uids
        /\ \A u \in decode_map' : /\ u \in decode_map \/ Has(told, u, {"token"})
                                  /\ ~Has(told, u, Ends)
  BY <1>3 DEF Turn
<1>7. FrontendTypes'
  <2>1. decode_map' \subseteq Uids
    BY <1>1, <1>5, <1>6 DEF FrontendTypes
  <2> QED BY <1>1, <1>4, <2>1 DEF FrontendTypes
<1>8. EngineTypes' /\ EngineOK' /\ SealOK' /\ GateOK' /\ DeathOK'
  <2>1. EngineTypes' /\ EngineOK'
    BY <1>1, <1>4, EngineTypesStay, EngineStays DEF FlowInv, backend
  <2>2. SealOK'
    BY <1>4, SealStays DEF FlowInv
  <2>3. GateOK'
    BY <1>4, GateStays DEF FlowInv
  <2>4. DeathOK'
    BY <1>4, DeathStays DEF FlowInv
  <2> QED BY <2>1, <2>2, <2>3, <2>4
<1>9. RepliesOK'
  BY <1>3, <1>4, TurnReplies
<1>10. CountsOK'
  BY <1>3, <1>4, TurnCounts
<1>11. RebuildOK'
  BY <1>3, <1>4, TurnRebuilds
<1>12. OrdersOK'
  <2>1. stage' = stage /\ tombstones' = tombstones
    BY <1>4 DEF backend
  <2>2. /\ \A v \in Tokenizers : \A u, K : Has(to_worker'[v], u, K) => Has(to_worker[v], u, K)
        /\ \A v \in Tokenizers : \A u : Has(to_sched'[v], u, {"user"}) =>
             \/ Has(to_sched[v], u, {"user"})
             \/ u \notin BadPrompts /\ Has(to_worker[v], u, {"tokenize"})
    <3>1. CASE w \in Tokenizers
      <4>1. Joined(to_worker[w], asked, to_worker'[w]) /\ Joined(to_sched'[w], to_sched[w], f)
            /\ \A v \in Tokenizers \ {w} :
                 to_worker'[v] = to_worker[v] /\ to_sched'[v] = to_sched[v]
        BY <1>5, <3>1
      <4>2. \A u, K : Has(to_worker'[w], u, K) \/ Has(asked, u, K) => Has(to_worker[w], u, K)
        BY <4>1 DEF Joined
      <4>3. \A u : Has(to_sched'[w], u, {"user"}) =>
              Has(to_sched[w], u, {"user"}) \/ Has(f, u, {"user"})
        BY <4>1 DEF Joined
      <4>4. \A u : Has(f, u, {"user"}) => u \notin BadPrompts /\ Has(asked, u, {"tokenize"})
        BY <1>5 DEF Forwards
      <4> QED BY <4>1, <4>2, <4>3, <4>4
    <3>2. CASE w \notin Tokenizers
      BY <1>5, <3>2
    <3> QED BY <3>1, <3>2
  <2> QED BY <1>1, <1>4, <2>1, <2>2 DEF OrdersOK
<1>13. InFlightOK'
  <2>1. \A u : Has(to_detok', u, Counted) => Has(to_detok, u, Counted)
    BY <1>5, <1>6 DEF Joined
  <2>2. \A u : Has(Answers', u, Counted) => Has(Answers, u, Counted) \/ Has(to_detok, u, Counted)
    <3>1. CASE w = Detokenizer
      <4>1. Joined(Answers', Answers, y) /\ Joined(to_detok, told, to_detok')
        BY <1>5, <1>6, <3>1 DEF Answers
      <4>2. \A u : Has(y, u, Counted) <=> Has(told, u, Counted)
        BY <1>5 DEF Answering
      <4> QED BY <4>1, <4>2 DEF Joined
    <3>2. CASE w # Detokenizer
      BY <1>5, <3>2 DEF Answers, Workers
    <3> QED BY <3>1, <3>2
  <2>3. stage' = stage /\ dead' = dead /\ stats' = stats
    BY <1>4 DEF backend
  <2> QED BY <1>1, <2>1, <2>2, <2>3 DEF InFlightOK, Served
<1>14. DecodeOK'
  <2>1. PICK A : A = {u \in Uids : Awaited(u)}
    OBVIOUS
  <2>2. Followed(to_detok, A) /\ \A u \in decode_map : u \in A \/ Has(to_detok, u, Ends)
    BY <1>1, <2>1 DEF DecodeOK, FrontendTypes
  <2>3. {u \in Uids : Awaited(u)}' = A
    BY <1>4, <2>1 DEF Awaited, Served, backend
  <2>4. CASE w = Detokenizer
    <3>1. PICK left \in Seq(Replies) : left = to_detok'
      BY <1>5, QueueOf DEF QueueTypes
    <3>2. Followed(told \o left, A)
      BY <1>6, <2>2, <2>4, <3>1
    <3>3. /\ Followed(left, A)
          /\ \A u : Has(told, u, {"token"}) => u \in A \/ Has(told, u, Ends) \/ Has(left, u, Ends)
      BY ONLY <3>2, told \in Seq(Replies), left \in Seq(Replies), CutFollowed
    <3>4. \A u : Has(to_detok, u, Ends) => Has(told, u, Ends) \/ Has(left, u, Ends)
      BY <1>6, <2>4, <3>1 DEF Joined
    <3>5. \A u \in decode_map' : u \in A \/ Has(left, u, Ends)
      BY <1>6, <2>2, <2>4, <3>3, <3>4
    <3>6. Followed(to_detok', A) /\ \A u \in decode_map' : u \in A \/ Has(to_detok', u, Ends)
      BY <3>1, <3>3, <3>5
    <3> QED BY <2>3, <3>6 DEF DecodeOK
  <2>5. CASE w # Detokenizer
    BY <1>4, <1>5, <2>5, DecodeStays DEF FlowInv, backend
  <2> QED BY <2>4, <2>5
<1> QED BY <1>5, <1>7, <1>8, <1>9, <1>10, <1>11, <1>12, <1>13, <1>14 DEF FlowInv, FlowTypes

-----------------------------------------------------------------------------
(***************************************************************************)
(* The invariant of the flow.                                              *)
(***************************************************************************)

\* Nothing has happened yet.
LEMMA FlowStarts ==
  ASSUME Init
  PROVE  FlowInv
<1>1. /\ maintenance_state = "loading" /\ fatal_error = FALSE /\ listening = ListenerStarted
      /\ uid_counter = 0 /\ ack_map = {} /\ acks = [u \in Uids |-> {}]
      /\ gate_free = GateLimit /\ gate_uids = {}
      /\ http = [u \in Uids |-> "none"] /\ abort_tasks = [u \in Uids |-> {}]
      /\ active_rebuild = 0 /\ rebuild_futures = {} /\ last_rebuild_id = 0
      /\ prepare = "no" /\ sealed = <<>> /\ stop_rounds = 0
      /\ supervisor = "loading" /\ loop_calls = <<>>
      /\ to_worker = [w \in Tokenizers |-> <<>>] /\ to_sched = [w \in Tokenizers |-> <<>>]
      /\ to_detok = <<>> /\ to_front = [w \in Workers |-> <<>>]
      /\ decode_map = {} /\ rebuild_msg = 0 /\ dead = {}
  BY DEF Init
<1>2. stats = [inflight |-> {}, aborting |-> {}, completed |-> {},
               prompts |-> [u \in Uids |-> 0], tokens |-> [u \in Uids |-> 0]]
  BY DEF Init
<1>3. /\ stage = [u \in Uids |-> "absent"] /\ tombstones = {} /\ pending_abort_acks = {}
      /\ admitted = {} /\ emitted = [u \in Uids |-> 0] /\ queued_rebuild = FALSE
  BY DEF Init, Backend!Init
<1>4. /\ \A w \in Workers : to_front[w] = <<>>
      /\ \A w \in Tokenizers : to_worker[w] = <<>> /\ to_sched[w] = <<>>
      /\ to_detok = <<>> /\ Answers = <<>>
  BY <1>1 DEF Answers, Workers
<1>5. \A u, K : ~Has(<<>>, u, K) /\ Count(<<>>, u, K) = 0 /\ EndsLast(<<>>)
  BY NoMessage
<1>6. ~Carries(<<>>) /\ \A r : CarriesOne(<<>>, r)
  BY DEF Carries, CarriesOne
<1>7. FrontendTypes
  <2>1. stats \in Statistics /\ stats.aborting \subseteq stats.inflight
    BY <1>2 DEF Statistics
  <2>2. /\ acks \in [Uids -> SUBSET {"reply", "finished"}]
        /\ http \in [Uids -> {"none", "registered", "waiting", "answered", "failed", "left", "broken"}]
        /\ abort_tasks \in [Uids -> SUBSET {"client", "stop"}]
    BY <1>1
  <2>3. uid_counter \in 0 .. Cardinality(Uids) /\ last_rebuild_id \in 0 .. MaxRebuilds
        /\ gate_free \in Nat
    BY <1>1, UidsFacts, RequestFlowAssumption
  <2>4. listening \in BOOLEAN /\ fatal_error \in BOOLEAN
    BY <1>1, RequestFlowAssumption
  <2> QED BY <1>1, <2>1, <2>2, <2>3, <2>4 DEF FrontendTypes
<1>8. QueueTypes
  <2>1. \A M : <<>> \in Seq(M)
    OBVIOUS
  <2> QED BY <1>1, <2>1 DEF QueueTypes
<1>9. EngineTypes
  BY <1>1, <1>3 DEF EngineTypes
<1>10. EngineOK
  BY <1>3, RequestFlowAssumption DEF EngineOK, Served
<1>11. RepliesOK
  <2>1. \A w \in Workers : DOMAIN to_front[w] = {}
    BY <1>4
  <2> QED BY <1>4, <1>5, <2>1 DEF RepliesOK
<1>12. CountsOK
  <2>1. \A u \in Uids : stats.tokens[u] = 0 /\ stats.prompts[u] = 0 /\ emitted[u] = 0
    BY <1>2, <1>3
  <2> QED BY <1>3, <1>4, <1>5, <2>1 DEF CountsOK
<1>13. OrdersOK
  BY <1>1, <1>4, <1>5 DEF OrdersOK
<1>14. InFlightOK
  BY <1>3, <1>4, <1>5 DEF InFlightOK, Served
<1>15. SealOK /\ DeathOK
  BY <1>1 DEF SealOK, DeathOK
<1>16. GateOK
  <2>1. Cardinality({}) = 0
    BY FS_EmptySet
  <2> QED BY <1>1, <1>2, <2>1, RequestFlowAssumption DEF GateOK
<1>17. DecodeOK
  <2>1. \A A : Followed(<<>>, A)
    BY DEF Followed
  <2> QED BY <1>1, <2>1 DEF DecodeOK
<1>18. RebuildOK
  <2>1. RebuildAt = {}
    BY <1>1, <1>4, <1>6 DEF RebuildAt
  <2>2. active_rebuild <= last_rebuild_id
    BY <1>1
  <2>3. /\ \A w \in Tokenizers :
             CarriesOne(to_worker[w], active_rebuild) /\ CarriesOne(to_sched[w], active_rebuild)
        /\ \A w \in Workers : CarriesOne(to_front[w], active_rebuild)
        /\ CarriesOne(to_detok, active_rebuild)
    BY <1>4, <1>6
  <2>4. queued_rebuild = (rebuild_msg # 0) /\ rebuild_msg \in {0, active_rebuild}
        /\ ~(active_rebuild # 0)
    BY <1>1, <1>3
  <2> QED BY ONLY <2>1, <2>2, <2>3, <2>4 DEF RebuildOK
<1> QED BY <1>7, <1>8, <1>9, <1>10, <1>11, <1>12, <1>13, <1>14, <1>15, <1>16, <1>17, <1>18
        DEF FlowInv, FlowTypes

\* A step that changes nothing.
LEMMA FlowRests ==
  ASSUME FlowInv, UNCHANGED vars
  PROVE  FlowInv'
<1>1. UNCHANGED <<maintenance_state, listening, uid_counter, ack_map, acks, gate_free, gate_uids,
                  stats, http, abort_tasks, active_rebuild, rebuild_futures, last_rebuild_id,
                  prepare, sealed, stop_rounds, fatal_error, supervisor, loop_calls, queues,
                  decode_map, dead, backend>>
  BY DEF vars, requests, rebuilds, stopping, watching
<1>2. UNCHANGED <<to_worker, to_detok, to_sched, to_front, stage, tombstones, pending_abort_acks,
                  admitted, emitted, queued_rebuild, rebuild_msg>>
  BY <1>1 DEF queues, backend
<1>3. FrontendTypes' /\ QueueTypes' /\ EngineTypes'
  BY <1>1, QueuesStay, EngineTypesStay DEF FlowInv, FlowTypes, FrontendTypes
<1>4. EngineOK' /\ RepliesOK' /\ CountsOK'
  BY <1>1, <1>2, EngineStays, RepliesStay, CountsStay DEF FlowInv
<1>5. OrdersOK' /\ InFlightOK'
  BY <1>1, <1>2, OrdersStay, InFlightStays DEF FlowInv, OrdersOK
<1>6. SealOK' /\ GateOK' /\ DeathOK'
  BY <1>1, SealStays, GateStays, DeathStays DEF FlowInv
<1>7. DecodeOK' /\ RebuildOK'
  BY <1>1, <1>2, DecodeStays, RebuildStays DEF FlowInv
<1> QED BY <1>3, <1>4, <1>5, <1>6, <1>7 DEF FlowInv, FlowTypes

\* Every step keeps the invariant.
LEMMA FlowSteps ==
  ASSUME FlowInv, [Next]_vars
  PROVE  FlowInv'
<1>1. CASE \E u \in Uids : Client(u) \/ Handler(u)
  <2>1. PICK u \in Uids : Client(u) \/ Handler(u)
    BY <1>1
  <2>2. Client(u) => FlowInv'
    BY AdmitKeeps, SubmitFailsKeeps, EntriesKeep DEF Client
  <2>3. Handler(u) => FlowInv'
    BY SubmitKeeps, EntriesKeep, AbortUserKeeps DEF Handler
  <2> QED BY <2>1, <2>2, <2>3
<1>2. CASE \E w \in Workers : Listener(w) \/ WorkerTurn(w)
  BY <1>2, ListenReplyKeeps, ResolveRebuildKeeps, WorkerTurnKeeps DEF Listener
<1>3. CASE SchedulerSteps
  BY <1>3, ReceivesKeeps, AdmitsKeeps, PublishesKeeps, RebuildsKeeps DEF SchedulerSteps
<1>4. CASE DispatchRebuild \/ DispatchFails
  BY <1>4, DispatchKeeps
<1>5. CASE \E r \in RebuildIds : RebuildTimeout(r)
  BY <1>5, TimeoutKeeps
<1>6. CASE PrepareStop
  BY <1>6, PrepareKeeps
<1>7. CASE Barrier \/ AbortTimeout
  BY <1>7, BarrierKeeps DEF Barrier
<1>8. CASE Supervisor
  BY <1>8, SupervisorKeeps, FailAllKeeps DEF Supervisor
<1>9. CASE \E p \in Processes : Dies(p)
  BY <1>9, DiesKeeps
<1>10. CASE Quiescent \/ UNCHANGED vars
  BY <1>10, FlowRests DEF Quiescent
<1> QED BY <1>1, <1>2, <1>3, <1>4, <1>5, <1>6, <1>7, <1>8, <1>9, <1>10 DEF Next

\* In every state, whatever the number of requests, workers, rebuilds and deaths.
THEOREM FlowInvariant == Spec => []FlowInv
<1>1. Init => FlowInv
  BY FlowStarts
<1>2. FlowInv /\ [Next]_vars => FlowInv'
  BY FlowSteps
<1> QED BY <1>1, <1>2, PTL DEF Spec

-----------------------------------------------------------------------------
(***************************************************************************)
(* What it gives.                                                          *)
(***************************************************************************)

\* Among the messages on their way up there is one of these kinds for u.
LEMMA UpstreamIs ==
  ASSUME NEW u, NEW K
  PROVE  (\E m \in Upstream : m.id = u /\ m.kind \in K) =>
           Has(to_detok, u, K) \/ \E w \in Workers : Has(to_front[w], u, K)
BY DEF Upstream, Has

\* Types, with the bounds the model's types state: one prompt, MaxTokens tokens and the
\* gate's slots.
THEOREM FlowTypeOK == Spec => []TypeOK
<1>1. FlowInv => TypeOK
  <2>1. SUFFICES ASSUME FlowInv PROVE TypeOK
    OBVIOUS
  <2>2. FrontendTypes /\ QueueTypes /\ EngineTypes /\ EngineOK /\ CountsOK /\ GateOK
    BY <2>1 DEF FlowInv, FlowTypes
  <2>3. stats \in Statistics
    BY <2>2 DEF FrontendTypes
  <2>4. ASSUME NEW u \in Uids
        PROVE  stats.prompts[u] \in 0 .. 1 /\ stats.tokens[u] \in 0 .. MaxTokens
    <3>1. stats.prompts[u] \in Nat /\ stats.tokens[u] \in Nat
      BY <2>3 DEF Statistics
    <3>2. \A K : Count(Answers, u, K) \in Nat /\ Count(to_detok, u, K) \in Nat
      BY <2>2, QueueOf, WhereFinite
    <3>3. PICK a, b, c, d : /\ a = Count(Answers, u, Tokens) /\ b = Count(to_detok, u, Tokens)
                            /\ c = Count(Answers, u, {"admitted"})
                            /\ d = Count(to_detok, u, {"admitted"})
      OBVIOUS
    <3>4. a \in Nat /\ b \in Nat /\ c \in Nat /\ d \in Nat
      BY <3>2, <3>3
    <3>5. stats.tokens[u] + a + b = emitted[u]
          /\ stats.prompts[u] + c + d = IF u \in admitted THEN 1 ELSE 0
      BY <2>2, <3>3 DEF CountsOK
    <3>6. emitted[u] <= MaxTokens /\ emitted[u] \in Nat /\ MaxTokens \in Nat
      BY <2>2, RequestFlowAssumption DEF EngineOK, EngineTypes
    <3> QED BY ONLY <3>1, <3>4, <3>5, <3>6
  <2>5. stats.prompts \in [Uids -> 0 .. 1] /\ stats.tokens \in [Uids -> 0 .. MaxTokens]
    BY <2>3, <2>4 DEF Statistics
  <2>6. gate_free \in 0 .. GateLimit
    <3>1. Cardinality(gate_uids) \in Nat
      BY <2>2, UidsFacts DEF FrontendTypes
    <3> QED BY <2>2, <3>1, RequestFlowAssumption DEF FrontendTypes, GateOK
  <2>7. stats.inflight \subseteq Uids /\ stats.completed \subseteq Uids
    BY <2>3 DEF Statistics
  <2> QED BY <2>2, <2>5, <2>6, <2>7 DEF TypeOK, FrontendTypes
<1> QED BY <1>1, FlowInvariant, PTL

\* While no worker has died, a request stays in flight for the statistics as long as the engine
\* serves it or a token of it is on its way to the listener.
THEOREM InFlightToTheEnd == Spec => [](dead = {} => InFlightUntilLastToken)
<1>1. FlowInv => (dead = {} => InFlightUntilLastToken)
  <2>1. SUFFICES ASSUME FlowInv, dead = {}, NEW u \in Uids,
                        \/ stage[u] \in {"held", "closing"}
                        \/ \E m \in Upstream : m.id = u /\ m.kind \in {"admitted", "token", "last"}
                 PROVE  u \in stats.inflight
    BY DEF InFlightUntilLastToken
  <2>2. Counted = {"admitted", "token", "last"}
    BY DEF Counted, Tokens
  <2>3. Served(u) \/ Has(to_detok, u, Counted) \/ \E w \in Workers : Has(to_front[w], u, Counted)
    BY <2>1, <2>2, UpstreamIs DEF Served
  <2>4. ASSUME NEW w \in Workers, Has(to_front[w], u, Counted) PROVE w = Detokenizer
    <3>1. ~Has(to_front[w], u, Counted) \/ w = Detokenizer
      BY <2>1, <2>2 DEF FlowInv, RepliesOK, Has
    <3> QED BY <2>4, <3>1
  <2>5. Served(u) \/ Has(to_detok, u, Counted) \/ Has(Answers, u, Counted)
    BY <2>3, <2>4 DEF Answers
  <2> QED BY <2>1, <2>5 DEF FlowInv, InFlightOK
<1> QED BY <1>1, FlowInvariant, PTL

\* While no worker has died, the totals a stop seals are final, and they are the engine's: no
\* token it sampled is missing.
THEOREM SealedTotals == Spec => [](dead = {} => SealedTotalsFinal)
<1>1. FlowInv => (dead = {} => SealedTotalsFinal)
  <2>1. SUFFICES ASSUME FlowInv, dead = {}, sealed # <<>>
                 PROVE  sealed = Totals /\ stats.tokens = emitted
    BY DEF SealedTotalsFinal
  <2>2. sealed = Totals /\ stats.inflight = {}
    BY <2>1 DEF FlowInv, SealOK
  <2>3. ASSUME NEW u \in Uids PROVE stats.tokens[u] = emitted[u]
    <3>1. ~Has(to_detok, u, Counted) /\ ~Has(Answers, u, Counted)
      BY <2>1, <2>2 DEF FlowInv, InFlightOK
    <3>2. ~Has(to_detok, u, Tokens) /\ ~Has(Answers, u, Tokens)
      BY <3>1 DEF Has, Counted
    <3>3. to_detok \in Seq(Replies) /\ Answers \in Seq(Replies)
      BY <2>1, QueueOf DEF FlowInv, FlowTypes
    <3>4. Count(to_detok, u, Tokens) = 0 /\ Count(Answers, u, Tokens) = 0
      BY <3>2, <3>3, WhereFinite
    <3>5. stats.tokens[u] \in Nat
      BY <2>1 DEF FlowInv, FlowTypes, FrontendTypes, Statistics
    <3> QED BY <2>1, <3>4, <3>5 DEF FlowInv, CountsOK
  <2>4. stats.tokens \in [Uids -> Nat] /\ emitted \in [Uids -> Nat]
    BY <2>1 DEF FlowInv, FlowTypes, FrontendTypes, EngineTypes, Statistics
  <2>5. stats.tokens = emitted
    BY <2>3, <2>4
  <2> QED BY <2>2, <2>5
<1> QED BY <1>1, FlowInvariant, PTL

\* While the backend owns a rebuild, the gate is closed, and no other one is anywhere.
THEOREM RebuildOwnsTheGate == Spec => []RebuildOwnsGate
<1>1. FlowInv => RebuildOwnsGate
  <2>1. SUFFICES ASSUME FlowInv PROVE RebuildOwnsGate
    OBVIOUS
  <2>2. RebuildOK
    BY <2>1 DEF FlowInv
  <2>3. \A s : CarriesOne(s, active_rebuild) =>
          \A i \in DOMAIN s : s[i].kind \in {"rebuild", "rebuilt"} => s[i].id = active_rebuild
    BY DEF CarriesOne, Rebuilding
  <2>4. \A m \in Pipes : m.kind \in {"rebuild", "rebuilt"} => m.id = active_rebuild
    <3>1. ASSUME NEW m \in Pipes, m.kind \in {"rebuild", "rebuilt"} PROVE m.id = active_rebuild
      <4>1. \/ \E i \in DOMAIN to_detok : m = to_detok[i]
            \/ \E w \in Workers : \E i \in DOMAIN to_front[w] : m = to_front[w][i]
            \/ \E w \in Tokenizers : \E i \in DOMAIN to_worker[w] : m = to_worker[w][i]
            \/ \E w \in Tokenizers : \E i \in DOMAIN to_sched[w] : m = to_sched[w][i]
        BY <3>1 DEF Pipes, Upstream
      <4> QED BY <2>2, <2>3, <3>1, <4>1 DEF RebuildOK
    <3> QED BY <3>1
  <2> QED BY <2>2, <2>4 DEF RebuildOwnsGate, RebuildOK
<1> QED BY <1>1, FlowInvariant, PTL

\* Every decode status in the detokenizer will be dropped: the end of its request has still to
\* pass it.
THEOREM DecodeStatusesEnd == Spec => []NoDecodeLeak
<1>1. FlowInv => NoDecodeLeak
  BY DEF FlowInv, DecodeOK, NoDecodeLeak, Awaited, Served, Has, Ends, Finished
<1> QED BY <1>1, FlowInvariant, PTL

\* With sends that do not fail and no death, the gate bounds what the engine serves.
THEOREM GateBoundsEngine == Spec => [](dead = {} /\ ~SendFails => GateBoundsBackend)
<1>1. FlowInv => (dead = {} /\ ~SendFails => GateBoundsBackend)
  <2>1. SUFFICES ASSUME FlowInv, dead = {}, ~SendFails, GateLimit > 0
                 PROVE  /\ gate_free + Cardinality(gate_uids) = GateLimit
                        /\ Cardinality({u \in Uids : stage[u] \in {"held", "closing"}}) <= GateLimit
    BY DEF GateBoundsBackend
  <2>2. gate_free + Cardinality(gate_uids) = GateLimit /\ gate_uids = stats.inflight
    BY <2>1 DEF FlowInv, GateOK
  <2>3. gate_free \in Nat /\ gate_uids \subseteq Uids
    BY <2>1 DEF FlowInv, FlowTypes, FrontendTypes
  <2>4. PICK S : S = {u \in Uids : stage[u] \in {"held", "closing"}}
    OBVIOUS
  <2>5. S \subseteq gate_uids
    BY <2>1, <2>2, <2>4 DEF FlowInv, InFlightOK, Served
  <2>6. IsFiniteSet(gate_uids) /\ Cardinality(gate_uids) \in Nat
    BY <2>3, UidsFacts
  <2>7. IsFiniteSet(S) /\ Cardinality(S) <= Cardinality(gate_uids)
    BY <2>5, <2>6, FS_Subset
  <2>8. Cardinality(S) \in Nat
    BY <2>7, FS_CardinalityType
  <2> QED BY <2>2, <2>3, <2>4, <2>6, <2>7, <2>8, RequestFlowAssumption
<1> QED BY <1>1, FlowInvariant, PTL

\* Admission closed by a stop or by a failure never opens again: neither a rebuild's answer or
\* timeout, nor a backend that gets ready late, opens it.
THEOREM AdmissionClosedForGood == Spec => AdmissionStaysClosed
<1> DEFINE Closed == /\ maintenance_state = "stopping" => maintenance_state' \in {"stopping", "failed"}
                     /\ maintenance_state = "failed" => maintenance_state' = "failed"
<1>1. [Next]_vars => [Closed]_vars
  <2>1. SUFFICES ASSUME Next \/ UNCHANGED vars PROVE Closed
    OBVIOUS
  <2>2. ASSUME UNCHANGED maintenance_state PROVE Closed
    BY <2>2
  <2>3. CASE \E u \in Uids : Client(u) \/ Handler(u)
    <3>1. PICK u \in Uids : Client(u) \/ Handler(u)
      BY <2>3
    <3>2. Client(u) => UNCHANGED maintenance_state
      BY DEF Client, AdmitGeneration, SubmitFails, ClientLeaves
    <3>3. Handler(u) => UNCHANGED maintenance_state
      BY DEF Handler, Submit, TakeAcks, TakeAcksFails, abort_user
    <3> QED BY <2>2, <3>1, <3>2, <3>3
  <2>4. CASE \E w \in Workers : Listener(w) \/ WorkerTurn(w)
    <3>1. PICK w \in Workers : Listener(w) \/ WorkerTurn(w)
      BY <2>4
    <3>2. CASE ResolveRebuild(w)
      BY <3>2 DEF ResolveRebuild, AfterRebuild
    <3>3. CASE ListenReply(w) \/ WorkerTurn(w)
      BY <2>2, <3>3 DEF ListenReply, WorkerTurn
    <3> QED BY <3>1, <3>2, <3>3 DEF Listener
  <2>5. CASE SchedulerSteps
    BY <2>2, <2>5 DEF SchedulerSteps, SchedulerReceives, SchedulerAdmits, SchedulerPublishes,
                      SchedulerRebuilds, SchedulerRuns
  <2>6. CASE DispatchRebuild \/ DispatchFails
    BY <2>6 DEF DispatchRebuild, DispatchFails, BeginRebuild
  <2>7. CASE \E r \in RebuildIds : RebuildTimeout(r)
    BY <2>2, <2>7 DEF RebuildTimeout
  <2>8. CASE PrepareStop
    BY <2>8 DEF PrepareStop
  <2>9. CASE Barrier \/ AbortTimeout
    BY <2>2, <2>9 DEF Barrier, AbortInFlight, AbortsSent, AbortTimeout, Seal, Waiting
  <2>10. CASE Supervisor
    BY <2>10 DEF Supervisor, MarkReady, MarkFailed, FailPendingRebuilds, FailInflightRequests,
                 ResolveAll, FailAll
  <2>11. CASE \E p \in Processes : Dies(p)
    BY <2>2, <2>11 DEF Dies
  <2>12. CASE Quiescent \/ UNCHANGED vars
    BY <2>2, <2>12 DEF Quiescent, vars
  <2> QED BY <2>1, <2>3, <2>4, <2>5, <2>6, <2>7, <2>8, <2>9, <2>10, <2>11, <2>12 DEF Next
<1> QED BY <1>1, PTL DEF Spec, AdmissionStaysClosed

==============================================================================
