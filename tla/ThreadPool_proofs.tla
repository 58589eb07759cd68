-------------------------- MODULE ThreadPool_proofs --------------------------
(***************************************************************************)
(* Proofs about ThreadPool: a handle outlives its thread, a thread serves  *)
(* what it was given, and a request that is handed over is not lost, for    *)
(* every number of threads and requests and all settings of the pool.      *)
(***************************************************************************)
EXTENDS ThreadPool, FiniteSetTheorems, SequenceTheorems, TLAPS

USE DEF pools, handles, cleaning

-----------------------------------------------------------------------------
(* Lists.                                                                  *)

\* The number of elements of P up to i grows with i.
LEMMA RankGrows ==
    ASSUME NEW P, P \subseteq Nat, IsFiniteSet(P),
           NEW i \in P, NEW j \in P, i < j
    PROVE  Cardinality({l \in P : l <= i}) # Cardinality({l \in P : l <= j})
<1> DEFINE A == {l \in P : l <= i}
           B == {l \in P : l <= j}
<1>0. \A l \in P : l \in Nat
  OBVIOUS
<1>1. A \subseteq B /\ B \subseteq P /\ j \in B /\ j \notin A
  <2>1. \A l \in P : l <= i => l <= j
    BY <1>0
  <2>2. i \in Nat /\ j \in Nat /\ j <= j /\ ~ (j <= i)
    BY <1>0
  <2> QED
    BY <2>1, <2>2
<1> HIDE DEF A, B
<1>2. IsFiniteSet(B)
  BY <1>1, FS_Subset
<1>3. Cardinality(A) # Cardinality(B)
  BY <1>1, <1>2, FS_Subset
<1> QED
  BY <1>3 DEF A, B

\* The elements of P have the ranks 1 .. n, each of them one.
LEMMA Ranks ==
    ASSUME NEW P, P \subseteq Nat, IsFiniteSet(P)
    PROVE  /\ \A i \in P : Cardinality({j \in P : j <= i}) \in 1 .. Cardinality(P)
           /\ \A k \in 1 .. Cardinality(P) :
                 \E i \in P : Cardinality({j \in P : j <= i}) = k
           /\ \A i, l \in P :
                 Cardinality({j \in P : j <= i}) = Cardinality({j \in P : j <= l})
                    => i = l
<1> DEFINE n == Cardinality(P)
           upto(i) == {j \in P : j <= i}
           rank == [i \in P |-> Cardinality(upto(i))]
<1>1. \A i \in P : upto(i) \subseteq P /\ i \in upto(i)
  OBVIOUS
<1>2. n \in Nat
  BY FS_CardinalityType
<1>3. ASSUME NEW i \in P PROVE Cardinality(upto(i)) \in 1 .. n
  <2> HIDE DEF upto
  <2>1. IsFiniteSet(upto(i)) /\ Cardinality(upto(i)) <= n
    BY <1>1, FS_Subset
  <2>2. Cardinality(upto(i)) \in Nat /\ Cardinality(upto(i)) # 0
    BY <1>1, <2>1, FS_CardinalityType, FS_EmptySet
  <2> QED
    BY <1>2, <2>1, <2>2
<1>4. rank \in [P -> 1 .. n]
  BY <1>3
<1>5. \A i, l \in P : Cardinality(upto(i)) = Cardinality(upto(l)) => i = l
  <2> SUFFICES ASSUME NEW i \in P, NEW l \in P, i # l
               PROVE  Cardinality(upto(i)) # Cardinality(upto(l))
    OBVIOUS
  <2>1. i < l \/ l < i
    OBVIOUS
  <2> QED
    BY <2>1, RankGrows
<1> HIDE DEF upto
<1>6. rank \in Injection(P, 1 .. n)
  BY <1>4, <1>5 DEF Injection, IsInjective
<1>7. IsFiniteSet(1 .. n) /\ Cardinality(1 .. n) = n
  BY <1>2, FS_Interval
<1>8. rank \in Surjection(P, 1 .. n)
  BY <1>6, <1>7, FS_Injection
<1>9. \A k \in 1 .. n : \E i \in P : Cardinality(upto(i)) = k
  BY <1>8 DEF Surjection
<1> QED
  BY <1>3, <1>5, <1>9 DEF upto

\* There is a least element: the one of rank 1.
LEMMA LeastExists ==
    ASSUME NEW P, P \subseteq Nat, IsFiniteSet(P), P # {}
    PROVE  \E k \in P : \A j \in P : k <= j
<1> DEFINE upto(i) == {j \in P : j <= i}
<1>1. Cardinality(P) \in Nat /\ Cardinality(P) # 0
  BY FS_CardinalityType, FS_EmptySet
<1>2. PICK k \in P : Cardinality(upto(k)) = 1
  <2>1. 1 \in 1 .. Cardinality(P)
    BY <1>1
  <2> QED
    BY <2>1, Ranks
<1>3. ASSUME NEW j \in P, ~ (k <= j) PROVE FALSE
  <2>0. \A l \in P : l \in Nat
    OBVIOUS
  <2>1. upto(j) \subseteq upto(k) /\ j # k
    <3>1. j < k
      BY <1>3, <2>0
    <3>2. \A l \in P : l <= j => l <= k
      BY <2>0, <3>1
    <3>3. upto(j) \subseteq upto(k)
      BY <3>2
    <3>4. j # k
      BY <2>0, <3>1
    <3> QED
      BY <3>3, <3>4
  <2>2. IsFiniteSet(upto(k))
    BY FS_Subset
  <2>3. Cardinality(upto(j)) \in 1 .. Cardinality(P)
    BY Ranks
  <2>4. Cardinality(upto(j)) <= 1
    <3> HIDE DEF upto
    <3> QED
      BY <1>2, <2>1, <2>2, FS_Subset
  <2>5. Cardinality(upto(j)) = Cardinality(upto(k))
    BY <1>1, <1>2, <2>3, <2>4
  <2>6. j = k
    <3>1. \A i, l \in P : Cardinality({m \in P : m <= i}) = Cardinality({m \in P : m <= l})
             => i = l
      BY Ranks
    <3> QED
      BY <2>5, <3>1
  <2> QED
    BY <2>1, <2>6
<1> QED
  BY <1>3

\* What Only returns.
LEMMA OnlyProperties ==
    ASSUME NEW S, NEW s \in Seq(S), NEW T
    PROVE  /\ Only(s, T) \in Seq(S)
           /\ Len(Only(s, T)) <= Len(s)
           /\ Range(Only(s, T)) = Range(s) \cap T
<1> DEFINE P == {i \in DOMAIN s : s[i] \in T}
           n == Cardinality(P)
           place(k) == CHOOSE i \in P : Cardinality({j \in P : j <= i}) = k
<1>1. P \subseteq 1 .. Len(s) /\ Len(s) \in Nat
  BY LenProperties
<1>2. IsFiniteSet(1 .. Len(s)) /\ Cardinality(1 .. Len(s)) = Len(s)
  BY <1>1, FS_Interval
<1>3. IsFiniteSet(P) /\ n \in Nat /\ n <= Len(s)
  BY <1>1, <1>2, FS_Subset, FS_CardinalityType
<1>4. P \subseteq Nat
  BY <1>1
<1>5. \A k \in 1 .. n : place(k) \in P
  <2> HIDE DEF P
  <2>1. \A k \in 1 .. n : \E i \in P : Cardinality({j \in P : j <= i}) = k
    BY <1>3, <1>4, Ranks
  <2> QED
    BY <2>1
<1>6. Only(s, T) = [k \in 1 .. n |-> s[place(k)]]
  BY DEF Only
<1> HIDE DEF place
<1>7. \A k \in 1 .. n : s[place(k)] \in S
  BY <1>1, <1>5, ElementOfSeq
<1>8. Only(s, T) \in Seq(S) /\ Len(Only(s, T)) = n
  BY <1>3, <1>6, <1>7
<1>9. \A i \in P : \E k \in 1 .. n : place(k) = i
  <2> SUFFICES ASSUME NEW i \in P PROVE \E k \in 1 .. n : place(k) = i
    OBVIOUS
  <2> DEFINE upto(l) == {j \in P : j <= l}
             k == Cardinality(upto(i))
  <2>1. k \in 1 .. n
    BY <1>3, <1>4, Ranks
  <2>2. place(k) \in P /\ Cardinality(upto(place(k))) = k
    BY DEF place
  <2>3. place(k) = i
    BY <1>3, <1>4, <2>2, Ranks
  <2> QED
    BY <2>1, <2>3
<1>10. Range(Only(s, T)) = Range(s) \cap T
  <2>1. ASSUME NEW x \in Range(Only(s, T)) PROVE x \in Range(s) \cap T
    BY <1>5, <1>6, <2>1 DEF Range
  <2>2. ASSUME NEW x \in Range(s) \cap T PROVE x \in Range(Only(s, T))
    BY <1>6, <1>9, <2>2 DEF Range
  <2> QED
    BY <2>1, <2>2
<1> QED
  BY <1>3, <1>8, <1>10

\* What SetToSeq returns.
LEMMA SetToSeqProperties ==
    ASSUME NEW S, IsFiniteSet(S)
    PROVE  /\ SetToSeq(S) \in Seq(S)
           /\ Len(SetToSeq(S)) = Cardinality(S)
           /\ Range(SetToSeq(S)) = S
<1> DEFINE n == Cardinality(S)
           f == SetToSeq(S)
<1>1. n \in Nat /\ ExistsBijection(1 .. n, S)
  BY FS_CardinalityType
<1>2. \E g \in [1 .. n -> S] : IsInjective(g)
  BY <1>1 DEF ExistsBijection, Bijection, Injection
<1>3. f \in [1 .. n -> S] /\ IsInjective(f)
  BY <1>2 DEF SetToSeq
<1> HIDE DEF f
<1>4. IsFiniteSet(1 .. n) /\ Cardinality(1 .. n) = n
  BY <1>1, FS_Interval
<1>5. f \in Injection(1 .. n, S)
  BY <1>3 DEF Injection
<1>6. f \in Surjection(1 .. n, S)
  BY <1>4, <1>5, FS_Injection
<1>7. Range(f) = S
  BY <1>3, <1>6 DEF Surjection, Range
<1> QED
  BY <1>1, <1>3, <1>7 DEF f

-----------------------------------------------------------------------------
(* The invariant.                                                          *)

\* What a thread's handle holds at each place of request_handler_thread.  A
\* thread that was asked to exit has no request, and one that has exited is
\* gone.
Located ==
    \A t \in Threads :
        /\ pc[t] \in {"serve", "fun", "request"} => request[t] # None
        /\ pc[t] \notin {"fun", "request"} => fun[t] = request[t]
        /\ pc[t] = "request" => fun[t] = None
        /\ pc[t] \in {"new", "exit", "gone"} => request[t] = None
        /\ status[t] = "running" =>
             semaphore[t] = IF pc[t] = "wait" /\ request[t] # None THEN 1 ELSE 0
        /\ pc[t] = "new" => status[t] = "running"
        /\ pc[t] \in {"exit", "gone"} => status[t] # "running"
        /\ status[t] # "running" => request[t] = None
        /\ status[t] = "exited" => pc[t] = "gone"

Listed == pool \in Seq(Threads)

\* The part of TypeOK that the handles are.
HandlesTyped ==
    /\ status \in [Threads -> {"running", "cancelled", "exited"}]
    /\ request \in [Threads -> Requests \cup {None}]
    /\ fun \in [Threads -> Requests \cup {None}]
    /\ request_count \in [Threads -> Nat]
    /\ semaphore \in [Threads -> 0 .. MaxPosts]

\* What Assign does to the rest.
AssignRest == left' \subseteq Requests /\ UNCHANGED <<clean, spare, served>>

PInv == TypeOK /\ Listed /\ HandlesOutliveThreads /\ Located

\* Handles of a list, and of a list with one more.
LEMMA PoolFacts ==
    ASSUME Listed
    PROVE  /\ Handles \subseteq Threads /\ IsFiniteSet(Handles)
           /\ Len(pool) \in Nat
           /\ Handles = {pool[k] : k \in 1 .. Len(pool)}
<1>1. Handles \in SUBSET Threads
  BY RangeOfSeq DEF Listed, Handles
<1>2. IsFiniteSet(Handles)
  BY <1>1, PoolAssumption, FS_Subset
<1> QED
  BY <1>1, <1>2, LenProperties, RangeEquality DEF Listed, Handles

\* The search goes through the handles: what it finds is one of them, and free.
LEMMA SearchFinds ==
    ASSUME Listed, next_pick \in Handles \cup {None}, Searched # <<>>
    PROVE  Head(Searched) \in Handles /\ Free(Head(Searched))
<1> DEFINE i == IF next_pick = None THEN 1
                ELSE CHOOSE k \in DOMAIN pool : pool[k] = next_pick
           T == {t \in Threads : Free(t)}
<1>1. Len(pool) \in Nat /\ DOMAIN pool = 1 .. Len(pool)
      /\ \A k \in 1 .. Len(pool) : pool[k] \in Handles
  BY LenProperties DEF Listed, Handles, Range
<1>2. i \in 1 .. Len(pool) + 1
  BY <1>1 DEF Handles, Range
<1> HIDE DEF i
<1>3. /\ SubSeq(pool, i, Len(pool)) \in Seq(Handles)
      /\ SubSeq(pool, 1, i - 1) \in Seq(Handles)
  BY <1>1, <1>2, SubSeqProperties
<1>4. SearchOrder \in Seq(Handles)
  BY <1>3, ConcatProperties DEF SearchOrder, i
<1>5. Searched \in Seq(Handles) /\ Range(Searched) = Range(SearchOrder) \cap T
  BY <1>4, OnlyProperties DEF Searched
<1>6. Head(Searched) \in Handles
  BY <1>5, HeadTailProperties
<1>7. Head(Searched) \in Range(Searched)
  <2>1. Len(Searched) \in Nat \ {0} /\ DOMAIN Searched = 1 .. Len(Searched)
    BY <1>5, EmptySeq, LenProperties
  <2>2. Head(Searched) = Searched[1]
    BY <1>5
  <2> QED
    BY <2>1, <2>2 DEF Range
<1> QED
  BY <1>5, <1>6, <1>7

\* The handle that follows one of the list is one of the list too.
LEMMA FollowingListed ==
    ASSUME Listed, NEW t \in Handles
    PROVE  Following(t, pool) \in Handles \cup {None}
<1>1. Len(pool) \in Nat /\ DOMAIN pool = 1 .. Len(pool)
      /\ \A k \in 1 .. Len(pool) : pool[k] \in Handles
  BY LenProperties DEF Listed, Handles, Range
<1>2. \E k \in DOMAIN pool : pool[k] = t
  BY DEF Handles, Range
<1> QED
  BY <1>1, <1>2 DEF Following

\* The place of the next search does not stay on a deleted handle.
LEMMA NextPickListed ==
    ASSUME Listed, next_pick \in Handles \cup {None}, NEW dead
    PROVE  NextPick(dead) \in (Handles \ dead) \cup {None}
<1> DEFINE after == {k \in DOMAIN pool :
                       pool[k] \notin dead
                       /\ \E i \in 1 .. k : pool[i] = next_pick}
<1>1. Len(pool) \in Nat /\ DOMAIN pool = 1 .. Len(pool)
      /\ \A k \in 1 .. Len(pool) : pool[k] \in Handles
  BY LenProperties DEF Listed, Handles, Range
<1>2. after \subseteq Nat /\ IsFiniteSet(after)
  <2>1. after \subseteq 1 .. Len(pool)
    BY <1>1
  <2> HIDE DEF after
  <2>2. IsFiniteSet(1 .. Len(pool))
    BY <1>1, FS_Interval
  <2>3. after \subseteq Nat
    BY <1>1, <2>1
  <2>4. IsFiniteSet(after)
    BY <2>1, <2>2, FS_Subset
  <2> QED
    BY <2>3, <2>4
<1>3. CASE next_pick \in dead /\ after # {}
  <2> DEFINE k == CHOOSE k \in after : \A j \in after : k <= j
  <2>1. k \in after
    <3> HIDE DEF after
    <3> QED
      BY <1>2, <1>3, LeastExists
  <2>2. NextPick(dead) = pool[k]
    BY <1>3 DEF NextPick
  <2> HIDE DEF k
  <2> QED
    BY <1>1, <2>1, <2>2
<1>4. CASE next_pick \notin dead \/ after = {}
  BY <1>4 DEF NextPick
<1> QED
  BY <1>3, <1>4

-----------------------------------------------------------------------------
(* The steps.                                                              *)

LEMMA PInvInit == Init => PInv
<1> SUFFICES ASSUME Init PROVE PInv
  OBVIOUS
<1>1. PICK first \in SUBSET Threads :
         /\ Cardinality(first) = start_threads
         /\ pool = SetToSeq(first)
         /\ pc = [t \in Threads |-> IF t \in first THEN "wait" ELSE "new"]
  BY DEF Init
<1>2. IsFiniteSet(first)
  BY PoolAssumption, FS_Subset
<1>3. pool \in Seq(first) /\ Len(pool) = start_threads /\ Handles = first
  BY <1>1, <1>2, SetToSeqProperties DEF Handles
<1>4. Spawned = first
  BY <1>1 DEF Spawned
<1>5. Listed
  BY <1>3, SeqMonotonic DEF Listed
<1>6. TypeOK
  BY <1>1, <1>3, <1>4, PoolAssumption DEF Init, TypeOK
<1>7. HandlesOutliveThreads /\ Located
  BY <1>1, <1>3, <1>4 DEF Init, HandlesOutliveThreads, Located
<1> QED
  BY <1>5, <1>6, <1>7 DEF PInv

\* Steps that leave the list alone.
LEMMA SamePool ==
    ASSUME PInv, UNCHANGED pool, Spawned' = Spawned,
           \A t \in Threads : pc[t] = "gone" => pc'[t] = "gone",
           next_pick' \in Handles \cup {None}
    PROVE  Listed' /\ Handles' = Handles /\ HandlesOutliveThreads'
<1>1. Handles' = Handles
  BY DEF Handles
<1> QED
  BY <1>1 DEF PInv, Listed, HandlesOutliveThreads, Spawned

LEMMA ThreadKeeps ==
    ASSUME PInv, NEW t \in Threads, Thread(t) PROVE PInv'
<1> USE DEF PInv, OnlyThread, Goes
<1>1. /\ UNCHANGED <<pool, next_pick>> /\ Spawned' = Spawned
      /\ \A u \in Threads : pc[u] = "gone" => pc'[u] = "gone"
  BY DEF Thread, Wake, Serve, Forget, Exit, Clear, TypeOK, Spawned
<1>2. Listed' /\ Handles' = Handles /\ HandlesOutliveThreads'
  BY <1>1, SamePool DEF HandlesOutliveThreads
<1>3. CASE Wake(t)
  <2>1. semaphore[t] - 1 \in 0 .. MaxPosts
    BY <1>3, PoolAssumption DEF Wake, TypeOK
  <2>2. semaphore' \in [Threads -> 0 .. MaxPosts]
    BY <1>3, <2>1 DEF Wake, TypeOK
  <2>3. pc' \in [Threads -> {"new", "wait", "serve", "fun", "request", "exit", "gone"}]
    BY <1>3 DEF Wake, TypeOK
  <2>4. TypeOK'
    BY <1>1, <1>2, <1>3, <2>2, <2>3 DEF Wake, TypeOK
  <2>5. Located'
    BY <1>3 DEF Wake, TypeOK, Located
  <2> QED
    BY <1>2, <2>4, <2>5
<1>4. CASE Serve(t)
  <2>1. TypeOK'
    BY <1>1, <1>2, <1>4 DEF Serve, TypeOK, Located
  <2>2. Located'
    BY <1>4 DEF Serve, TypeOK, Located
  <2> QED
    BY <1>2, <2>1, <2>2
<1>5. CASE Forget(t)
  <2>1. TypeOK'
    BY <1>1, <1>2, <1>5 DEF Forget, Clear, TypeOK
  <2>2. Located'
    BY <1>5 DEF Forget, Clear, TypeOK, Located
  <2> QED
    BY <1>2, <2>1, <2>2
<1>6. CASE Exit(t)
  <2>1. TypeOK'
    BY <1>1, <1>2, <1>6 DEF Exit, TypeOK
  <2>2. Located'
    BY <1>6 DEF Exit, TypeOK, Located
  <2> QED
    BY <1>2, <2>1, <2>2
<1> QED
  BY <1>3, <1>4, <1>5, <1>6 DEF Thread

\* A request is given to a thread that has none and is not on its way out.
LEMMA AssignKeeps ==
    ASSUME TypeOK, Located, NEW t \in Threads, NEW r \in Requests,
           request[t] = None, status[t] = "running",
           Assign(t, r), pc'[t] # "new",
           \A u \in Threads : \/ pc'[u] = pc[u]
                              \/ pc[u] = "new" /\ pc'[u] = "wait"
    PROVE  Located' /\ HandlesTyped' /\ AssignRest
<1>1. r # None
  BY PoolAssumption
<1>2. Posted(semaphore[t] + 1) = 1 /\ 1 \in 0 .. MaxPosts
  <2>1. semaphore[t] = 0
    BY DEF Located
  <2> QED
    BY <2>1, PoolAssumption DEF Posted
<1>3. /\ request' \in [Threads -> Requests \cup {None}]
      /\ fun' \in [Threads -> Requests \cup {None}]
      /\ request_count' \in [Threads -> Nat]
      /\ semaphore' \in [Threads -> 0 .. MaxPosts]
      /\ left' \subseteq Requests
      /\ UNCHANGED <<status, cleaning, served>>
  BY <1>2 DEF Assign, TypeOK
<1>4. /\ request'[t] = r /\ fun'[t] = r /\ semaphore'[t] = 1
      /\ \A u \in Threads \ {t} : /\ request'[u] = request[u] /\ fun'[u] = fun[u]
                                  /\ semaphore'[u] = semaphore[u]
  BY <1>2 DEF Assign, TypeOK
<1>5. pc[t] \in {"new", "wait"} /\ pc'[t] = "wait"
  BY DEF Located, TypeOK
<1>6. Located'
  BY <1>1, <1>3, <1>4, <1>5 DEF Located
<1>7. HandlesTyped'
  BY <1>3 DEF HandlesTyped, TypeOK
<1>8. AssignRest
  BY <1>3 DEF AssignRest
<1> QED
  BY <1>6, <1>7, <1>8

LEMMA SpawnChildKeeps ==
    ASSUME PInv, NEW r \in Requests, rad_spawn_child(r) PROVE PInv'
<1> DEFINE t == Head(Searched)
<1> USE DEF PInv
<1>1. t \in Handles /\ Free(t)
  BY SearchFinds DEF rad_spawn_child, HandlesOutliveThreads
<1>2. t \in Threads /\ pc[t] # "new"
  BY <1>1, PoolFacts DEF TypeOK, Spawned
<1>3. Assign(t, r) /\ next_pick' = Following(t, pool)
      /\ UNCHANGED <<pool, young, pc>>
  BY DEF rad_spawn_child
<1> HIDE DEF t
<1>4. next_pick' \in Handles \cup {None}
  BY <1>1, <1>3, FollowingListed
<1>5. Spawned' = Spawned
  BY <1>3 DEF Spawned
<1>6. Listed' /\ Handles' = Handles /\ HandlesOutliveThreads'
  BY <1>3, <1>4, <1>5, SamePool
<1>7. Located' /\ HandlesTyped' /\ AssignRest
  <2>1. request[t] = None /\ status[t] = "running"
    BY <1>1 DEF Free
  <2>2. pc'[t] # "new" /\ \A u \in Threads : pc'[u] = pc[u]
    BY <1>2, <1>3
  <2> QED
    BY <1>2, <1>3, <2>1, <2>2, AssignKeeps
<1>8. TypeOK'
  BY <1>3, <1>5, <1>6, <1>7 DEF TypeOK, HandlesTyped, AssignRest
<1> QED
  BY <1>6, <1>7, <1>8

LEMMA SpawnForRequestKeeps ==
    ASSUME PInv, NEW t \in Threads, NEW r \in Requests, SpawnForRequest(t, r)
    PROVE  PInv'
<1> USE DEF PInv
<1>1. /\ pc[t] = "new" /\ Len(pool) < max_threads /\ pool' = Append(pool, t)
      /\ pc' = [pc EXCEPT ![t] = "wait"] /\ young' = TRUE
      /\ Assign(t, r) /\ next_pick' = None
  BY DEF SpawnForRequest, spawn_thread, Goes
<1>2. request[t] = None /\ status[t] = "running"
  BY <1>1 DEF Located, TypeOK
<1>3. Located' /\ HandlesTyped' /\ AssignRest
  <2>1. /\ pc'[t] = "wait"
        /\ \A u \in Threads : \/ pc'[u] = pc[u]
                              \/ pc[u] = "new" /\ pc'[u] = "wait"
    BY <1>1 DEF TypeOK
  <2> QED
    BY <1>1, <1>2, <2>1, AssignKeeps
<1>4. /\ Listed' /\ Len(pool') = Len(pool) + 1
      /\ Handles' = Handles \cup {t}
  <2>1. /\ Append(pool, t) \in Seq(Threads)
        /\ Append(pool, t) = pool \o <<t>> /\ <<t>> \in Seq(Threads)
    BY AppendProperties, AppendIsConcat DEF Listed
  <2>2. Range(<<t>>) = {t}
    BY DEF Range
  <2>3. Range(pool \o <<t>>) = Range(pool) \cup Range(<<t>>)
    BY <2>1, RangeConcatenation DEF Listed
  <2> QED
    BY <1>1, <2>1, <2>2, <2>3, AppendProperties DEF Listed, Handles
<1>5. Spawned' = Spawned \cup {t}
  BY <1>1 DEF Spawned, TypeOK
<1>6. HandlesOutliveThreads'
  BY <1>1, <1>4, <1>5 DEF HandlesOutliveThreads, TypeOK
<1>7. TypeOK'
  <2>1. Len(pool') <= max_threads
    BY <1>1, <1>4, PoolFacts, PoolAssumption
  <2>2. pc' \in [Threads -> {"new", "wait", "serve", "fun", "request",
                             "exit", "gone"}]
    BY <1>1 DEF TypeOK
  <2> QED
    BY <1>1, <1>3, <1>4, <1>5, <2>1, <2>2 DEF TypeOK, HandlesTyped, AssignRest
<1> QED
  BY <1>3, <1>4, <1>6, <1>7

\* thread_pool_clean asks threads without a request only to exit.
LEMMA TrimKeeps == ASSUME PInv, CleanTrim PROVE PInv'
<1> USE DEF PInv
<1> DEFINE idle == Only(pool, {t \in Threads : ~Active(t)})
           first == IF spare > max_spare_threads /\ idle # <<>>
                    THEN {Head(idle)} ELSE {}
           worn == IF max_requests_per_thread = 0 THEN {}
                   ELSE {t \in Range(idle) :
                           request_count[t] > max_requests_per_thread}
           more(t) == Cardinality({t} \cap first) + Cardinality({t} \cap worn)
<1>1. /\ idle \in Seq(Threads)
      /\ Range(idle) \subseteq Handles \cap {t \in Threads : ~Active(t)}
  BY OnlyProperties DEF Listed, Handles
<1>2. idle # <<>> => Head(idle) \in Range(idle)
  <2> HIDE DEF idle
  <2> SUFFICES ASSUME idle # <<>> PROVE Head(idle) \in Range(idle)
    OBVIOUS
  <2>1. Len(idle) \in Nat \ {0} /\ DOMAIN idle = 1 .. Len(idle)
    BY <1>1, EmptySeq, LenProperties
  <2>2. Head(idle) = idle[1]
    BY <1>1
  <2> QED
    BY <2>1, <2>2 DEF Range
<1>3. \A t \in first \cup worn :
         t \in Threads /\ request[t] = None /\ pc[t] # "new"
  <2> HIDE DEF idle
  <2>1. first \cup worn \subseteq Range(idle)
    BY <1>2
  <2> QED
    BY <1>1, <2>1 DEF Active, TypeOK, Spawned
<1>4. \A t \in Threads : Cardinality({t} \cap first) \in Nat
                      /\ Cardinality({t} \cap worn) \in Nat
  <2> HIDE DEF first, worn
  <2>1. \A t, S : IsFiniteSet({t} \cap S)
    BY FS_Singleton, FS_Intersection
  <2> QED
    BY <2>1, FS_CardinalityType
<1>5. /\ status' = [t \in Threads |->
                     IF t \in first \cup worn THEN "cancelled" ELSE status[t]]
      /\ semaphore' = [t \in Threads |->
                        Posted(semaphore[t] + Cardinality({t} \cap first)
                                            + Cardinality({t} \cap worn))]
      /\ clean' = "no" /\ spare' = 0
      /\ UNCHANGED <<pools, request, fun, request_count, pc, left, served>>
  BY DEF CleanTrim
<1> HIDE DEF idle, first, worn
<1>6. \A n \in Nat : Posted(n) \in 0 .. MaxPosts /\ (n <= MaxPosts => Posted(n) = n)
  BY PoolAssumption DEF Posted
<1>7. ASSUME NEW t \in Threads
      PROVE  /\ semaphore'[t] \in 0 .. MaxPosts
             /\ t \notin first \cup worn => semaphore'[t] = semaphore[t]
  <2> DEFINE n == semaphore[t] + Cardinality({t} \cap first)
                               + Cardinality({t} \cap worn)
  <2>1. semaphore[t] \in Nat /\ semaphore[t] <= MaxPosts
    BY PoolAssumption DEF TypeOK
  <2>2. n \in Nat
    BY <1>4, <2>1
  <2>3. semaphore'[t] = Posted(n)
    BY <1>5
  <2>4. ASSUME t \notin first \cup worn PROVE n = semaphore[t]
    <3>1. {t} \cap first = {} /\ {t} \cap worn = {}
      BY <2>4
    <3> QED
      BY <2>1, <3>1, FS_EmptySet
  <2> QED
    BY <1>6, <2>1, <2>2, <2>3, <2>4
<1>8. Listed' /\ Handles' = Handles /\ HandlesOutliveThreads' /\ Spawned' = Spawned
  BY <1>5, SamePool DEF Spawned, HandlesOutliveThreads
<1>9. Located'
  <2>1. ASSUME NEW t \in first \cup worn
        PROVE  /\ status'[t] = "cancelled" /\ request[t] = None /\ pc[t] # "new"
    BY <1>3, <1>5
  <2>2. ASSUME NEW t \in Threads \ (first \cup worn)
        PROVE  status'[t] = status[t] /\ semaphore'[t] = semaphore[t]
    BY <1>5, <1>7
  <2>3. UNCHANGED <<request, fun, pc>>
    BY <1>5
  <2> QED
    BY <2>1, <2>2, <2>3 DEF Located
<1>10. semaphore' \in [Threads -> 0 .. MaxPosts]
  BY <1>5, <1>7
<1>11. status' \in [Threads -> {"running", "cancelled", "exited"}]
  BY <1>5 DEF TypeOK
<1>12. UNCHANGED <<pool, next_pick, young, request, fun, request_count, pc, left, served>>
      /\ clean' = "no" /\ spare' = 0
  BY <1>5
<1>13. TypeOK'
  BY <1>8, <1>10, <1>11, <1>12 DEF TypeOK
<1> QED
  BY <1>8, <1>9, <1>13

\* thread_pool_clean deletes handles of threads that are gone, and spawns.
LEMMA CountKeeps == ASSUME PInv, CleanCount PROVE PInv'
<1> USE DEF PInv
<1> DEFINE dead == {t \in Handles : Dead(t)}
           kept == Only(pool, Handles \ dead)
           spares == Len(kept) - Cardinality({t \in Handles : Active(t)})
<1>1. /\ kept \in Seq(Threads) /\ Len(kept) \in Nat
      /\ Len(kept) <= Len(pool) /\ Range(kept) = Handles \ dead
  <2>1. /\ kept \in Seq(Threads) /\ Len(kept) <= Len(pool)
        /\ Range(kept) = Handles \cap (Handles \ dead)
    BY OnlyProperties DEF Listed, Handles
  <2> QED
    BY <2>1, LenProperties
<1>2. spares \in Int
  <2> HIDE DEF kept
  <2>1. IsFiniteSet({t \in Handles : Active(t)})
    BY PoolFacts, FS_Subset
  <2> QED
    BY <1>1, <2>1, FS_CardinalityType
<1>3. \A t \in dead : t \in Threads /\ pc[t] = "gone"
  BY PoolFacts DEF Dead, Located
<1>4. next_pick' = NextPick(dead) /\ UNCHANGED <<handles, left, served>>
  BY DEF CleanCount
<1>5. next_pick' \in (Handles \ dead) \cup {None}
  BY <1>4, NextPickListed DEF HandlesOutliveThreads
<1>6. ASSUME NEW more \in SUBSET (Threads \ Spawned),
             Len(kept) + Cardinality(more) <= max_threads,
             pool' = kept \o SetToSeq(more),
             pc' = [t \in Threads |-> IF t \in more THEN "wait" ELSE pc[t]],
             young' \in BOOLEAN, UNCHANGED cleaning
      PROVE  PInv'
  <2> HIDE DEF kept, dead
  <2>1. IsFiniteSet(more)
    BY PoolAssumption, FS_Subset
  <2>2. /\ SetToSeq(more) \in Seq(more) /\ Len(SetToSeq(more)) = Cardinality(more)
        /\ Range(SetToSeq(more)) = more
    BY <2>1, SetToSeqProperties
  <2>3. SetToSeq(more) \in Seq(Threads)
    BY <2>2, SeqMonotonic
  <2>4. Listed' /\ Len(pool') <= max_threads
    <3>1. /\ kept \o SetToSeq(more) \in Seq(Threads)
          /\ Len(kept \o SetToSeq(more)) = Len(kept) + Len(SetToSeq(more))
      BY <1>1, <2>3, ConcatProperties
    <3> QED
      BY <1>6, <2>2, <3>1 DEF Listed
  <2>5. Handles' = (Handles \ dead) \cup more
    BY <1>1, <1>6, <2>2, <2>3, RangeConcatenation DEF Handles
  <2>6. Spawned' = Spawned \cup more
    BY <1>6 DEF Spawned
  <2>7. \A t \in more : t \in Threads /\ pc[t] = "new"
    BY DEF Spawned
  <2>8. HandlesOutliveThreads'
    BY <1>3, <1>5, <1>6, <2>5, <2>6, <2>7 DEF HandlesOutliveThreads, Spawned
  <2>9. Located'
    BY <1>4, <1>6, <2>7 DEF Located
  <2>10. pc' \in [Threads -> {"new", "wait", "serve", "fun", "request",
                              "exit", "gone"}]
    BY <1>6 DEF TypeOK
  <2>11. Handles' \subseteq Spawned'
    BY <2>5, <2>6 DEF TypeOK
  <2>12. TypeOK'
    BY <1>4, <1>6, <2>4, <2>10, <2>11 DEF TypeOK
  <2> QED
    BY <2>4, <2>8, <2>9, <2>12
<1>7. ASSUME pool' = kept, UNCHANGED <<pc, young>>, clean' \in {"no", "trim"},
             spare' \in Int
      PROVE  PInv'
  <2> HIDE DEF kept, dead
  <2>1. Handles' = Handles \ dead /\ Spawned' = Spawned
    BY <1>1, <1>7 DEF Handles, Spawned
  <2>2. Listed' /\ Len(pool') <= max_threads
    BY <1>1, <1>7, PoolFacts, PoolAssumption DEF Listed, TypeOK
  <2>3. HandlesOutliveThreads'
    BY <1>3, <1>5, <1>7, <2>1 DEF HandlesOutliveThreads, Spawned
  <2>4. Located'
    BY <1>4, <1>7 DEF Located
  <2>5. TypeOK'
    BY <1>4, <1>7, <2>1, <2>2 DEF TypeOK
  <2> QED
    BY <2>2, <2>3, <2>4, <2>5
<1>8. \/ \E more \in SUBSET (Threads \ Spawned) :
            /\ Len(kept) + Cardinality(more) <= max_threads
            /\ pool' = kept \o SetToSeq(more)
            /\ pc' = [t \in Threads |-> IF t \in more THEN "wait" ELSE pc[t]]
            /\ young' \in BOOLEAN /\ UNCHANGED cleaning
      \/ /\ pool' = kept /\ UNCHANGED <<pc, young>>
         /\ clean' \in {"no", "trim"} /\ spare' \in Int
  <2> HIDE DEF kept
  <2>1. young \in BOOLEAN /\ spare \in Int /\ clean \in {"no", "trim"}
    BY DEF TypeOK
  <2>2. CASE min_spare_threads - spares > 0
    BY <2>1, <2>2 DEF CleanCount, kept
  <2>3. CASE ~ (min_spare_threads - spares > 0)
    BY <1>2, <2>1, <2>3 DEF CleanCount, kept
  <2> QED
    BY <2>2, <2>3
<1> QED
  BY <1>6, <1>7, <1>8

LEMMA PInvStep == PInv /\ [Next]_vars => PInv'
<1> SUFFICES ASSUME PInv, [Next]_vars PROVE PInv'
  OBVIOUS
<1>1. ASSUME NEW t \in Threads, Thread(t) PROVE PInv'
  BY <1>1, ThreadKeeps
<1>2. ASSUME NEW r \in Requests, rad_spawn_child(r) PROVE PInv'
  BY <1>2, SpawnChildKeeps
<1>3. ASSUME NEW r \in Requests, NEW t \in Threads, SpawnForRequest(t, r)
      PROVE  PInv'
  BY <1>3, SpawnForRequestKeeps
<1>4. ASSUME UNCHANGED <<pool, next_pick, handles, pc, cleaning, served>>,
             young' \in BOOLEAN, left' \subseteq Requests
      PROVE  PInv'
  <2>1. Spawned' = Spawned
    BY <1>4 DEF Spawned
  <2>2. Listed' /\ Handles' = Handles /\ HandlesOutliveThreads'
    BY <1>4, <2>1, SamePool DEF PInv, HandlesOutliveThreads
  <2>3. TypeOK' /\ Located'
    BY <1>4, <2>1, <2>2 DEF PInv, TypeOK, Located
  <2> QED
    BY <2>2, <2>3 DEF PInv
<1>5. ASSUME NEW r \in Requests, TooMany(r) PROVE PInv'
  BY <1>4, <1>5 DEF TooMany, PInv, TypeOK
<1>6. CASE Settle
  BY <1>4, <1>6 DEF Settle, PInv, TypeOK
<1>7. CASE UNCHANGED vars
  BY <1>4, <1>7 DEF vars, PInv, TypeOK
<1> QED
  BY <1>1, <1>2, <1>3, <1>5, <1>6, <1>7, CountKeeps, TrimKeeps DEF Next, Clean

LEMMA Inductive == Spec => []PInv
BY PInvInit, PInvStep, PTL DEF Spec

\* The handles keep their types and the list no more than max_threads of them,
\* however threads come and go (threads.c:316-319).
THEOREM PoolTypes == Spec => []TypeOK
<1>1. PInv => TypeOK
  BY DEF PInv
<1> QED
  BY Inductive, <1>1, PTL

\* delete_thread is called for threads that are gone, and next_pick never names
\* a deleted handle (threads.c:249-298, 631-651).
THEOREM HandlesOutlive == Spec => []HandlesOutliveThreads
<1>1. PInv => HandlesOutliveThreads
  BY DEF PInv
<1> QED
  BY Inductive, <1>1, PTL

\* The two writes with which a thread forgets its request, and the two with
\* which it is given another, do not mix (threads.c:225-232, 583-606).
THEOREM GivenIsServed == Spec => []ServesWhatItWasGiven
<1>1. PInv => ServesWhatItWasGiven
  BY DEF PInv, Located, ServesWhatItWasGiven
<1> QED
  BY Inductive, <1>1, PTL

\* A request is not given to a thread that exits, nor one asked to exit that
\* has a request, nor is a post lost (threads.c:182-222, 525-560, 696-758).
THEOREM RequestsAreNotLost == Spec => []RequestsAreKept
<1>1. PInv => RequestsAreKept
  BY PoolAssumption DEF PInv, Located, RequestsAreKept
<1> QED
  BY Inductive, <1>1, PTL
=============================================================================
