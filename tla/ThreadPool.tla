----------------------------- MODULE ThreadPool -----------------------------
(***************************************************************************)
(* The thread pool of the RADIUS server                                    *)
(* (src/freeradius-0.9.3/src/main/threads.c).  The main thread hands       *)
(* requests to idle threads through a semaphore of each, spawns threads,   *)
(* asks spare ones to exit and deletes the handles of those that have      *)
(* exited.  Nothing is locked: the handle's fields tell one side what the  *)
(* other has done.                                                         *)
(***************************************************************************)
EXTENDS Integers, Sequences, FiniteSets, SequencesExt

CONSTANTS
    Threads,        \* the threads that may be spawned, each once
    Requests,       \* the requests that may be handed over, each once
    start_threads, max_threads, min_spare_threads, max_spare_threads,
    max_requests_per_thread,    \* 0: no limit
    MaxPosts,       \* a semaphore's count is not followed beyond it
    None

ASSUME PoolAssumption ==
    /\ None \notin Threads \cup Requests /\ IsFiniteSet(Threads)
    /\ start_threads \in 0 .. max_threads /\ max_threads \in Nat
    /\ min_spare_threads \in Nat /\ max_spare_threads \in Nat
    /\ max_requests_per_thread \in Nat /\ MaxPosts \in Nat \ {0}
    /\ Cardinality(Threads) >= start_threads

VARIABLES
    pool,           \* the handles, from thread_pool.head to tail
    next_pick,
    young,          \* time_last_spawned is less than cleanup_delay ago
    status, request, fun, request_count, semaphore,   \* per handle
    pc,             \* per thread: where request_handler_thread is
    clean,          \* "no", or "trim" between the loops of thread_pool_clean
    spare,
    left,           \* requests not handed over yet
    served          \* history: requests rad_respond was called with

pools == <<pool, next_pick, young>>
handles == <<status, request, fun, request_count, semaphore>>
cleaning == <<clean, spare>>
vars == <<pools, handles, pc, cleaning, left, served>>

Handles == Range(pool)
Spawned == {t \in Threads : pc[t] # "new"}

\* The elements of list s that are in T, in the order of the list.
Only(s, T) ==
    LET places == {i \in DOMAIN s : s[i] \in T}
        rank(i) == Cardinality({j \in places : j <= i})
    IN  [n \in 1 .. Cardinality(places) |->
            s[CHOOSE i \in places : rank(i) = n]]

-----------------------------------------------------------------------------
(* request_handler_thread.                                                 *)

OnlyThread == UNCHANGED <<pools, request_count, cleaning, left>>
Goes(t, l) == pc' = [pc EXCEPT ![t] = l]

\* sem_wait returns: the thread exits, has nothing to do, or has a request.
Wake(t) ==
    /\ pc[t] = "wait" /\ semaphore[t] > 0
    /\ semaphore' = [semaphore EXCEPT ![t] = @ - 1]
    /\ \/ status[t] = "cancelled" /\ Goes(t, "exit")
       \/ status[t] # "cancelled" /\ request[t] = None /\ UNCHANGED pc
       \/ status[t] # "cancelled" /\ request[t] # None /\ Goes(t, "serve")
    /\ OnlyThread
    /\ UNCHANGED <<status, request, fun, served>>

\* rad_respond returns.
Serve(t) ==
    /\ pc[t] = "serve"
    /\ served' = served \cup {request[t]}
    /\ Goes(t, "fun")
    /\ OnlyThread
    /\ UNCHANGED handles

Clear(f, t) == f' = [f EXCEPT ![t] = None]

\* Mutant of Forget: the other way round.
ForgetSwapped(t) ==
    /\ \/ pc[t] = "fun" /\ Clear(request, t) /\ UNCHANGED fun
          /\ Goes(t, "request")
       \/ pc[t] = "request" /\ Clear(fun, t) /\ UNCHANGED request
          /\ Goes(t, "wait")
    /\ OnlyThread
    /\ UNCHANGED <<status, semaphore, served>>

\* The function is forgotten first, then the request: from there on the
\* thread may be given another.
Forget(t) ==
    /\ \/ pc[t] = "fun" /\ Clear(fun, t) /\ UNCHANGED request
          /\ Goes(t, "request")
       \/ pc[t] = "request" /\ Clear(request, t) /\ UNCHANGED fun
          /\ Goes(t, "wait")
    /\ OnlyThread
    /\ UNCHANGED <<status, semaphore, served>>

\* The last thing a thread does is to set its status.
Exit(t) ==
    /\ pc[t] = "exit"
    /\ status' = [status EXCEPT ![t] = "exited"]
    /\ Goes(t, "gone")
    /\ OnlyThread
    /\ UNCHANGED <<request, fun, semaphore, served>>

Thread(t) == Wake(t) \/ Serve(t) \/ Forget(t) \/ Exit(t)

-----------------------------------------------------------------------------
(* The main thread: rad_spawn_child.                                       *)

Main == clean = "no"

\* sem_post.
Posted(n) == IF n > MaxPosts THEN MaxPosts ELSE n

\* Mutant of spawn_thread: one thread too many.
spawn_threadOver(t, p) ==
    /\ pc[t] = "new"
    /\ Len(p) <= max_threads
    /\ pool' = Append(p, t)
    /\ Goes(t, "wait")
    /\ young' = TRUE

\* spawn_thread: a handle at the tail of the pool.
spawn_thread(t, p) ==
    /\ pc[t] = "new"
    /\ Len(p) < max_threads
    /\ pool' = Append(p, t)
    /\ Goes(t, "wait")
    /\ young' = TRUE

\* The pool as the search goes through it, from next_pick round to it again.
SearchOrder ==
    LET i == IF next_pick = None THEN 1
             ELSE CHOOSE k \in DOMAIN pool : pool[k] = next_pick
    IN  SubSeq(pool, i, Len(pool)) \o SubSeq(pool, 1, i - 1)

\* Mutant of Free: a thread that was asked to exit is taken too.
FreeAny(t) == request[t] = None

Free(t) == status[t] = "running" /\ request[t] = None

Searched == Only(SearchOrder, {t \in Threads : Free(t)})

\* The handle after t in the list.
Following(t, p) ==
    LET i == CHOOSE k \in DOMAIN p : p[k] = t
    IN  IF i = Len(p) THEN None ELSE p[i + 1]

\* The request and its function are given to thread t, and it is kicked.
Assign(t, r) ==
    /\ request' = [request EXCEPT ![t] = r]
    /\ fun' = [fun EXCEPT ![t] = r]
    /\ request_count' = [request_count EXCEPT ![t] = @ + 1]
    /\ semaphore' = [semaphore EXCEPT ![t] = Posted(@ + 1)]
    /\ left' = left \ {r}
    /\ UNCHANGED <<status, cleaning, served>>

\* A free thread takes the request.
rad_spawn_child(r) ==
    /\ Main
    /\ r \in left
    /\ Searched # <<>>
    /\ LET t == Head(Searched) IN
       Assign(t, r) /\ next_pick' = Following(t, pool)
    /\ UNCHANGED <<pool, young, pc>>

\* There is none: a new one does.
SpawnForRequest(t, r) ==
    /\ Main
    /\ r \in left
    /\ Searched = <<>>
    /\ spawn_thread(t, pool)
    /\ Assign(t, r)
    /\ next_pick' = None

\* There is none, and there cannot be more: the request is not handled.
TooMany(r) ==
    /\ Main
    /\ r \in left
    /\ Searched = <<>> /\ Len(pool) >= max_threads
    /\ left' = left \ {r}
    /\ UNCHANGED <<pools, handles, pc, cleaning, served>>

-----------------------------------------------------------------------------
(* The main thread: thread_pool_clean.                                     *)

Active(t) == request[t] # None

\* Mutant of Dead: threads that were asked to exit are deleted.
DeadSoon(t) == ~Active(t) /\ status[t] # "running"

\* Handles that can be deleted.
Dead(t) == ~Active(t) /\ status[t] = "exited"

\* Deleted threads are not picked: next_pick goes on to the next handle.
NextPick(dead) ==
    LET after == {k \in DOMAIN pool :
                    pool[k] \notin dead
                    /\ \E i \in 1 .. k : pool[i] = next_pick}
    IN  IF next_pick \notin dead THEN next_pick
        ELSE IF after = {} THEN None
        ELSE pool[CHOOSE k \in after : \A j \in after : k <= j]

\* The first loop: exited threads are deleted, active ones are counted.  If
\* there are too few spare threads, spawn_thread is called for what lacks;
\* if one was spawned lately, that is all.
CleanCount ==
    LET dead == {t \in Handles : Dead(t)}
        kept == Only(pool, Handles \ dead)
        spares == Len(kept) - Cardinality({t \in Handles : Active(t)})
        lack == min_spare_threads - spares
    IN
    /\ Main
    /\ next_pick' = NextPick(dead)
    /\ IF lack > 0
       THEN \E more \in SUBSET (Threads \ Spawned) :
                /\ Cardinality(more) <= lack
                /\ Len(kept) + Cardinality(more) <= max_threads
                /\ \/ Cardinality(more) = lack
                   \/ Len(kept) + Cardinality(more) = max_threads
                   \/ more = Threads \ Spawned
                /\ pool' = kept \o SetToSeq(more)
                /\ pc' = [t \in Threads |->
                            IF t \in more THEN "wait" ELSE pc[t]]
                /\ young' = (young \/ more # {})
                /\ UNCHANGED cleaning
       ELSE /\ pool' = kept
            /\ UNCHANGED <<pc, young>>
            /\ IF young THEN UNCHANGED cleaning
               ELSE clean' = "trim" /\ spare' = spares
    /\ UNCHANGED <<handles, left, served>>

\* The second loop asks the first thread without a request to exit if there
\* are too many spare ones, the third those that have handled too many.
CleanTrim ==
    LET idle == Only(pool, {t \in Threads : ~Active(t)})
        first == IF spare > max_spare_threads /\ idle # <<>>
                 THEN {Head(idle)} ELSE {}
        worn == IF max_requests_per_thread = 0 THEN {}
                ELSE {t \in Range(idle) :
                        request_count[t] > max_requests_per_thread}
    IN
    /\ clean = "trim"
    /\ status' = [t \in Threads |->
                    IF t \in first \cup worn THEN "cancelled" ELSE status[t]]
    /\ semaphore' = [t \in Threads |->
                       Posted(semaphore[t] + Cardinality({t} \cap first)
                                           + Cardinality({t} \cap worn))]
    /\ clean' = "no" /\ spare' = 0
    /\ UNCHANGED <<pools, request, fun, request_count, pc, left, served>>

\* cleanup_delay seconds have passed without a new thread.
Settle ==
    /\ young
    /\ young' = FALSE
    /\ UNCHANGED <<pool, next_pick, handles, pc, cleaning, left, served>>

-----------------------------------------------------------------------------
\* thread_pool_init: the first start_threads threads.
Init ==
    /\ \E first \in SUBSET Threads :
           /\ Cardinality(first) = start_threads
           /\ pool = SetToSeq(first)
           /\ pc = [t \in Threads |-> IF t \in first THEN "wait" ELSE "new"]
    /\ next_pick = None
    /\ young = (start_threads > 0)
    /\ status = [t \in Threads |-> "running"]
    /\ request = [t \in Threads |-> None]
    /\ fun = [t \in Threads |-> None]
    /\ request_count = [t \in Threads |-> 0]
    /\ semaphore = [t \in Threads |-> 0]
    /\ clean = "no" /\ spare = 0
    /\ left = Requests
    /\ served = {}

Clean == CleanCount \/ CleanTrim

Next ==
    \/ \E t \in Threads : Thread(t)
    \/ \E r \in Requests :
           \/ rad_spawn_child(r) \/ TooMany(r)
           \/ \E t \in Threads : SpawnForRequest(t, r)
    \/ Clean \/ Settle

Spec == Init /\ [][Next]_vars

\* The threads run, the functions they call return, and the main thread cleans
\* the pool again and again.  Nobody has to send a request.
LiveSpec ==
    /\ Spec /\ WF_vars(Clean) /\ WF_vars(Settle)
    /\ \A t \in Threads : WF_vars(Thread(t))

-----------------------------------------------------------------------------
TypeOK ==
    /\ Handles \subseteq Spawned /\ Len(pool) <= max_threads
    /\ young \in BOOLEAN
    /\ status \in [Threads -> {"running", "cancelled", "exited"}]
    /\ request \in [Threads -> Requests \cup {None}]
    /\ fun \in [Threads -> Requests \cup {None}]
    /\ request_count \in [Threads -> Nat]
    /\ semaphore \in [Threads -> 0 .. MaxPosts]
    /\ pc \in [Threads -> {"new", "wait", "serve", "fun", "request",
                           "exit", "gone"}]
    /\ clean \in {"no", "trim"} /\ spare \in Int
    /\ left \subseteq Requests /\ served \subseteq Requests

\* A handle is freed only once its thread makes no more use of it
\* (delete_thread: "now that we're sure the thread exited"), and the next
\* search does not begin at it (next_pick).
HandlesOutliveThreads ==
    /\ \A t \in Spawned \ Handles : pc[t] = "gone"
    /\ next_pick \in Handles \cup {None}

\* A thread that serves a request has its function, and the one it was handed
\* with (request_handler_thread forgets in two steps what rad_spawn_child
\* sets).
ServesWhatItWasGiven ==
    \A t \in Threads : pc[t] = "serve" => request[t] # None /\ fun[t] = request[t]

\* A request that is handed over is not lost: its thread is not one that was
\* asked to exit (rad_spawn_child looks for threads that run, thread_pool_clean
\* cancels those without a request), and a thread that runs has a post for a
\* request it has not taken yet, and none besides, so that it never wakes up
\* between the assignments to its request and its function.
RequestsAreKept ==
    \A t \in Threads :
        /\ request[t] # None => pc[t] \notin {"exit", "gone"}
        /\ status[t] = "running" =>
             semaphore[t] = IF pc[t] = "wait" /\ request[t] # None THEN 1 ELSE 0

\* A request that is handed over is served (rad_spawn_child).
HandedIsServed ==
    \A r \in Requests, t \in Threads : request[t] = r ~> r \in served

\* thread_pool_clean deletes the threads that have exited: "At this point, we
\* also delete 'exited' threads".
ExitedIsDeleted == \A t \in Threads : pc[t] = "gone" ~> t \notin Handles
=============================================================================
