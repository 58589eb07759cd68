---------------------------- MODULE RadiusServer ----------------------------
(***************************************************************************)
(* The core of the RADIUS server that comes with the supplicant            *)
(* (src/freeradius-0.9.3/src/main): the request list, the main loop that   *)
(* receives packets and cleans the list, and the worker threads that       *)
(* answer the requests, with or without the help of a home server.         *)
(*                                                                         *)
(* The main thread and the workers share the REQUEST without a lock.  Each *)
(* action is a stretch of one thread between two places where another one  *)
(* can see or change what it works on; what one rad_send or one update of  *)
(* request->options does is not taken apart.  A request is an object that  *)
(* is never allocated twice, so that a pointer to a freed one is seen;     *)
(* time is the age of a request, and stops at max_request_time.  Left out: *)
(* the second by which rad_clean_list sets the clock back before a walk,   *)
(* kill_unresponsive_children (off by default), replication to a realm.    *)
(***************************************************************************)
EXTENDS Integers, FiniteSets

CONSTANTS
    Requests,           \* the REQUEST structures that may be allocated
    Slots,              \* what rl_find compares: id, code and client
    Auth,               \* the slots of Access-Requests
    Homes,              \* the slots of users whose realm has a home server,
                        \* which an authorize that fails does not find
    Workers,            \* the threads of the pool
    reject_delay, cleanup_delay, max_request_time,
    max_requests,
    proxy_requests, proxy_synchronous, proxy_retry_count,
    MaxAsked,           \* bound on the copies of a packet the home server gets
    None

ASSUME ServerAssumption ==
    /\ None \notin Requests \cup Workers \cup Slots
    /\ Auth \subseteq Slots /\ Homes \subseteq Slots
    /\ proxy_requests \in BOOLEAN /\ proxy_synchronous \in BOOLEAN
    /\ proxy_retry_count \in Nat \ {0} /\ max_requests \in Nat
    /\ MaxAsked \in Nat \ {0}
ASSUME DelaysAssumption ==
    /\ reject_delay \in Nat /\ cleanup_delay \in Nat
    /\ max_request_time \in Nat \ {0}
    /\ reject_delay <= cleanup_delay /\ cleanup_delay <= max_request_time

VARIABLES
    req,            \* the REQUESTs
    list,           \* those in the request list
    pc, job, fin,   \* per worker: where it is, its request, `finished'
    main,           \* "select", "clean", "some" or "walk"
    turns,          \* what is left of the loop over a few requests
    todo,           \* what is left of rl_walk
    soon,           \* the walk has found a time to wake up at
    wake,           \* select has a time-out
    cleaned,        \* last_cleaned_list is this second
    rejecting,      \* the request that rad_reject is at for refresh_request
    last_request,
    fault           \* "assert" once an rad_assert has failed, "freed" once a
                    \* request has been used after request_free

threads == <<pc, job, fin>>
loop == <<main, turns, todo, soon, wake, cleaned, rejecting>>
vars == <<req, list, threads, loop, last_request, fault>>

-----------------------------------------------------------------------------
(* The request.                                                            *)

Options == {"REJECTED", "DELAYED_REJECT", "DONT_CACHE"}
Codes == {"none", "ok", "reject"}

Request ==
    [slot : Slots \cup {None},
     child : Workers \cup {None},                \* child_pid
     finished : BOOLEAN,
     options : SUBSET Options,
     code : Codes,                               \* reply->code
     data : Codes \cup {None},                   \* reply->data, once encoded
     proxy : {"none", "waiting", "replied"},     \* proxy and proxy_reply
     tries : 0 .. proxy_retry_count,             \* proxy_try_count
     age : 0 .. max_request_time,                \* now - timestamp
     asked : 0 .. MaxAsked,      \* history: copies sent to the home server
     sent : SUBSET Codes,        \* history: replies the NAS has been sent
     refused : BOOLEAN]          \* history: given up before any was encoded

Unused == [slot |-> None, child |-> None, finished |-> FALSE,
           options |-> {}, code |-> "none", data |-> None,
           proxy |-> "none", tries |-> 0, age |-> 0,
           asked |-> 0, sent |-> {}, refused |-> FALSE]

\* The reply is encoded the first time only.
rad_send(q) ==
    LET bytes == IF q.data = None THEN q.code ELSE q.data IN
    [q EXCEPT !.data = bytes, !.sent = @ \cup {bytes}]

Delayed(q) == "DELAYED_REJECT" \in q.options
SendDelayed(q) == rad_send([q EXCEPT !.options = @ \ {"DELAYED_REJECT"}])

\* rad_reject: Access-Requests get a reject; what has no reply stays without.
RejectCode(q) == IF q.slot \in Auth THEN "reject" ELSE q.code

\* The reply that there is then goes out or is delayed.
Rejected(q) ==
    LET delay == IF q.code # "none" /\ reject_delay > 0
                 THEN {"DELAYED_REJECT"} ELSE {}
        marked == [q EXCEPT
            !.options = @ \cup {"REJECTED"} \cup delay,
            !.refused = @ \/ (q.slot \in Auth /\ q.data = None)]
    IN  IF q.code # "none" /\ reject_delay = 0 THEN rad_send(marked)
        ELSE marked

rad_reject(q) ==
    IF "REJECTED" \in q.options THEN q
    ELSE Rejected([q EXCEPT !.code = RejectCode(q)])

\* Mutant of GiveUp: the request is rejected, and not finished.
GiveUpUnfinished(q) == rad_reject(q)

GiveUp(q) == [rad_reject(q) EXCEPT !.finished = TRUE]

Slot(s) == {r \in list : req[r].slot = s}

\* What rl_next may return: another request, or NULL at the end of the list.
rl_next(r) == (list \ {r}) \cup {None}

-----------------------------------------------------------------------------
(* The workers: rad_respond.                                               *)

\* A thread that touches a request that is still there.
At(w, l) == fault = "none" /\ pc[w] = l /\ job[w] \in list
Goes(w, l) == pc' = [pc EXCEPT ![w] = l]
Ends(w, finished) ==
    Goes(w, "leave") /\ fin' = [fin EXCEPT ![w] = finished]
OnlyRequest == UNCHANGED <<list, job, loop, last_request, fault>>

Becomes(r, q) == req' = [req EXCEPT ![r] = q]

\* The packet does not decode; its reply cannot be looked at, or the
\* post-proxy modules fail; it is decoded.
Decode(w) ==
    LET r == job[w]  q == req[r] IN
    /\ At(w, "decode")
    /\ \/ Becomes(r, rad_reject(q)) /\ Ends(w, TRUE)
       \/ /\ q.proxy # "none"
          /\ Ends(w, FALSE) /\ UNCHANGED req
       \/ /\ q.proxy # "none"
          /\ Ends(w, TRUE) /\ UNCHANGED req
       \/ /\ IF q.proxy = "none" /\ q.slot \notin Auth
             THEN \E o \in {{}, {"DONT_CACHE"}} :
                      Becomes(r, [q EXCEPT !.options = @ \cup o])
             ELSE UNCHANGED req
          /\ Goes(w, "run") /\ UNCHANGED fin
    /\ OnlyRequest

\* A request for a home server is not accepted before that has answered.  The
\* modules set a success only where nothing was decided, but the code is read,
\* and the success set later: main's reject may be overwritten.
MayAccept(q) == q.proxy = "replied" \/ q.slot \notin Homes

\* What (*fun)(request) leaves in reply->code.
Outcomes(q) ==
    {q.code} \cup (IF q.slot \in Auth THEN {"reject"} ELSE {})
             \cup (IF MayAccept(q) THEN {"ok"} ELSE {})

\* (*fun)(request), as it sets the code.
Runs(w, from, to) ==
    LET r == job[w]  q == req[r] IN
    /\ At(w, from)
    /\ \E c \in Outcomes(q) : Becomes(r, [q EXCEPT !.code = c])
    /\ Goes(w, to) /\ UNCHANGED fin
    /\ OnlyRequest

Run(w) == Runs(w, "run", "check")
Rerun(w) == Runs(w, "rerun", "decide")

\* It took too long; it is to be done again with the name or the password
\* lowered; it goes on.
Check(w) ==
    LET q == req[job[w]] IN
    /\ At(w, "check")
    /\ \/ "REJECTED" \in q.options /\ Ends(w, TRUE)
       \/ /\ "REJECTED" \notin q.options
          /\ q.slot \in Auth /\ q.code = "reject"
          /\ Goes(w, "redo") /\ UNCHANGED fin
       \/ /\ "REJECTED" \notin q.options
          /\ Goes(w, "decide") /\ UNCHANGED fin
    /\ UNCHANGED req
    /\ OnlyRequest

\* The request is set back, whatever has become of it since.
Redo(w) ==
    /\ At(w, "redo")
    /\ Becomes(job[w], [req[job[w]] EXCEPT !.code = "none"])
    /\ Goes(w, "rerun") /\ UNCHANGED fin
    /\ OnlyRequest

\* Mutant of Retries: the first packet is not counted.
RetriesMore == proxy_retry_count

\* What is left to try once the first packet is sent.
Retries == proxy_retry_count - 1

\* Shall the request be proxied?  It may have been rejected, its realm may be
\* unknown or not have been looked for.
Decide(w) ==
    LET r == job[w]  q == req[r] IN
    /\ At(w, "decide")
    /\ \/ /\ proxy_requests /\ q.proxy = "none" /\ q.slot \in Homes
          /\ \/ Becomes(r, rad_reject(q)) /\ Ends(w, TRUE)
             \/ /\ q.slot \in Auth => q.code # "reject"
                /\ Goes(w, "prepare") /\ UNCHANGED <<req, fin>>
       \/ /\ ~proxy_requests /\ q.slot \in Auth /\ q.code = "none"
          /\ Becomes(r, rad_reject(q)) /\ Ends(w, TRUE)
       \/ /\ proxy_requests \/ (q.slot \in Auth => q.code # "none")
          /\ Goes(w, "reply") /\ UNCHANGED <<req, fin>>
    /\ OnlyRequest

\* proxy_send from the allocation of the packet on.
Prepare(w) ==
    /\ At(w, "prepare")
    /\ Becomes(job[w], [req[job[w]] EXCEPT !.proxy = "waiting",
                                           !.tries = Retries])
    /\ Goes(w, "forward") /\ UNCHANGED fin
    /\ OnlyRequest

\* proxy_send from the pre-proxy modules on.
Forward(w) ==
    LET r == job[w]  q == req[r] IN
    /\ At(w, "forward")
    /\ \/ Becomes(r, rad_reject(q)) /\ Ends(w, TRUE)
       \/ /\ q.asked < MaxAsked
          /\ Becomes(r, [q EXCEPT !.asked = @ + 1])
          /\ Ends(w, FALSE)
    /\ OnlyRequest

\* There is nothing to send; a reject is delayed; the rest is to be sent ...
Reply(w) ==
    LET r == job[w]  q == req[r] IN
    /\ At(w, "reply")
    /\ \/ q.code = "none" /\ UNCHANGED req /\ Ends(w, TRUE)
       \/ /\ q.code = "reject" /\ reject_delay > 0
          /\ Becomes(r, [q EXCEPT !.options = @ \cup {"DELAYED_REJECT"}])
          /\ Ends(w, TRUE)
       \/ /\ q.code = "ok" \/ (q.code = "reject" /\ reject_delay = 0)
          /\ UNCHANGED req /\ Goes(w, "send") /\ UNCHANGED fin
    /\ OnlyRequest

\* ... with the code it has by then.
Send(w) ==
    /\ At(w, "send")
    /\ Becomes(job[w], rad_send(req[job[w]]))
    /\ Ends(w, TRUE)
    /\ OnlyRequest

\* Mutant of Leave: the request is marked finished first.
LeaveFinished(w) ==
    /\ At(w, "leave")
    /\ Becomes(job[w], [req[job[w]] EXCEPT !.finished = fin[w]])
    /\ Goes(w, "last") /\ UNCHANGED fin
    /\ OnlyRequest

\* The thread gives its place in the request back ...
Leave(w) ==
    /\ At(w, "leave")
    /\ Becomes(job[w], [req[job[w]] EXCEPT !.child = None])
    /\ Goes(w, "last") /\ UNCHANGED fin
    /\ OnlyRequest

\* ... and sets request->finished, "as the LAST thing before exiting".
Last(w) ==
    /\ At(w, "last")
    /\ Becomes(job[w], [req[job[w]] EXCEPT !.finished = fin[w]])
    /\ Goes(w, "idle")
    /\ job' = [job EXCEPT ![w] = None]
    /\ fin' = [fin EXCEPT ![w] = FALSE]
    /\ UNCHANGED <<list, loop, last_request, fault>>

\* The request was freed while the thread was working on it.
TouchFreed(w) ==
    /\ fault = "none"
    /\ pc[w] # "idle" /\ job[w] \notin list
    /\ fault' = "freed"
    /\ UNCHANGED <<req, list, threads, loop, last_request>>

Work(w) ==
    \/ Decode(w) \/ Run(w) \/ Check(w) \/ Redo(w) \/ Rerun(w)
    \/ Decide(w) \/ Prepare(w) \/ Forward(w)
    \/ Reply(w) \/ Send(w) \/ Leave(w) \/ Last(w) \/ TouchFreed(w)

-----------------------------------------------------------------------------
(* The main thread: packets.                                               *)

Receiving == fault = "none" /\ main \in {"select", "clean"}
Received ==
    main' = "clean" /\ UNCHANGED <<turns, todo, soon, wake, cleaned, rejecting>>

\* rad_spawn_child: an idle thread takes the request, or there is none left.
Spawn(r, q) ==
    \/ \E w \in Workers :
           /\ pc[w] = "idle"
           /\ Becomes(r, [q EXCEPT !.child = w])
           /\ job' = [job EXCEPT ![w] = r]
           /\ Goes(w, "decode") /\ UNCHANGED fin
    \/ /\ \A w \in Workers : pc[w] # "idle"
       /\ Becomes(r, GiveUp(q))
       /\ UNCHANGED threads

\* Mutant of Replaceable: a request that waits is dropped for a newer one.
ReplaceableWaiting(r) == req[r].child = None

\* The old request of the slot can make room for the new one.
Replaceable(r) == req[r].child = None /\ req[r].finished

Fits(l) == max_requests = 0 \/ Cardinality(l) <= max_requests

\* The main thread's place in the list when the requests in old leave it.
After(old) ==
    IF last_request \in old THEN rl_next(last_request) ELSE {last_request}

\* rad_process and rad_check_list for a request nobody has seen: it takes the
\* place of a finished one in its slot, or is dropped.
Receive(r, s) ==
    LET old == Slot(s)  left == list \ old
        q == [Unused EXCEPT !.slot = s] IN
    /\ Receiving
    /\ req[r].slot = None
    /\ \A o \in old : Replaceable(o)
    /\ last_request' \in After(old)
    /\ fault' = IF \A o \in old : req[o].child = None THEN fault ELSE "assert"
    /\ IF Fits(left)
       THEN list' = left \cup {r} /\ Spawn(r, q)
       ELSE list' = left /\ UNCHANGED <<req, threads>>
    /\ Received

\* rad_check_list for a request in the list, received once more: the reply is
\* sent again, or the home server is asked again.
Retransmit(r) ==
    LET q == req[r] IN
    /\ Receiving
    /\ r \in list /\ Replaceable(r)
    /\ \/ Delayed(q) /\ Becomes(r, SendDelayed(q))
       \/ ~Delayed(q) /\ q.code # "none" /\ Becomes(r, rad_send(q))
       \/ /\ ~Delayed(q) /\ q.code = "none"
          /\ q.proxy = "waiting" /\ proxy_synchronous
          /\ q.asked < MaxAsked
          /\ Becomes(r, [q EXCEPT !.asked = @ + 1])
       \/ /\ ~Delayed(q) /\ q.code = "none"
          /\ ~(q.proxy = "waiting" /\ proxy_synchronous)
          /\ UNCHANGED req
    /\ Received
    /\ UNCHANGED <<list, threads, last_request, fault>>

\* A packet for a request that is being worked on or waited for is dropped.
Drop(r) ==
    /\ Receiving
    /\ r \in list /\ ~Replaceable(r)
    /\ Received
    /\ UNCHANGED <<req, list, threads, last_request, fault>>

\* proxy_check_list finds the request that waits for this reply.
Awaited(r) ==
    /\ r \in list
    /\ req[r].child = None
    /\ req[r].code = "none" /\ ~req[r].finished
    /\ req[r].proxy = "waiting"

\* The home server answers a packet it was sent, perhaps not the first time.
HomeReply(r) ==
    /\ Receiving
    /\ req[r].asked > 0
    /\ IF Awaited(r)
       THEN Spawn(r, [req[r] EXCEPT !.age = 0, !.proxy = "replied"])
       ELSE UNCHANGED <<req, threads>>
    /\ Received
    /\ UNCHANGED <<list, last_request, fault>>

-----------------------------------------------------------------------------
(* The main thread: rad_clean_list.                                        *)

\* Mutant of Expired: the second in which it is over must not be missed.
ExpiredOnTime(q) ==
    q.finished /\ (q.age = cleanup_delay \/ "DONT_CACHE" \in q.options)

\* The reply has been kept for the time a duplicate might take.
Expired(q) ==
    q.finished /\ (q.age >= cleanup_delay \/ "DONT_CACHE" \in q.options)

\* The delayed reject goes out.
Undelayed(q) ==
    IF q.finished /\ Delayed(q) /\ q.age >= reject_delay
    THEN SendDelayed(q) ELSE q

\* A request that has been there for too long: it waits for a home server, or
\* a thread may still have it.  Then rad_reject sets the code ...
Late(r, q) ==
    /\ \/ /\ q.proxy = "waiting" /\ q.child # None
          /\ fault' = "assert" /\ UNCHANGED <<req, rejecting>>
       \/ /\ q.proxy = "waiting" /\ q.child = None
          /\ Becomes(r, GiveUp(q)) /\ UNCHANGED <<rejecting, fault>>
       \/ /\ q.proxy # "waiting" /\ "REJECTED" \in q.options
          /\ Becomes(r, [q EXCEPT !.child = None])
          /\ UNCHANGED <<rejecting, fault>>
       \/ /\ q.proxy # "waiting" /\ "REJECTED" \notin q.options
          /\ Becomes(r, [q EXCEPT !.code = RejectCode(q)])
          /\ rejecting' = r /\ UNCHANGED fault
    /\ UNCHANGED <<list, soon>>

\* Mutant of RejectEnds: the reply is left to the thread.
RejectEndsForgets ==
    /\ fault = "none" /\ rejecting # None
    /\ Becomes(rejecting, [req[rejecting] EXCEPT
                              !.options = @ \cup {"REJECTED"}, !.child = None])
    /\ rejecting' = None
    /\ UNCHANGED <<list, threads, main, turns, todo, soon, wake, cleaned,
                   last_request, fault>>

\* ... and goes on with the code the thread has left by then.
RejectEnds ==
    /\ fault = "none" /\ rejecting # None
    /\ Becomes(rejecting, [Rejected(req[rejecting]) EXCEPT !.child = None])
    /\ rejecting' = None
    /\ UNCHANGED <<list, threads, main, turns, todo, soon, wake, cleaned,
                   last_request, fault>>

\* The next packet to a home server that does not answer, or no more of them.
Retry(r, q) ==
    /\ soon' = TRUE
    /\ \/ Becomes(r, q)
       \/ /\ ~q.finished /\ proxy_requests /\ ~proxy_synchronous
          /\ q.proxy = "waiting"
          /\ \/ q.tries = 0 /\ Becomes(r, GiveUp(q))
             \/ /\ q.tries > 0 /\ q.asked < MaxAsked
                /\ Becomes(r, [q EXCEPT !.tries = @ - 1, !.asked = @ + 1])
    /\ UNCHANGED <<list, fault, rejecting>>

\* refresh_request.
refresh_request(r) ==
    LET q == Undelayed(req[r]) IN
    IF req[r].finished /\ req[r].child # None
       /\ (Delayed(req[r]) \/ Expired(q))
    THEN fault' = "assert" /\ UNCHANGED <<req, list, soon, rejecting>>
    ELSE IF Expired(q)
    THEN /\ list' = list \ {r} /\ Becomes(r, q)
         /\ UNCHANGED <<soon, fault, rejecting>>
    ELSE IF q.age >= max_request_time THEN Late(r, q)
    ELSE IF q.child # None THEN UNCHANGED <<req, list, soon, fault, rejecting>>
    ELSE Retry(r, q)

Cleaning == fault = "none" /\ main = "clean"

\* The list was walked this second already: a few requests are looked at.
CleanSome ==
    /\ Cleaning
    /\ wake /\ cleaned
    /\ last_request' \in IF last_request = None /\ list # {} THEN list
                         ELSE {last_request}
    /\ main' = "some" /\ turns' = cleanup_delay
    /\ UNCHANGED <<req, list, threads, todo, soon, wake, cleaned, rejecting,
                   fault>>

Some ==
    /\ fault = "none" /\ main = "some" /\ rejecting = None
    /\ IF last_request = None \/ turns = 0
       THEN /\ main' = "select" /\ turns' = 0
            /\ UNCHANGED <<req, list, soon, rejecting, last_request, fault>>
       ELSE /\ last_request' \in rl_next(last_request)
            /\ refresh_request(last_request)
            /\ turns' = turns - 1 /\ UNCHANGED main
    /\ UNCHANGED <<threads, todo, wake, cleaned>>

\* Mutant of CleanAll: the place in the list is kept while it is walked.
CleanAllKeepsPlace ==
    /\ Cleaning
    /\ cleaned' = TRUE
    /\ todo' = list
    /\ soon' = FALSE
    /\ main' = "walk"
    /\ UNCHANGED <<req, list, threads, turns, wake, rejecting, last_request,
                   fault>>

\* The whole list is walked.
CleanAll ==
    /\ Cleaning
    /\ cleaned' = TRUE
    /\ last_request' = None
    /\ todo' = list
    /\ soon' = FALSE
    /\ main' = "walk"
    /\ UNCHANGED <<req, list, threads, turns, wake, rejecting, fault>>

Walk(r) ==
    /\ fault = "none" /\ main = "walk" /\ rejecting = None
    /\ r \in todo
    /\ todo' = todo \ {r}
    /\ refresh_request(r)
    /\ UNCHANGED <<threads, main, turns, wake, cleaned, last_request>>

\* Mutant of WakesUp: whatever the requests in the list wait for.
WakesUpNever == soon

\* Shall select time out?
WakesUp == soon \/ (proxy_requests /\ ~proxy_synchronous /\ list # {})

WalkEnd ==
    /\ fault = "none" /\ main = "walk" /\ rejecting = None
    /\ todo = {}
    /\ wake' = WakesUp
    /\ main' = "select"
    /\ UNCHANGED <<req, list, threads, turns, todo, soon, cleaned, rejecting,
                   last_request, fault>>

\* select returns without a packet.
Timeout ==
    /\ fault = "none"
    /\ main = "select" /\ wake
    /\ main' = "clean"
    /\ UNCHANGED <<req, list, threads, turns, todo, soon, wake, cleaned,
                   rejecting, last_request, fault>>

\* A second passes.
Tick ==
    /\ fault = "none"
    /\ req' = [r \in Requests |->
                 IF r \in list /\ req[r].age < max_request_time
                 THEN [req[r] EXCEPT !.age = @ + 1] ELSE req[r]]
    /\ cleaned' = FALSE
    /\ UNCHANGED <<list, threads, main, turns, todo, soon, wake, rejecting,
                   last_request, fault>>

-----------------------------------------------------------------------------
Init ==
    /\ req = [r \in Requests |-> Unused]
    /\ list = {}
    /\ pc = [w \in Workers |-> "idle"]
    /\ job = [w \in Workers |-> None]
    /\ fin = [w \in Workers |-> FALSE]
    /\ main = "select"
    /\ turns = 0 /\ todo = {}
    /\ soon = FALSE /\ wake = FALSE /\ cleaned = FALSE
    /\ rejecting = None /\ last_request = None
    /\ fault = "none"

Packet ==
    \E r \in Requests :
        \/ \E s \in Slots : Receive(r, s)
        \/ Retransmit(r) \/ Drop(r) \/ HomeReply(r)

Clean ==
    \/ CleanSome \/ Some \/ CleanAll \/ (\E r \in Requests : Walk(r)) \/ WalkEnd
    \/ RejectEnds

Next == (\E w \in Workers : Work(w)) \/ Packet \/ Clean \/ Timeout \/ Tick

Spec == Init /\ [][Next]_vars

\* The threads run, the functions that handle a request return, the main
\* thread does what it has begun, and time passes.  Nobody has to send.
LoopFair == WF_vars(Clean) /\ WF_vars(Timeout) /\ WF_vars(Tick)
LiveSpec == Spec /\ LoopFair /\ \A w \in Workers : WF_vars(Work(w))

\* The same with functions that may hang in a module.
HungSpec ==
    Spec /\ LoopFair
         /\ \A w \in Workers : WF_vars(pc[w] \notin {"run", "rerun"} /\ Work(w))

-----------------------------------------------------------------------------
TypeOK ==
    /\ req \in [Requests -> Request]
    /\ list \subseteq Requests
    /\ pc \in [Workers -> {"idle", "decode", "run", "check", "redo", "rerun",
                           "decide", "prepare", "forward", "reply", "send",
                           "leave", "last"}]
    /\ job \in [Workers -> Requests \cup {None}]
    /\ fin \in [Workers -> BOOLEAN]
    /\ main \in {"select", "clean", "some", "walk"}
    /\ turns \in 0 .. cleanup_delay
    /\ todo \subseteq Requests
    /\ soon \in BOOLEAN /\ wake \in BOOLEAN /\ cleaned \in BOOLEAN
    /\ last_request \in Requests \cup {None}
    /\ rejecting \in Requests \cup {None}
    /\ fault \in {"none", "assert", "freed"}

\* No assertion of the request list fails, and no thread uses a request that
\* the main thread has freed: request_free (util.c), refresh_request.
NoFault == fault = "none"

\* No one should be using a request after it is finished: the main thread may
\* free it at any time from then on (radiusd.c, rad_respond).
FinishedIsLeft ==
    \A w \in Workers : pc[w] # "idle" =>
        job[w] \in list /\ ~req[job[w]].finished

\* There is only one process responding to each request: radiusd.c says that
\* rad_check_list verifies it.
OneThread ==
    \A v, w \in Workers : v # w /\ pc[v] # "idle" => job[v] # job[w]

\* The main thread's place in the list does not point to a freed request.
LastRequestListed == last_request \in list \cup {None}

\* A reply that a finished Access-Request has is sent or waits to be sent, so
\* that a thread that finds its request rejected in the meantime may leave it
\* as it is; but while rad_reject is at it (rad_respond, rad_reject).
ReplyIsSentOrDue ==
    \A r \in Requests :
        /\ req[r].slot \in Auth /\ req[r].code # "none"
        /\ req[r].finished /\ r # rejecting
        => req[r].sent # {} \/ Delayed(req[r])

\* A request that takes more than max_request_time may be killed, and a REJECT
\* message is returned (raddb/radiusd.conf.in): nothing else is, when nothing
\* had been encoded by then.
RefusedIsRefused ==
    \A r \in Requests : req[r].refused => req[r].sent \subseteq {"reject"}

\* max_requests is the maximum number of requests which the server keeps
\* track of (raddb/radiusd.conf.in).
ListWithinMax == max_requests > 0 => Cardinality(list) <= max_requests

\* The home server is sent a packet and its retries, retry_count in all
\* (proxy_try_count; raddb/proxy.conf).
HomeSpared == \A r \in Requests : req[r].asked <= proxy_retry_count

\* The wait for a home server that need not answer ends with its reply, or
\* with the end of the request, though threads that come late undo what the
\* main thread decided; but when an assertion ends the server first
\* (refresh_request, rad_respond).
HomeWaitEnds ==
    \A r \in Requests :
        req[r].proxy = "waiting"
            ~> req[r].proxy = "replied" \/ r \notin list \/ fault # "none"

\* Every request leaves the list in the end (rad_clean_list).
EveryRequestLeaves == \A r \in Requests : r \in list ~> r \notin list

\* A reject that is delayed is sent, or the request leaves with it: the NAS
\* has gone on to another.
DelayedRejectsAreSent ==
    \A r \in Requests :
        r \in list /\ Delayed(req[r]) ~> r \notin list \/ ~Delayed(req[r])

\* The REJECT message for a request that took too long is returned, in the end
\* (raddb/radiusd.conf.in).
LateIsRejected ==
    \A r \in Requests :
        r \in list /\ req[r].refused ~> "reject" \in req[r].sent

\* If the NAS re-sends a request that waits for the home server, the packet
\* for the home server is sent again at once (raddb/proxy.conf).
ResentAtOnce ==
    [][\A r \in Requests :
          /\ proxy_synchronous /\ req[r].asked \in 1 .. (MaxAsked - 1)
          /\ req[r].proxy = "waiting" /\ req[r].child = None
          /\ (Retransmit(r) \/ Drop(r))
          => req'[r].asked = req[r].asked + 1]_vars
=============================================================================
