------------------------ MODULE RadiusServer_proofs ------------------------
(***************************************************************************)
(* Proofs about RadiusServer: its types, the request list, the replies and *)
(* the retries of a home server, and, when no request is proxied, that the *)
(* main thread and the workers never use a request the other has given up  *)
(* or freed, and that no reply is left behind between them.                *)
(***************************************************************************)
EXTENDS RadiusServer, FiniteSetTheorems, TLAPS

-----------------------------------------------------------------------------
(* The operations on one request.                                          *)

\* What rad_send and rad_reject leave alone.
Keeps(p, q) ==
    /\ p.slot = q.slot /\ p.child = q.child /\ p.finished = q.finished
    /\ p.proxy = q.proxy /\ p.tries = q.tries /\ p.asked = q.asked

\* Sending a reply changes the encoded data and the history only.
LEMMA SendKeeps ==
    ASSUME NEW q \in Request
    PROVE  rad_send(q) \in Request /\ Keeps(rad_send(q), q)
           /\ rad_send(q).options = q.options /\ rad_send(q).code = q.code
           /\ rad_send(q).sent # {}
  BY DEF rad_send, Request, Codes, Keeps

LEMMA SendDelayedKeeps ==
    ASSUME NEW q \in Request
    PROVE  SendDelayed(q) \in Request /\ Keeps(SendDelayed(q), q)
           /\ SendDelayed(q).options = q.options \ {"DELAYED_REJECT"}
           /\ SendDelayed(q).code = q.code
           /\ SendDelayed(q).sent # {}
<1> DEFINE p == [q EXCEPT !.options = @ \ {"DELAYED_REJECT"}]
<1>1. p \in Request /\ Keeps(p, q)
      /\ p.options = q.options \ {"DELAYED_REJECT"}
      /\ p.code = q.code
  BY DEF Request, Options, Keeps
<1>2. SendDelayed(q) = rad_send(p)
  BY DEF SendDelayed
<1> HIDE DEF p
<1> QED
  BY <1>1, <1>2, SendKeeps DEF Keeps

LEMMA UndelayedKeeps ==
    ASSUME NEW q \in Request
    PROVE  Undelayed(q) \in Request /\ Keeps(Undelayed(q), q)
  BY SendDelayedKeeps DEF Undelayed, Keeps

\* The rest of rad_reject: the request is marked, a reply is sent or delayed.
LEMMA RejectedKeeps ==
    ASSUME NEW q \in Request
    PROVE  /\ Rejected(q) \in Request /\ Keeps(Rejected(q), q)
           /\ Rejected(q).code = q.code
           /\ q.code # "none" => Rejected(q).sent # {} \/ Delayed(Rejected(q))
<1> DEFINE delay == IF q.code # "none" /\ reject_delay > 0
                    THEN {"DELAYED_REJECT"} ELSE {}
           opts == q.options \cup {"REJECTED"} \cup delay
           m == [q EXCEPT
            !.options = @ \cup {"REJECTED"} \cup delay,
            !.refused = @ \/ (q.slot \in Auth /\ q.data = None)]
<1>1. /\ opts \in SUBSET Options
      /\ q.code # "none" /\ reject_delay > 0 => "DELAYED_REJECT" \in opts
  BY DEF Request, Options
<1>2. m.options = opts /\ m.code = q.code
  BY DEF Request
<1>3. m \in Request /\ Keeps(m, q)
  <2> HIDE DEF delay
  <2> QED
    BY <1>1 DEF Request, Keeps
<1>4. Rejected(q) = IF q.code # "none" /\ reject_delay = 0
                    THEN rad_send(m) ELSE m
  BY DEF Rejected
<1> HIDE DEF m, opts
<1>5. CASE q.code # "none" /\ reject_delay = 0
  BY <1>2, <1>3, <1>4, <1>5, SendKeeps DEF Keeps
<1>6. CASE ~(q.code # "none" /\ reject_delay = 0)
  BY <1>1, <1>2, <1>3, <1>4, <1>6, DelaysAssumption DEF Delayed
<1> QED
  BY <1>5, <1>6

\* Its first part: an Access-Request has a reject.
LEMMA CodeKeeps ==
    ASSUME NEW q \in Request, NEW c \in Codes
    PROVE  LET p == [q EXCEPT !.code = c]
           IN  /\ p \in Request /\ Keeps(p, q) /\ p.code = c
               /\ p.options = q.options /\ p.sent = q.sent
  BY DEF Request, Keeps

LEMMA RejectCodeType ==
    ASSUME NEW q \in Request
    PROVE  RejectCode(q) \in Codes
           /\ (q.slot \in Auth => RejectCode(q) = "reject")
  BY DEF RejectCode, Request, Codes

LEMMA RejectKeeps ==
    ASSUME NEW q \in Request
    PROVE  rad_reject(q) \in Request /\ Keeps(rad_reject(q), q)
<1> DEFINE p == [q EXCEPT !.code = RejectCode(q)]
<1>1. p \in Request /\ Keeps(p, q)
  BY CodeKeeps, RejectCodeType
<1>2. rad_reject(q) \in {q, Rejected(p)}
  BY DEF rad_reject
<1> HIDE DEF p
<1> QED
  BY <1>1, <1>2, RejectedKeeps DEF Keeps

LEMMA GiveUpKeeps ==
    ASSUME NEW q \in Request
    PROVE  /\ GiveUp(q) \in Request
           /\ GiveUp(q).slot = q.slot /\ GiveUp(q).child = q.child
           /\ GiveUp(q).proxy = q.proxy /\ GiveUp(q).finished
           /\ GiveUp(q).tries = q.tries /\ GiveUp(q).asked = q.asked
<1> DEFINE p == rad_reject(q)
<1>1. p \in Request /\ Keeps(p, q)
  BY RejectKeeps
<1> HIDE DEF p
<1> QED
  BY <1>1 DEF GiveUp, p, Request, Keeps

-----------------------------------------------------------------------------
(* Types.                                                                  *)

\* refresh_request keeps the types.
LEMMA RefreshType ==
    ASSUME TypeOK, NEW r \in Requests, refresh_request(r)
    PROVE  /\ req' \in [Requests -> Request] /\ list' \subseteq list
           /\ list \ {r} \subseteq list'
           /\ soon' \in BOOLEAN /\ fault' \in {"none", "assert", "freed"}
           /\ rejecting' \in {rejecting, r}
<1> DEFINE q == Undelayed(req[r])
<1>1. req[r] \in Request /\ q \in Request
  BY UndelayedKeeps DEF TypeOK
<1> HIDE DEF q
<1>2. GiveUp(q) \in Request /\ [q EXCEPT !.code = RejectCode(q)] \in Request
  BY <1>1, GiveUpKeeps, CodeKeeps, RejectCodeType
<1>3. [q EXCEPT !.child = None] \in Request
  BY <1>1 DEF Request
<1>4. q.tries > 0 /\ q.asked < MaxAsked =>
          [q EXCEPT !.tries = @ - 1, !.asked = @ + 1] \in Request
<2> SUFFICES ASSUME q.tries > 0, q.asked < MaxAsked
             PROVE  [q EXCEPT !.tries = @ - 1, !.asked = @ + 1] \in Request
  OBVIOUS
<2>1. q.tries - 1 \in 0 .. proxy_retry_count /\ q.asked + 1 \in 0 .. MaxAsked
  BY <1>1, ServerAssumption DEF Request
<2> QED
  BY <1>1, <2>1 DEF Request
<1>5. ASSUME NEW p \in Request, Becomes(r, p)
      PROVE  req' \in [Requests -> Request]
  BY <1>5 DEF Becomes, TypeOK
<1>6. CASE Late(r, q)
  BY <1>1, <1>2, <1>3, <1>5, <1>6 DEF Late, TypeOK
<1>7. CASE Retry(r, q)
  BY <1>1, <1>2, <1>4, <1>5, <1>7 DEF Retry, TypeOK
<1>8. CASE list' = list \ {r} /\ Becomes(r, q)
           /\ UNCHANGED <<soon, fault, rejecting>>
  BY <1>1, <1>5, <1>8 DEF TypeOK
<1>9. CASE UNCHANGED <<req, list, soon, rejecting>>
           /\ fault' \in {fault, "assert"}
  BY <1>9 DEF TypeOK
<1> QED
  BY <1>6, <1>7, <1>8, <1>9 DEF refresh_request, q

\* A request is handed to a thread or given up.
LEMMA SpawnType ==
    ASSUME TypeOK, NEW r \in Requests, NEW q \in Request, Spawn(r, q)
    PROVE  /\ req' \in [Requests -> Request]
           /\ pc' \in [Workers -> {"idle", "decode", "run", "check", "redo",
                                   "rerun", "decide", "prepare", "forward",
                                   "reply", "send", "leave", "last"}]
           /\ job' \in [Workers -> Requests \cup {None}]
           /\ fin' \in [Workers -> BOOLEAN]
<1>1. ASSUME NEW w \in Workers PROVE [q EXCEPT !.child = w] \in Request
  BY DEF Request
<1> QED
  BY <1>1, GiveUpKeeps DEF Spawn, Becomes, Goes, TypeOK, threads

\* A new request.
LEMMA UnusedType ==
    /\ Unused \in Request
    /\ \A s \in Slots : [Unused EXCEPT !.slot = s] \in Request
<1>1. /\ 0 \in 0 .. proxy_retry_count /\ 0 \in 0 .. max_request_time
      /\ 0 \in 0 .. MaxAsked
  BY ServerAssumption, DelaysAssumption
<1>2. Unused \in Request
  BY <1>1 DEF Unused, Request, Codes
<1> QED
  BY <1>2 DEF Request

LEMMA InitType == Init => TypeOK
<1> SUFFICES ASSUME Init PROVE TypeOK
  OBVIOUS
<1>1. 0 \in 0 .. cleanup_delay
  BY DelaysAssumption
<1> QED
  BY <1>1, UnusedType DEF Init, TypeOK

Pcs == {"idle", "decode", "run", "check", "redo", "rerun", "decide",
        "prepare", "forward", "reply", "send", "leave", "last"}

\* The threads keep the types.
LEMMA WorkType ==
    ASSUME TypeOK, NEW w \in Workers, Work(w)
    PROVE  TypeOK'
<1> DEFINE r == job[w]  q == req[r]
<1>1. CASE TouchFreed(w)
  BY <1>1 DEF TouchFreed, TypeOK, threads, loop
<1>2. CASE Last(w)
  <2>1. r \in Requests /\ q \in Request
    BY <1>2 DEF Last, At, TypeOK
  <2> QED
    BY <1>2, <2>1 DEF Last, Becomes, Goes, TypeOK, Request, loop
<1>3. CASE Leave(w)
  <2>1. r \in Requests /\ q \in Request
    BY <1>3 DEF Leave, At, TypeOK
  <2> QED
    BY <1>3, <2>1 DEF Leave, Becomes, Goes, OnlyRequest, TypeOK, Request, loop
<1>4. ASSUME r \in Requests, NEW p \in Request,
             \/ Becomes(r, p) \/ UNCHANGED req,
             \/ \E l \in Pcs : Goes(w, l) /\ UNCHANGED fin
             \/ \E b \in BOOLEAN : Ends(w, b),
             OnlyRequest
      PROVE  TypeOK'
  BY <1>4 DEF Becomes, Goes, Ends, OnlyRequest, Pcs, TypeOK, loop
<1>5. CASE Decode(w)
  <2>1. r \in Requests /\ q \in Request
    BY <1>5 DEF Decode, At, TypeOK
  <2>2. rad_reject(q) \in Request
    BY <2>1, RejectKeeps
  <2>3. \A o \in {{}, {"DONT_CACHE"}} :
            [q EXCEPT !.options = @ \cup o] \in Request
    BY <2>1 DEF Request, Options
  <2> QED
    BY <1>4, <1>5, <2>1, <2>2, <2>3 DEF Decode, Pcs
<1>6. ASSUME NEW l \in Pcs, NEW m \in Pcs, Runs(w, l, m) PROVE TypeOK'
  <2>1. r \in Requests /\ q \in Request
    BY <1>6 DEF Runs, At, TypeOK
  <2>2. Outcomes(q) \subseteq Codes
    BY <2>1 DEF Outcomes, Codes, Request
  <2>3. \A c \in Outcomes(q) : [q EXCEPT !.code = c] \in Request
    BY <2>1, <2>2, CodeKeeps
  <2> QED
    BY <1>4, <1>6, <2>1, <2>3 DEF Runs
<1>7. CASE Run(w) \/ Rerun(w)
  BY <1>6, <1>7 DEF Run, Rerun, Pcs
<1>8. CASE Check(w) \/ Redo(w)
  <2>1. r \in Requests /\ q \in Request
    BY <1>8 DEF Check, Redo, At, TypeOK
  <2>2. [q EXCEPT !.code = "none"] \in Request
    BY <2>1, CodeKeeps DEF Codes
  <2> QED
    BY <1>4, <1>8, <2>1, <2>2 DEF Check, Redo, Pcs
<1>9. CASE Decide(w) \/ Prepare(w)
  <2>1. r \in Requests /\ q \in Request
    BY <1>9 DEF Decide, Prepare, At, TypeOK
  <2>2. rad_reject(q) \in Request
    BY <2>1, RejectKeeps
  <2>3. Retries \in 0 .. proxy_retry_count
    BY ServerAssumption DEF Retries
  <2>4. [q EXCEPT !.proxy = "waiting", !.tries = Retries] \in Request
    BY <2>1, <2>3 DEF Request
  <2>5. CASE Decide(w)
    BY <1>4, <2>1, <2>2, <2>5 DEF Decide, Pcs
  <2>6. CASE Prepare(w)
    BY <1>4, <2>1, <2>4, <2>6 DEF Prepare, Pcs
  <2> QED
    BY <1>9, <2>5, <2>6
<1>10. CASE Forward(w)
  <2>1. r \in Requests /\ q \in Request
    BY <1>10 DEF Forward, At, TypeOK
  <2>2. rad_reject(q) \in Request
    BY <2>1, RejectKeeps
  <2>3. ASSUME q.asked < MaxAsked
        PROVE  [q EXCEPT !.asked = @ + 1] \in Request
    <3>1. q.asked + 1 \in 0 .. MaxAsked
      BY <2>1, <2>3, ServerAssumption DEF Request
    <3> QED
      BY <2>1, <3>1 DEF Request
  <2> QED
    BY <1>4, <1>10, <2>1, <2>2, <2>3 DEF Forward, Pcs
<1>11. CASE Reply(w) \/ Send(w)
  <2>1. r \in Requests /\ q \in Request
    BY <1>11 DEF Reply, Send, At, TypeOK
  <2>2. rad_send(q) \in Request
    BY <2>1, SendKeeps
  <2>3. [q EXCEPT !.options = @ \cup {"DELAYED_REJECT"}] \in Request
    BY <2>1 DEF Request, Options
  <2> QED
    BY <1>4, <1>11, <2>1, <2>2, <2>3 DEF Reply, Send, Pcs
<1> QED
  BY <1>1, <1>2, <1>3, <1>5, <1>7, <1>8, <1>9, <1>10, <1>11 DEF Work

\* So does the main thread.
LEMMA MainType ==
    ASSUME TypeOK, Packet \/ Clean \/ Timeout \/ Tick
    PROVE  TypeOK'
<1>1. ASSUME NEW r \in Requests, NEW s \in Slots, Receive(r, s) PROVE TypeOK'
  <2> DEFINE q == [Unused EXCEPT !.slot = s]
  <2>1. q \in Request
    BY UnusedType
  <2> HIDE DEF q
  <2>2. last_request' \in Requests \cup {None}
    BY <1>1 DEF Receive, After, rl_next, TypeOK
  <2>3. /\ list' \subseteq Requests
        /\ Spawn(r, q) \/ UNCHANGED <<req, threads>>
        /\ fault' \in {"none", "assert", "freed"}
    BY <1>1 DEF Receive, TypeOK, Slot, q
  <2>4. /\ main' = "clean"
        /\ UNCHANGED <<turns, todo, soon, wake, cleaned, rejecting>>
    BY <1>1 DEF Receive, Received
  <2> QED
    BY <2>1, <2>2, <2>3, <2>4, SpawnType DEF TypeOK, threads
<1>2. ASSUME NEW r \in Requests, Retransmit(r) PROVE TypeOK'
  <2> DEFINE q == req[r]
  <2>1. q \in Request
    BY DEF TypeOK
  <2>2. SendDelayed(q) \in Request /\ rad_send(q) \in Request
    BY <2>1, SendDelayedKeeps, SendKeeps
  <2>3. ASSUME q.asked < MaxAsked
        PROVE  [q EXCEPT !.asked = @ + 1] \in Request
    <3>1. q.asked + 1 \in 0 .. MaxAsked
      BY <2>1, <2>3, ServerAssumption DEF Request
    <3> QED
      BY <2>1, <3>1 DEF Request
  <2>4. \/ Becomes(r, SendDelayed(q)) \/ Becomes(r, rad_send(q))
        \/ q.asked < MaxAsked /\ Becomes(r, [q EXCEPT !.asked = @ + 1])
        \/ UNCHANGED req
    BY <1>2 DEF Retransmit
  <2> HIDE DEF q
  <2>5. req' \in [Requests -> Request]
    BY <2>2, <2>3, <2>4 DEF Becomes, TypeOK
  <2> QED
    BY <1>2, <2>5 DEF Retransmit, Received, TypeOK, threads
<1>3. ASSUME NEW r \in Requests, Drop(r) PROVE TypeOK'
  BY <1>3 DEF Drop, Received, TypeOK, threads
<1>4. ASSUME NEW r \in Requests, HomeReply(r) PROVE TypeOK'
  <2> DEFINE q == [req[r] EXCEPT !.age = 0, !.proxy = "replied"]
  <2>1. q \in Request
    <3>1. 0 \in 0 .. max_request_time
      BY DelaysAssumption
    <3>2. req[r] \in Request
      BY DEF TypeOK
    <3> QED
      BY <3>1, <3>2 DEF Request
  <2> HIDE DEF q
  <2>2. Spawn(r, q) \/ UNCHANGED <<req, threads>>
    BY <1>4 DEF HomeReply, q
  <2> QED
    BY <1>4, <2>1, <2>2, SpawnType DEF HomeReply, Received, TypeOK, threads
<1>5. CASE CleanSome
  <2>1. cleanup_delay \in 0 .. cleanup_delay
    BY DelaysAssumption
  <2> QED
    BY <1>5, <2>1 DEF CleanSome, TypeOK, threads
<1>6. CASE Some
  <2>1. 0 \in 0 .. cleanup_delay
    BY DelaysAssumption
  <2>2. CASE last_request = None \/ turns = 0
    BY <1>6, <2>1, <2>2 DEF Some, TypeOK, threads
  <2>3. CASE ~(last_request = None \/ turns = 0)
    <3>1. last_request \in Requests /\ refresh_request(last_request)
      BY <1>6, <2>3 DEF Some, TypeOK
    <3>2. turns - 1 \in 0 .. cleanup_delay
      BY <2>3, DelaysAssumption DEF TypeOK
    <3>3. last_request' \in Requests \cup {None}
      BY <1>6, <2>3 DEF Some, rl_next, TypeOK
    <3> QED
      BY <1>6, <2>3, <3>1, <3>2, <3>3, RefreshType DEF Some, TypeOK, threads
  <2> QED
    BY <2>2, <2>3
<1>7. CASE CleanAll
  BY <1>7 DEF CleanAll, TypeOK, threads
<1>8. ASSUME NEW r \in Requests, Walk(r) PROVE TypeOK'
  <2>1. refresh_request(r)
    BY <1>8 DEF Walk
  <2> QED
    BY <1>8, <2>1, RefreshType DEF Walk, TypeOK, threads
<1>9. CASE WalkEnd
  <2>1. WakesUp \in BOOLEAN
    BY DEF WakesUp, TypeOK
  <2> QED
    BY <1>9, <2>1 DEF WalkEnd, TypeOK, threads
<1>10. CASE Timeout
  BY <1>10 DEF Timeout, TypeOK, threads
<1>11. CASE Tick
  <2>1. ASSUME NEW r \in Requests, req[r].age < max_request_time
        PROVE  [req[r] EXCEPT !.age = @ + 1] \in Request
    <3>1. req[r] \in Request
      BY DEF TypeOK
    <3>2. req[r].age + 1 \in 0 .. max_request_time
      BY <2>1, <3>1, DelaysAssumption DEF Request
    <3> QED
      BY <3>1, <3>2 DEF Request
  <2> QED
    BY <1>11, <2>1 DEF Tick, TypeOK, threads
<1>12. CASE RejectEnds
  <2> DEFINE p == Rejected(req[rejecting])
  <2>1. rejecting \in Requests /\ req[rejecting] \in Request
    BY <1>12 DEF RejectEnds, TypeOK
  <2>2. p \in Request
    BY <2>1, RejectedKeeps
  <2> HIDE DEF p
  <2>3. [p EXCEPT !.child = None] \in Request
    BY <2>2 DEF Request
  <2>4. Becomes(rejecting, [p EXCEPT !.child = None])
    BY <1>12 DEF RejectEnds, p
  <2> QED
    BY <1>12, <2>1, <2>3, <2>4 DEF RejectEnds, Becomes, TypeOK, threads
<1> QED
  BY <1>1, <1>2, <1>3, <1>4, <1>5, <1>6, <1>7, <1>8, <1>9, <1>10, <1>11, <1>12
  DEF Packet, Clean

LEMMA TypeStep == TypeOK /\ [Next]_vars => TypeOK'
<1>1. ASSUME TypeOK, UNCHANGED vars PROVE TypeOK'
  BY <1>1 DEF TypeOK, vars, threads, loop
<1> QED
  BY <1>1, WorkType, MainType DEF Next

\* The server's variables keep their types, the counters of retries and of
\* packets to the home server among them (radiusd.c, proxy.c).
THEOREM Types == Spec => []TypeOK
  BY InitType, TypeStep, PTL DEF Spec

-----------------------------------------------------------------------------
(* The request list and the place the main thread keeps in it, whatever     *)
(* home servers there are.                                                  *)

\* What is in the list came from a NAS, and is there once.
ListedOnce ==
    /\ \A r \in list : req[r].slot # None
    /\ \A a, b \in list : req[a].slot = req[b].slot => a = b

\* The walk goes over listed requests, and so does rad_reject for it.
ListIsKnown ==
    /\ todo \subseteq list /\ (main # "walk" => todo = {})
    /\ main = "walk" => last_request = None
    /\ rejecting # None => rejecting \in list /\ main \in {"some", "walk"}

\* A structure that was never used is blank.
Fresh == \A r \in Requests : req[r].slot = None => req[r] = Unused

ListInv == ListedOnce /\ ListIsKnown /\ LastRequestListed /\ Fresh

\* What most steps do to a request: no thread is given it, and whether it was
\* proxied does not change.
Modest(p, q) ==
    /\ p.slot = q.slot /\ p.child \in {None, q.child}
    /\ p.proxy = "none" <=> q.proxy = "none"
    /\ q.proxy = "none" => p.tries = q.tries /\ p.asked = q.asked

\* The packets sent to the home server and those still to be tried.
Spares(p, q) == p.asked + p.tries <= q.asked + q.tries

LEMMA SameModest ==
    ASSUME NEW q \in Request, NEW p \in Request, p.slot = q.slot,
           p.child \in {None, q.child},
           p.proxy = q.proxy, p.tries = q.tries, p.asked = q.asked
    PROVE  Modest(p, q) /\ Spares(p, q)
<1>1. p.asked + p.tries <= q.asked + q.tries
  BY ServerAssumption DEF Request
<1> QED
  BY <1>1 DEF Modest, Spares

LEMMA KeepsModest ==
    ASSUME NEW q \in Request, NEW p \in Request, Keeps(p, q)
    PROVE  Modest(p, q) /\ Spares(p, q)
  BY SameModest DEF Keeps

\* One request is changed.
LEMMA OneChanges ==
    ASSUME TypeOK, NEW r \in Requests, NEW p, Becomes(r, p)
    PROVE  /\ req'[r] = p
           /\ \A x \in Requests : x # r => req'[x] = req[x]
  BY DEF Becomes, TypeOK

\* refresh_request.
LEMMA RefreshModest ==
    ASSUME TypeOK, NEW r \in Requests, refresh_request(r)
    PROVE  /\ Modest(req'[r], req[r]) /\ Spares(req'[r], req[r])
           /\ \A x \in Requests : x # r => req'[x] = req[x]
           /\ list' \subseteq list /\ list \ {r} \subseteq list'
           /\ \/ rejecting' = rejecting
              \/ rejecting' = r /\ list' = list
<1> DEFINE q == Undelayed(req[r])
<1>1. req[r] \in Request /\ q \in Request /\ Keeps(q, req[r])
  BY UndelayedKeeps DEF TypeOK
<1>2. \/ list' = list \ {r} /\ Becomes(r, q) /\ rejecting' = rejecting
      \/ Late(r, q)
      \/ Retry(r, q)
      \/ UNCHANGED <<req, list, rejecting>>
  BY DEF refresh_request
<1> HIDE DEF q
<1>3. CASE list' = list \ {r} /\ Becomes(r, q) /\ rejecting' = rejecting
  BY <1>1, <1>3, OneChanges, KeepsModest
<1>4. CASE UNCHANGED <<req, list, rejecting>>
  BY <1>1, <1>4, KeepsModest DEF Keeps
<1>5. CASE Late(r, q)
  <2> DEFINE p == [q EXCEPT !.child = None]
             c == [q EXCEPT !.code = RejectCode(q)]
  <2>1. GiveUp(q) \in Request /\ Modest(GiveUp(q), req[r])
        /\ Spares(GiveUp(q), req[r])
    BY <1>1, GiveUpKeeps, SameModest DEF Keeps
  <2>2. c \in Request /\ Modest(c, req[r]) /\ Spares(c, req[r])
    <3>1. c \in Request /\ Keeps(c, q)
      BY <1>1, CodeKeeps, RejectCodeType
    <3> HIDE DEF c
    <3> QED
      BY <1>1, <3>1, SameModest DEF Keeps
  <2>3. /\ p \in Request /\ p.child = None /\ p.slot = q.slot
        /\ p.proxy = q.proxy /\ p.tries = q.tries /\ p.asked = q.asked
    BY <1>1 DEF Request
  <2>4. list' = list /\ (Becomes(r, GiveUp(q)) \/ Becomes(r, p)
                         \/ Becomes(r, c) \/ UNCHANGED req)
        /\ rejecting' \in {rejecting, r}
    BY <1>5 DEF Late
  <2> HIDE DEF p, c
  <2>5. Modest(p, req[r]) /\ Spares(p, req[r])
    BY <1>1, <2>3, SameModest DEF Keeps
  <2>6. CASE UNCHANGED req
    BY <1>1, <2>4, <2>6, KeepsModest DEF Keeps
  <2> QED
    BY <2>1, <2>2, <2>4, <2>5, <2>6, OneChanges
<1>6. CASE Retry(r, q)
  <2> DEFINE p == [q EXCEPT !.tries = @ - 1, !.asked = @ + 1]
  <2>1. GiveUp(q) \in Request /\ Modest(GiveUp(q), req[r])
        /\ Spares(GiveUp(q), req[r])
    BY <1>1, GiveUpKeeps, SameModest DEF Keeps
  <2>2. /\ p.slot = q.slot /\ p.child = q.child /\ p.proxy = q.proxy
        /\ p.tries = q.tries - 1 /\ p.asked = q.asked + 1
    BY <1>1 DEF Request
  <2> HIDE DEF p
  <2>3. ASSUME q.proxy = "waiting" PROVE Modest(p, req[r]) /\ Spares(p, req[r])
    <3>1. Modest(p, req[r])
      BY <1>1, <2>2, <2>3 DEF Keeps, Modest
    <3>2. q.tries \in Nat /\ q.asked \in Nat
      BY <1>1 DEF Request
    <3>3. Spares(p, req[r])
      BY <1>1, <2>2, <3>2 DEF Keeps, Spares
    <3> QED
      BY <3>1, <3>3
  <2>4. /\ list' = list /\ rejecting' = rejecting
        /\ \/ Becomes(r, q) \/ Becomes(r, GiveUp(q))
           \/ q.proxy = "waiting" /\ Becomes(r, p)
    BY <1>6 DEF Retry, p
  <2> QED
    BY <1>1, <2>1, <2>3, <2>4, OneChanges, KeepsModest
<1> QED
  BY <1>2, <1>3, <1>4, <1>5, <1>6

\* What a step of thread w is to its request: a modest one, ...
Moves(w) ==
    /\ \A x \in Requests : Modest(req'[x], req[x]) /\ Spares(req'[x], req[x])
    /\ pc[w] # "idle"
    /\ \E l \in Pcs \ {"forward"} :
          /\ pc' = [pc EXCEPT ![w] = l]
          /\ l = "prepare" => req[job[w]].proxy = "none"
          /\ job' = job \/ (l = "idle" /\ job' = [job EXCEPT ![w] = None])

\* ... the beginning of its way to a home server, ...
Starts(w) ==
    /\ pc[w] = "prepare"
    /\ Becomes(job[w], [req[job[w]] EXCEPT !.proxy = "waiting",
                                           !.tries = Retries])
    /\ pc' = [pc EXCEPT ![w] = "forward"] /\ job' = job

\* ... or the first packet to the home server.
Sent(w) ==
    /\ pc[w] = "forward"
    /\ Becomes(job[w], [req[job[w]] EXCEPT !.asked = @ + 1])
    /\ pc' = [pc EXCEPT ![w] = "leave"] /\ job' = job

LEMMA WorkModest ==
    ASSUME TypeOK, NEW w \in Workers, Work(w), ~TouchFreed(w)
    PROVE  /\ UNCHANGED <<list, todo, main, last_request, rejecting>>
           /\ job[w] \in list /\ job[w] \in Requests
           /\ \A x \in Requests : x # job[w] => req'[x] = req[x]
           /\ Moves(w) \/ Starts(w) \/ Sent(w)
<1> DEFINE r == job[w]  q == req[r]
           Goal == /\ \A x \in Requests : x # r => req'[x] = req[x]
                   /\ Moves(w) \/ Starts(w) \/ Sent(w)
<1>1. /\ UNCHANGED <<list, todo, main, last_request, rejecting>>
      /\ r \in list /\ r \in Requests /\ q \in Request /\ pc[w] # "idle"
  BY DEF Work, Decode, Run, Rerun, Runs, Check, Redo, Decide, Prepare, Forward,
         Reply, Send, Leave, Last, At, OnlyRequest, loop, TypeOK
<1>2. ASSUME NEW p \in Request, Modest(p, q), Spares(p, q),
             Becomes(r, p) \/ UNCHANGED req,
             \/ \E l \in Pcs \ {"forward", "prepare"} : Goes(w, l)
             \/ Goes(w, "prepare") /\ q.proxy = "none"
             \/ \E b \in BOOLEAN : Ends(w, b),
             job' = job \/ (Goes(w, "idle") /\ job' = [job EXCEPT ![w] = None])
      PROVE  Goal
  <2>1. \A x \in Requests : Modest(req[x], req[x]) /\ Spares(req[x], req[x])
    BY KeepsModest DEF Keeps, TypeOK
  <2>2. /\ \A x \in Requests : Modest(req'[x], req[x]) /\ Spares(req'[x], req[x])
        /\ \A x \in Requests : x # r => req'[x] = req[x]
    BY <1>1, <1>2, <2>1, OneChanges
  <2>3. \E l \in Pcs \ {"forward"} :
            /\ pc' = [pc EXCEPT ![w] = l]
            /\ l = "prepare" => q.proxy = "none"
            /\ job' = job \/ (l = "idle" /\ job' = [job EXCEPT ![w] = None])
    BY <1>2 DEF Goes, Ends, Pcs
  <2> QED
    BY <1>1, <2>2, <2>3 DEF Moves
<1>3. Modest(q, q) /\ Spares(q, q)
  BY <1>1, KeepsModest DEF Keeps
<1>4. /\ rad_reject(q) \in Request /\ rad_send(q) \in Request
      /\ Modest(rad_reject(q), q) /\ Spares(rad_reject(q), q)
      /\ Modest(rad_send(q), q) /\ Spares(rad_send(q), q)
  BY <1>1, RejectKeeps, SendKeeps, KeepsModest
<1>5. Outcomes(q) \subseteq Codes
  BY <1>1 DEF Outcomes, Codes, Request
<1>6. \A c \in Codes : LET p == [q EXCEPT !.code = c]
                       IN  p \in Request /\ Modest(p, q) /\ Spares(p, q)
  BY <1>1, CodeKeeps, KeepsModest
<1>7. \A o \in SUBSET Options :
          LET p == [q EXCEPT !.options = @ \cup o]
          IN  p \in Request /\ Modest(p, q) /\ Spares(p, q)
  <2> SUFFICES ASSUME NEW o \in SUBSET Options
               PROVE  LET p == [q EXCEPT !.options = @ \cup o]
                      IN  p \in Request /\ Keeps(p, q)
    BY <1>1, KeepsModest
  <2> QED
    BY <1>1 DEF Request, Keeps
<1>8. LET p == [q EXCEPT !.child = None]
      IN  p \in Request /\ Modest(p, q) /\ Spares(p, q)
  <2>1. LET p == [q EXCEPT !.child = None]
        IN  /\ p \in Request /\ p.slot = q.slot /\ p.child = None
            /\ p.proxy = q.proxy /\ p.tries = q.tries /\ p.asked = q.asked
    BY <1>1 DEF Request
  <2> QED
    BY <1>1, <2>1, SameModest
<1>9. LET p == [q EXCEPT !.finished = fin[w]]
      IN  p \in Request /\ Modest(p, q) /\ Spares(p, q)
  <2>1. LET p == [q EXCEPT !.finished = fin[w]]
        IN  /\ p \in Request /\ p.slot = q.slot /\ p.child = q.child
            /\ p.proxy = q.proxy /\ p.tries = q.tries /\ p.asked = q.asked
    BY <1>1 DEF Request, TypeOK
  <2> QED
    BY <1>1, <2>1, SameModest
<1> SUFFICES Goal
  BY <1>1
<1> HIDE DEF q, Goal
<1>10. CASE Decode(w)
  BY <1>1, <1>2, <1>3, <1>4, <1>7, <1>10 DEF Decode, OnlyRequest, Options, Pcs, q
<1>11. CASE Run(w) \/ Rerun(w)
  BY <1>1, <1>2, <1>5, <1>6, <1>11 DEF Run, Rerun, Runs, OnlyRequest, Pcs, q
<1>12. CASE Check(w) \/ Redo(w)
  BY <1>1, <1>2, <1>3, <1>6, <1>12 DEF Check, Redo, Codes, OnlyRequest, Pcs, q
<1>13. CASE Decide(w)
  <2>1. /\ Becomes(r, rad_reject(q)) \/ UNCHANGED req
        /\ \/ Goes(w, "reply") \/ Ends(w, TRUE)
           \/ Goes(w, "prepare") /\ q.proxy = "none"
        /\ job' = job
    BY <1>13 DEF Decide, OnlyRequest, q
  <2> QED
    BY <1>1, <1>2, <1>3, <1>4, <2>1 DEF Pcs
<1>18. CASE Prepare(w)
  <2>1. Starts(w)
    BY <1>18 DEF Prepare, At, Starts, Goes, OnlyRequest
  <2> QED
    BY <1>1, <2>1, OneChanges DEF Starts, Goal
<1>14. CASE Forward(w)
  <2>1. (Becomes(r, rad_reject(q)) /\ Ends(w, TRUE) /\ job' = job) \/ Sent(w)
    BY <1>14 DEF Forward, At, Sent, Goes, Ends, OnlyRequest, q
  <2>2. CASE Sent(w)
    BY <1>1, <2>2, OneChanges DEF Sent, Goal
  <2> QED
    BY <1>1, <1>2, <1>4, <2>1, <2>2
<1>15. CASE Reply(w) \/ Send(w)
  BY <1>1, <1>2, <1>3, <1>4, <1>7, <1>15
  DEF Reply, Send, OnlyRequest, Options, Pcs, q
<1>16. CASE Leave(w)
  BY <1>1, <1>2, <1>8, <1>16 DEF Leave, OnlyRequest, Pcs, q
<1>17. CASE Last(w)
  BY <1>1, <1>2, <1>9, <1>17 DEF Last, OnlyRequest, Pcs, q
<1> QED
  BY <1>10, <1>11, <1>12, <1>13, <1>14, <1>15, <1>16, <1>17,
     <1>18 DEF Work

\* A step of the main thread that hands no request to a thread.
Quiet ==
    /\ UNCHANGED <<pc, job>> /\ list' \subseteq list
    /\ \A x \in Requests :
          Modest(req'[x], req[x]) /\ (proxy_synchronous \/ Spares(req'[x], req[x]))
    /\ \A x \in Requests \ list : req'[x] = req[x]
    /\ LastRequestListed' /\ ListIsKnown'

LEMMA UnchangedModest ==
    ASSUME TypeOK, UNCHANGED req
    PROVE  \A x \in Requests : Modest(req'[x], req[x]) /\ Spares(req'[x], req[x])
  BY KeepsModest DEF Keeps, TypeOK

LEMMA QuietPacket ==
    ASSUME TypeOK, ListInv, NEW r \in Requests,
           \/ Retransmit(r) \/ Drop(r)
           \/ HomeReply(r) /\ ~Awaited(r)
    PROVE  Quiet
<1> USE DEF ListInv
<1>1. /\ UNCHANGED <<pc, job, list, todo, last_request, rejecting>>
      /\ main \in {"select", "clean"} /\ main' # "walk"
  BY DEF Retransmit, Drop, HomeReply, Receiving, Received, threads
<1>2. LastRequestListed' /\ ListIsKnown'
  BY <1>1 DEF LastRequestListed, ListIsKnown
<1>3. CASE UNCHANGED req
  BY <1>1, <1>2, <1>3, UnchangedModest DEF Quiet
<1>4. CASE Retransmit(r)
  <2> DEFINE q == req[r]
             p == [q EXCEPT !.asked = @ + 1]
  <2>1. q \in Request
    BY DEF TypeOK
  <2>2. /\ SendDelayed(q) \in Request /\ Modest(SendDelayed(q), q)
        /\ Spares(SendDelayed(q), q)
        /\ rad_send(q) \in Request /\ Modest(rad_send(q), q)
        /\ Spares(rad_send(q), q)
    BY <2>1, SendDelayedKeeps, SendKeeps, KeepsModest
  <2>3. q.proxy = "waiting" => Modest(p, q)
    BY <2>1 DEF Modest, Request
  <2>4. /\ r \in list
        /\ \/ Becomes(r, SendDelayed(q)) \/ Becomes(r, rad_send(q))
           \/ q.proxy = "waiting" /\ proxy_synchronous /\ Becomes(r, p)
           \/ UNCHANGED req
    BY <1>4 DEF Retransmit
  <2> HIDE DEF p
  <2>5. \A x \in Requests : Modest(req[x], req[x]) /\ Spares(req[x], req[x])
    BY KeepsModest DEF Keeps, TypeOK
  <2> QED
    BY <1>1, <1>2, <1>3, <2>2, <2>3, <2>4, <2>5, OneChanges DEF Quiet
<1> QED
  BY <1>3, <1>4 DEF Drop, HomeReply

LEMMA QuietClean ==
    ASSUME TypeOK, ListInv, Clean \/ Tick
    PROVE  Quiet
<1> USE DEF ListInv
<1>1. \A x \in Requests : Modest(req[x], req[x]) /\ Spares(req[x], req[x])
  BY KeepsModest DEF Keeps, TypeOK
<1>2. CASE CleanSome
  <2>1. last_request' \in list \cup {None} /\ list' = list
    BY <1>2 DEF CleanSome, LastRequestListed
  <2>2. main = "clean" /\ main' = "some" /\ UNCHANGED <<todo, rejecting>>
    BY <1>2 DEF CleanSome, Cleaning
  <2>3. UNCHANGED <<req, pc, job>>
    BY <1>2 DEF CleanSome, threads
  <2> QED
    BY <1>1, <2>1, <2>2, <2>3 DEF LastRequestListed, ListIsKnown, Quiet
<1>3. CASE Some
  <2>1. CASE last_request = None \/ turns = 0
    <3>1. /\ UNCHANGED <<req, list, pc, job, last_request, todo, rejecting>>
          /\ main # "walk" /\ main' # "walk" /\ rejecting = None
      BY <1>3, <2>1 DEF Some, threads
    <3> QED
      BY <1>1, <3>1 DEF LastRequestListed, ListIsKnown, Quiet
  <2>2. CASE ~(last_request = None \/ turns = 0)
    <3>1. /\ last_request \in list /\ refresh_request(last_request)
          /\ last_request' \in (list \ {last_request}) \cup {None}
          /\ UNCHANGED <<pc, job, todo, main>> /\ main = "some"
          /\ rejecting = None
      BY <1>3, <2>2 DEF Some, LastRequestListed, rl_next, threads
    <3> QED
      BY <1>1, <3>1, RefreshModest
      DEF LastRequestListed, ListIsKnown, Quiet, TypeOK
  <2> QED
    BY <2>1, <2>2
<1>4. CASE CleanAll
  BY <1>1, <1>4 DEF CleanAll, Cleaning, Quiet, LastRequestListed, ListIsKnown, threads
<1>5. ASSUME NEW r \in Requests, Walk(r) PROVE Quiet
  <2>1. /\ r \in list /\ refresh_request(r) /\ todo' = todo \ {r}
        /\ last_request = None /\ main = "walk" /\ rejecting = None
        /\ UNCHANGED <<pc, job, main, last_request>>
    BY <1>5 DEF Walk, ListIsKnown, threads
  <2> QED
    BY <1>1, <2>1, RefreshModest DEF LastRequestListed, ListIsKnown, Quiet
<1>6. CASE WalkEnd
  BY <1>1, <1>6 DEF WalkEnd, Quiet, LastRequestListed, ListIsKnown, threads
<1>7. CASE Tick
  <2>1. ASSUME NEW x \in Requests
        PROVE  Modest(req'[x], req[x]) /\ Spares(req'[x], req[x])
    <3>1. /\ req[x] \in Request /\ req'[x] \in Request
      BY <1>7, MainType DEF TypeOK
    <3>2. Keeps(req'[x], req[x])
      BY <1>7, <3>1 DEF Tick, Request, Keeps
    <3> QED
      BY <3>1, <3>2, KeepsModest
  <2> QED
    BY <1>7, <2>1 DEF Tick, Quiet, LastRequestListed, ListIsKnown, threads
<1>8. CASE RejectEnds
  <2> DEFINE q == req[rejecting]
             p == Rejected(q)
             m == [p EXCEPT !.child = None]
  <2>1. rejecting \in list /\ rejecting \in Requests /\ q \in Request
    BY <1>8 DEF RejectEnds, ListIsKnown, TypeOK
  <2>2. p \in Request /\ Keeps(p, q)
    BY <2>1, RejectedKeeps
  <2>3. Becomes(rejecting, m)
    BY <1>8 DEF RejectEnds
  <2> HIDE DEF p
  <2>4. /\ m \in Request /\ m.child = None /\ m.slot = p.slot
        /\ m.proxy = p.proxy /\ m.tries = p.tries /\ m.asked = p.asked
    BY <2>2 DEF Request
  <2> HIDE DEF m
  <2>5. Modest(m, q) /\ Spares(m, q)
    BY <2>1, <2>2, <2>4, SameModest DEF Keeps
  <2>6. \A x \in Requests : /\ Modest(req'[x], req[x])
                            /\ Spares(req'[x], req[x])
                            /\ x # rejecting => req'[x] = req[x]
    BY <1>1, <2>1, <2>3, <2>5, OneChanges
  <2> QED
    BY <1>8, <2>1, <2>6
    DEF RejectEnds, Quiet, LastRequestListed, ListIsKnown, threads
<1> QED
  BY <1>2, <1>3, <1>4, <1>5, <1>6, <1>7, <1>8 DEF Clean

\* What Spawn does to the request, and to the threads.
LEMMA SpawnModest ==
    ASSUME TypeOK, NEW r \in Requests, NEW q \in Request, Spawn(r, q)
    PROVE  /\ \A x \in Requests : x # r => req'[x] = req[x]
           /\ req'[r].slot = q.slot /\ req'[r].proxy = q.proxy
           /\ req'[r].tries = q.tries /\ req'[r].asked = q.asked
           /\ \/ UNCHANGED <<pc, job>>
              \/ \E w \in Workers :
                    /\ pc[w] = "idle"
                    /\ pc' = [pc EXCEPT ![w] = "decode"]
                    /\ job' = [job EXCEPT ![w] = r]
<1>1. CASE Becomes(r, GiveUp(q)) /\ UNCHANGED threads
  BY <1>1, OneChanges, GiveUpKeeps DEF threads
<1>2. ASSUME NEW w \in Workers, pc[w] = "idle",
             Becomes(r, [q EXCEPT !.child = w]),
             job' = [job EXCEPT ![w] = r], Goes(w, "decode")
      PROVE  /\ \A x \in Requests : x # r => req'[x] = req[x]
             /\ req'[r].slot = q.slot /\ req'[r].proxy = q.proxy
             /\ req'[r].tries = q.tries /\ req'[r].asked = q.asked
             /\ pc' = [pc EXCEPT ![w] = "decode"]
  <2>1. LET p == [q EXCEPT !.child = w]
        IN  /\ p.slot = q.slot /\ p.proxy = q.proxy
            /\ p.tries = q.tries /\ p.asked = q.asked
    BY DEF Request
  <2> QED
    BY <1>2, <2>1, OneChanges DEF Goes
<1> QED
  BY <1>1, <1>2 DEF Spawn

\* A new request: the old ones of its slot leave the list.
LEMMA ReceiveModest ==
    ASSUME TypeOK, NEW r \in Requests, NEW s \in Slots, Receive(r, s)
    PROVE  /\ \A x \in Requests : x # r => req'[x] = req[x]
           /\ \/ list' = list \ Slot(s) /\ UNCHANGED <<req, pc, job>>
              \/ /\ list' = (list \ Slot(s)) \cup {r}
                 /\ req'[r].slot = s /\ req'[r].proxy = "none"
                 /\ req'[r].tries = 0 /\ req'[r].asked = 0
                 /\ \/ UNCHANGED <<pc, job>>
                    \/ \E w \in Workers :
                          /\ pc[w] = "idle"
                          /\ pc' = [pc EXCEPT ![w] = "decode"]
                          /\ job' = [job EXCEPT ![w] = r]
<1> DEFINE q == [Unused EXCEPT !.slot = s]
<1>1. /\ q \in Request /\ q.slot = s /\ q.proxy = "none" /\ q.tries = 0
      /\ q.asked = 0
  BY UnusedType DEF Unused
<1> HIDE DEF q
<1>2. \/ list' = (list \ Slot(s)) \cup {r} /\ Spawn(r, q)
      \/ list' = list \ Slot(s) /\ UNCHANGED <<req, threads>>
  BY DEF Receive, q
<1>3. CASE list' = list \ Slot(s) /\ UNCHANGED <<req, threads>>
  BY <1>3 DEF threads
<1>4. CASE list' = (list \ Slot(s)) \cup {r} /\ Spawn(r, q)
  BY <1>1, <1>4, SpawnModest
<1> QED
  BY <1>2, <1>3, <1>4

\* The first reply of the home server: a thread takes the request up.
LEMMA ReplyModest ==
    ASSUME TypeOK, NEW r \in Requests, HomeReply(r), Awaited(r)
    PROVE  /\ \A x \in Requests : x # r => req'[x] = req[x]
           /\ req'[r].slot = req[r].slot /\ req'[r].proxy = "replied"
           /\ req'[r].tries = req[r].tries /\ req'[r].asked = req[r].asked
           /\ \/ UNCHANGED <<pc, job>>
              \/ \E w \in Workers :
                    /\ pc[w] = "idle"
                    /\ pc' = [pc EXCEPT ![w] = "decode"]
                    /\ job' = [job EXCEPT ![w] = r]
<1> DEFINE q == [req[r] EXCEPT !.age = 0, !.proxy = "replied"]
<1>1. req[r] \in Request /\ 0 \in 0 .. max_request_time
  BY DelaysAssumption DEF TypeOK
<1>2. /\ q \in Request /\ q.slot = req[r].slot /\ q.proxy = "replied"
      /\ q.tries = req[r].tries /\ q.asked = req[r].asked
  BY <1>1 DEF Request
<1> HIDE DEF q
<1>3. Spawn(r, q)
  BY DEF HomeReply, q
<1> QED
  BY <1>2, <1>3, SpawnModest

\* The cases of a step, for the invariants below.
LEMMA StepCases ==
    ASSUME TypeOK, ListInv, [Next]_vars
    PROVE  \/ UNCHANGED <<req, list, todo, main, last_request, rejecting, pc, job>>
           \/ \E w \in Workers : Work(w) /\ ~TouchFreed(w)
           \/ \E r \in Requests, s \in Slots : Receive(r, s)
           \/ \E r \in Requests : HomeReply(r) /\ Awaited(r)
           \/ Quiet
<1>1. \/ UNCHANGED vars
      \/ \E w \in Workers : Work(w)
      \/ \E r \in Requests, s \in Slots : Receive(r, s)
      \/ \E r \in Requests : Retransmit(r) \/ Drop(r) \/ HomeReply(r)
      \/ Timeout \/ Clean \/ Tick
  BY DEF Next, Packet
<1>2. CASE UNCHANGED vars
  BY <1>2 DEF vars, threads, loop
<1>3. ASSUME NEW w \in Workers, TouchFreed(w)
      PROVE  UNCHANGED <<req, list, todo, main, last_request, rejecting, pc, job>>
  BY <1>3 DEF TouchFreed, threads, loop
<1>4. CASE Timeout
  <2>1. /\ UNCHANGED <<req, pc, job, list, todo, last_request, rejecting>>
        /\ main = "select" /\ main' # "walk"
    BY <1>4 DEF Timeout, threads
  <2> QED
    BY <2>1, UnchangedModest
    DEF Quiet, ListInv, LastRequestListed, ListIsKnown
<1> QED
  BY <1>1, <1>2, <1>3, <1>4, QuietPacket, QuietClean

\* A thread's step gives its request to no other thread.
LEMMA WorkSlots ==
    ASSUME TypeOK, NEW w \in Workers, Work(w), ~TouchFreed(w),
           NEW x \in Requests
    PROVE  req'[x].slot = req[x].slot /\ req'[x].child \in {None, req[x].child}
<1>1. CASE Moves(w)
  BY <1>1 DEF Moves, Modest
<1>2. CASE Starts(w) \/ Sent(w)
  <2>1. job[w] \in Requests /\ req[job[w]] \in Request
    BY WorkModest DEF TypeOK
  <2>2. \/ req'[job[w]] = [req[job[w]] EXCEPT !.proxy = "waiting",
                                              !.tries = Retries]
        \/ req'[job[w]] = [req[job[w]] EXCEPT !.asked = @ + 1]
    BY <1>2, <2>1 DEF Starts, Sent, Becomes, TypeOK
  <2>3. /\ req'[job[w]].slot = req[job[w]].slot
        /\ req'[job[w]].child = req[job[w]].child
    BY <2>1, <2>2 DEF Request
  <2> QED
    BY <2>1, <2>3, WorkModest
<1> QED
  BY <1>1, <1>2, WorkModest

LEMMA ListStep ==
    ASSUME TypeOK, ListInv, [Next]_vars
    PROVE  ListInv'
<1> USE DEF ListInv
<1>1. CASE UNCHANGED <<req, list, todo, main, last_request, rejecting, pc, job>>
  BY <1>1 DEF ListedOnce, ListIsKnown, LastRequestListed, Fresh
<1>2. ASSUME NEW w \in Workers, Work(w), ~TouchFreed(w)
      PROVE  ListInv'
  <2>1. /\ UNCHANGED <<list, todo, main, last_request, rejecting>>
        /\ job[w] \in list /\ job[w] \in Requests
        /\ \A x \in Requests : x # job[w] => req'[x] = req[x]
    BY <1>2, WorkModest
  <2>2. \A x \in Requests : req'[x].slot = req[x].slot
    BY <1>2, WorkSlots
  <2>3. ListedOnce'
    BY <2>1, <2>2 DEF ListedOnce, TypeOK
  <2>4. Fresh'
    BY <2>1, <2>2 DEF Fresh, ListedOnce
  <2> QED
    BY <2>1, <2>3, <2>4 DEF ListIsKnown, LastRequestListed
<1>3. ASSUME NEW r \in Requests, NEW s \in Slots, Receive(r, s)
      PROVE  ListInv'
  <2>1. /\ r \notin list /\ s # None /\ req[r].slot = None
        /\ main \in {"select", "clean"} /\ main' = "clean"
        /\ UNCHANGED <<todo, rejecting>>
        /\ last_request' \in After(Slot(s))
    BY <1>3, ServerAssumption
    DEF Receive, Receiving, Received, ListedOnce
  <2>2. list \ Slot(s) \subseteq list' /\ list' \subseteq (list \ Slot(s)) \cup {r}
    BY <1>3, ReceiveModest
  <2>3. ListedOnce' /\ Fresh'
    <3>1. \A x \in Requests : x # r => req'[x] = req[x]
      BY <1>3, ReceiveModest
    <3>2. CASE list' = list \ Slot(s) /\ UNCHANGED req
      BY <3>2 DEF ListedOnce, Fresh
    <3>3. CASE list' = (list \ Slot(s)) \cup {r} /\ req'[r].slot = s
      BY <2>1, <3>1, <3>3 DEF ListedOnce, Fresh, Slot, TypeOK
    <3> QED
      BY <1>3, <3>2, <3>3, ReceiveModest
  <2>4. LastRequestListed'
    <3>1. CASE last_request \in Slot(s)
      <4>1. last_request' # None => last_request' \in list \ {last_request}
        BY <2>1, <3>1 DEF After, rl_next
      <4>2. \A x \in list : x # last_request => x \notin Slot(s)
        BY <3>1 DEF ListedOnce, Slot
      <4> QED
        BY <2>2, <4>1, <4>2 DEF LastRequestListed
    <3>2. CASE last_request \notin Slot(s)
      BY <2>1, <2>2, <3>2 DEF After, LastRequestListed
    <3> QED
      BY <3>1, <3>2
  <2>5. ListIsKnown'
    BY <2>1 DEF ListIsKnown
  <2> QED
    BY <2>3, <2>4, <2>5
<1>4. ASSUME NEW r \in Requests, HomeReply(r), Awaited(r)
      PROVE  ListInv'
  <2>1. /\ UNCHANGED <<list, todo, last_request, rejecting>> /\ r \in list
        /\ main \in {"select", "clean"} /\ main' # "walk"
    BY <1>4 DEF HomeReply, Receiving, Received, Awaited
  <2>2. /\ \A x \in Requests : x # r => req'[x] = req[x]
        /\ req'[r].slot = req[r].slot
    BY <1>4, ReplyModest
  <2>3. ListedOnce' /\ Fresh'
    BY <2>1, <2>2 DEF ListedOnce, Fresh, TypeOK
  <2> QED
    BY <2>1, <2>3 DEF LastRequestListed, ListIsKnown
<1>5. CASE Quiet
  BY <1>5 DEF Quiet, Modest, ListedOnce, Fresh, TypeOK
<1> QED
  BY <1>1, <1>2, <1>3, <1>4, <1>5, StepCases

LEMMA ListAlways == Spec => [](TypeOK /\ ListInv)
<1>1. Init => TypeOK /\ ListInv
  BY InitType
  DEF Init, ListInv, ListedOnce, ListIsKnown, LastRequestListed, Fresh, Unused
<1>2. TypeOK /\ ListInv /\ [Next]_vars => (TypeOK /\ ListInv)'
  BY ListStep, TypeStep
<1> QED
  BY <1>1, <1>2, PTL DEF Spec

\* The main thread's place in the list is never a freed request, though
\* packets and refreshes take requests out between its steps (rad_clean_list).
THEOREM PlaceKept == Spec => []LastRequestListed
<1>1. ListInv => LastRequestListed
  BY DEF ListInv
<1> QED
  BY <1>1, ListAlways, PTL

-----------------------------------------------------------------------------
(* The packets a home server gets, when proxy_synchronous = no.             *)

\* Until a request is proxied one thread has it, and no packet was sent; then
\* one thread sends the first packet, which the counter already accounts for.
Solo ==
    \A v, w \in Workers :
        v # w /\ pc[v] # "idle" /\ pc[w] # "idle" /\ job[v] = job[w]
        => req[job[v]].proxy # "none" /\ (pc[v] # "forward" \/ pc[w] # "forward")

JobsSeen ==
    \A w \in Workers : pc[w] # "idle" =>
        job[w] \in Requests /\ req[job[w]].slot # None

NotAsked ==
    \A r \in Requests : req[r].proxy = "none" =>
        req[r].asked = 0 /\ req[r].tries = 0

FirstCounted ==
    \A w \in Workers : pc[w] = "forward" =>
        /\ req[job[w]].proxy # "none"
        /\ req[job[w]].asked + req[job[w]].tries < proxy_retry_count

AllCounted ==
    \A r \in Requests : req[r].asked + req[r].tries <= proxy_retry_count

Preparing ==
    \A w \in Workers : pc[w] = "prepare" => req[job[w]].proxy = "none"

HInv == Preparing /\ Solo /\ JobsSeen /\ NotAsked /\ FirstCounted /\ AllCounted

\* The requests change modestly, and no thread takes one up.
LEMMA SparedBy ==
    ASSUME TypeOK, TypeOK', HInv,
           \A x \in Requests : Modest(req'[x], req[x]) /\ Spares(req'[x], req[x]),
           \A v \in Workers : pc'[v] # "idle" => pc[v] # "idle" /\ job'[v] = job[v],
           \A v \in Workers : pc'[v] = "forward" => pc[v] = "forward",
           \A v \in Workers : pc'[v] = "prepare" =>
               pc[v] = "prepare" \/ req[job[v]].proxy = "none"
    PROVE  HInv'
<1> USE DEF HInv
<1>1. Solo' /\ JobsSeen' /\ Preparing'
  BY DEF Solo, JobsSeen, Preparing, Modest
<1>2. NotAsked'
  BY DEF NotAsked, Modest
<1>3. \A x \in Requests : /\ req[x].asked \in Nat /\ req[x].tries \in Nat
                          /\ req'[x].asked \in Nat /\ req'[x].tries \in Nat
  BY DEF TypeOK, Request
<1>4. FirstCounted'
  <2> SUFFICES ASSUME NEW w \in Workers, pc'[w] = "forward"
               PROVE  /\ req'[job[w]].proxy # "none"
                      /\ req'[job[w]].asked + req'[job[w]].tries < proxy_retry_count
    BY DEF FirstCounted
  <2>1. pc[w] = "forward" /\ job[w] \in Requests
    BY DEF JobsSeen
  <2>2. /\ req[job[w]].proxy # "none"
        /\ req[job[w]].asked + req[job[w]].tries < proxy_retry_count
    BY <2>1 DEF FirstCounted
  <2>3. Modest(req'[job[w]], req[job[w]]) /\ Spares(req'[job[w]], req[job[w]])
    BY <2>1
  <2> QED
    BY <1>3, <2>1, <2>2, <2>3, ServerAssumption DEF Modest, Spares
<1>5. AllCounted'
  BY <1>3, ServerAssumption DEF AllCounted, Spares
<1> QED
  BY <1>1, <1>2, <1>4, <1>5

\* A thread takes up a request that no other thread has, or that is proxied.
LEMMA TakenUp ==
    ASSUME TypeOK, TypeOK', HInv, NEW r \in Requests,
           \A x \in Requests : x # r => req'[x] = req[x],
           req'[r].slot # None,
           \/ /\ req[r].slot = None /\ req'[r].proxy = "none"
              /\ req'[r].tries = 0 /\ req'[r].asked = 0
           \/ /\ req[r].proxy # "none" /\ req'[r].proxy # "none"
              /\ req'[r].tries = req[r].tries /\ req'[r].asked = req[r].asked,
           \/ UNCHANGED <<pc, job>>
           \/ \E w \in Workers :
                 /\ pc[w] = "idle"
                 /\ pc' = [pc EXCEPT ![w] = "decode"]
                 /\ job' = [job EXCEPT ![w] = r]
    PROVE  HInv'
<1> USE DEF HInv
<1>1. \A v \in Workers : pc[v] # "idle" /\ job[v] = r => req[r].slot # None
  BY DEF JobsSeen
<1>2. \A v \in Workers :
          \/ pc'[v] = pc[v] /\ job'[v] = job[v]
          \/ pc[v] = "idle" /\ pc'[v] = "decode" /\ job'[v] = r
  BY DEF TypeOK
<1>3. \A v, w \in Workers :
          v # w => \/ pc'[v] = pc[v] /\ job'[v] = job[v]
                   \/ pc'[w] = pc[w] /\ job'[w] = job[w]
  BY DEF TypeOK
<1>4. JobsSeen'
  BY <1>2 DEF JobsSeen
<1>5. Solo'
  BY <1>1, <1>2, <1>3 DEF Solo, JobsSeen
<1>6. NotAsked'
  BY DEF NotAsked
<1>7. FirstCounted'
  BY <1>1, <1>2 DEF FirstCounted, JobsSeen
<1>8. AllCounted'
  BY ServerAssumption DEF AllCounted
<1>9. Preparing'
  BY <1>1, <1>2 DEF Preparing, JobsSeen
<1> QED
  BY <1>4, <1>5, <1>6, <1>7, <1>8, <1>9

LEMMA SparedByThread ==
    ASSUME TypeOK, TypeOK', HInv, NEW w \in Workers, Work(w), ~TouchFreed(w)
    PROVE  HInv'
<1> USE DEF HInv
<1> DEFINE r == job[w]
<1>1. /\ r \in Requests /\ \A x \in Requests : x # r => req'[x] = req[x]
      /\ Moves(w) \/ Starts(w) \/ Sent(w)
  BY WorkModest
<1>2. req[r] \in Request /\ req[r].asked \in Nat /\ req[r].tries \in Nat
  BY <1>1 DEF TypeOK, Request
<1>3. CASE Moves(w)
  <2>1. /\ \A v \in Workers : pc'[v] # "idle" => pc[v] # "idle" /\ job'[v] = job[v]
        /\ \A v \in Workers : pc'[v] = "forward" => pc[v] = "forward"
        /\ \A v \in Workers : pc'[v] = "prepare" =>
               pc[v] = "prepare" \/ req[job[v]].proxy = "none"
    BY <1>3 DEF Moves, TypeOK
  <2> QED
    BY <1>3, <2>1, SparedBy DEF Moves
<1>4. CASE Starts(w)
  <2>1. /\ req'[r].proxy = "waiting" /\ req'[r].tries = proxy_retry_count - 1
        /\ req'[r].asked = 0 /\ req'[r].slot = req[r].slot
        /\ req[r].proxy = "none" /\ pc[w] = "prepare"
    <3>1. req'[r] = [req[r] EXCEPT !.proxy = "waiting", !.tries = Retries]
          /\ req[r].proxy = "none" /\ pc[w] = "prepare"
      BY <1>1, <1>4 DEF Starts, Becomes, Preparing, TypeOK
    <3>2. req[r].asked = 0
      BY <1>1, <3>1 DEF NotAsked
    <3> QED
      BY <1>2, <3>1, <3>2 DEF Retries, Request
  <2>2. /\ pc'[w] = "forward" /\ job' = job
        /\ \A v \in Workers : v # w => pc'[v] = pc[v]
    BY <1>4 DEF Starts, TypeOK
  <2>3. \A v \in Workers : v # w /\ pc[v] # "idle" => job[v] # r
    BY <2>1 DEF Solo
  <2>4. Solo' /\ JobsSeen' /\ Preparing'
    BY <1>1, <2>1, <2>2, <2>3 DEF Solo, JobsSeen, Preparing
  <2>5. NotAsked' /\ FirstCounted' /\ AllCounted'
    BY <1>1, <2>1, <2>2, <2>3, ServerAssumption
    DEF NotAsked, FirstCounted, AllCounted, JobsSeen
  <2> QED
    BY <2>4, <2>5
<1>5. CASE Sent(w)
  <2>1. /\ req'[r].proxy = req[r].proxy /\ req'[r].tries = req[r].tries
        /\ req'[r].asked = req[r].asked + 1 /\ req'[r].slot = req[r].slot
    BY <1>1, <1>2, <1>5, OneChanges DEF Sent, Request
  <2>2. /\ pc[w] = "forward" /\ pc'[w] = "leave" /\ job' = job
        /\ \A v \in Workers : v # w => pc'[v] = pc[v]
    BY <1>5 DEF Sent, TypeOK
  <2>3. /\ req[r].proxy # "none"
        /\ req[r].asked + req[r].tries < proxy_retry_count
    BY <2>2 DEF FirstCounted
  <2>4. \A v \in Workers : v # w /\ pc[v] = "forward" => job[v] # r
    BY <2>2 DEF Solo
  <2>5. Solo' /\ JobsSeen' /\ Preparing'
    BY <1>1, <2>1, <2>2, <2>3 DEF Solo, JobsSeen, Preparing
  <2>6. NotAsked'
    BY <1>1, <2>1, <2>3 DEF NotAsked
  <2>7. FirstCounted'
    BY <1>1, <2>2, <2>4 DEF FirstCounted, JobsSeen
  <2>8. AllCounted'
    BY <1>1, <1>2, <2>1, <2>3, ServerAssumption DEF AllCounted
  <2> QED
    BY <2>5, <2>6, <2>7, <2>8
<1> QED
  BY <1>1, <1>3, <1>4, <1>5

LEMMA SparedStep ==
    ASSUME TypeOK, TypeOK', ListInv, HInv, ~proxy_synchronous, [Next]_vars
    PROVE  HInv'
<1>1. CASE UNCHANGED <<req, list, todo, main, last_request, rejecting, pc, job>>
  BY <1>1 DEF HInv, Preparing, Solo, JobsSeen, NotAsked, FirstCounted, AllCounted
<1>2. ASSUME NEW w \in Workers, Work(w), ~TouchFreed(w) PROVE HInv'
  BY <1>2, SparedByThread
<1>3. ASSUME NEW r \in Requests, NEW s \in Slots, Receive(r, s) PROVE HInv'
  <2>1. CASE UNCHANGED <<req, pc, job>>
    BY <2>1 DEF HInv, Preparing, Solo, JobsSeen, NotAsked, FirstCounted, AllCounted
  <2>2. req[r].slot = None /\ s # None
    BY <1>3, ServerAssumption DEF Receive
  <2> QED
    BY <1>3, <2>1, <2>2, ReceiveModest, TakenUp
<1>4. ASSUME NEW r \in Requests, HomeReply(r), Awaited(r) PROVE HInv'
  <2>1. req[r].slot # None /\ req[r].proxy = "waiting"
    BY <1>4 DEF Awaited, ListInv, ListedOnce
  <2> QED
    BY <1>4, <2>1, ReplyModest, TakenUp
<1>5. CASE Quiet
  BY <1>5, SparedBy DEF Quiet
<1> QED
  BY <1>1, <1>2, <1>3, <1>4, <1>5, StepCases

\* A home server that does not answer gets a packet and its retries,
\* proxy_retry_count in all, whatever threads that come late, walks of the
\* list, rejects and retransmissions of the NAS do in between (proxy_send,
\* refresh_request).
THEOREM HomeIsSpared == ASSUME ~proxy_synchronous PROVE Spec => []HomeSpared
<1>1. Init => HInv
  BY ServerAssumption
  DEF Init, HInv, Preparing, Solo, JobsSeen, NotAsked, FirstCounted, AllCounted, Unused
<1>2. TypeOK /\ TypeOK' /\ ListInv /\ HInv /\ [Next]_vars => HInv'
  BY SparedStep
<1>3. TypeOK /\ HInv => HomeSpared
  <2> SUFFICES ASSUME TypeOK, HInv, NEW r \in Requests
               PROVE  req[r].asked <= proxy_retry_count
    BY DEF HomeSpared
  <2>1. /\ req[r].asked \in Nat /\ req[r].tries \in Nat
        /\ req[r].asked + req[r].tries <= proxy_retry_count
    BY DEF HInv, AllCounted, TypeOK, Request
  <2> QED
    BY <2>1, ServerAssumption
<1> QED
  BY <1>1, <1>2, <1>3, ListAlways, PTL DEF Spec

-----------------------------------------------------------------------------
(* The requests and their threads, when none is proxied.                   *)

\* A request knows its thread until the thread is about to leave it.
ChildIsThere ==
    \A r \in list : req[r].child # None =>
        pc[req[r].child] \notin {"idle", "last"} /\ job[req[r].child] = r

\* No request is for a home server.
Unproxied ==
    /\ \A r \in Requests : req[r].proxy = "none"
    /\ \A w \in Workers : pc[w] \notin {"prepare", "forward"}

IdleHasNone == \A w \in Workers : pc[w] = "idle" => job[w] = None

\* What holds of the requests and the threads that work on them.
Shared ==
    /\ NoFault /\ FinishedIsLeft /\ OneThread
    /\ ChildIsThere /\ Unproxied /\ IdleHasNone /\ ListedOnce

LInv == TypeOK /\ ListInv /\ Shared

\* No step but the last one of a thread finishes a request, and only the main
\* thread hands one to a thread.
Milder(p, q) ==
    /\ p.slot = q.slot /\ p.proxy = q.proxy
    /\ p.finished => q.finished
    /\ p.child \in {None, q.child}

\* The main thread changes requests mildly, and frees finished ones only.
LEMMA SharedByMain ==
    ASSUME TypeOK, Shared, UNCHANGED threads, fault' = fault,
           \A r \in Requests : Milder(req'[r], req[r]),
           list' \subseteq list, \A r \in list \ list' : req[r].finished
    PROVE  Shared'
<1>1. NoFault' /\ OneThread' /\ IdleHasNone'
  BY DEF Shared, NoFault, OneThread, IdleHasNone, threads
<1>2. FinishedIsLeft'
  BY DEF Shared, FinishedIsLeft, Milder, threads, TypeOK
<1>3. ChildIsThere'
  BY DEF Shared, ChildIsThere, Milder, threads, TypeOK
<1>4. Unproxied'
  BY DEF Shared, Unproxied, Milder, threads
<1>5. ListedOnce'
  BY DEF ListedOnce, Shared, Milder, TypeOK
<1> QED
  BY <1>1, <1>2, <1>3, <1>4, <1>5 DEF Shared

\* refresh_request sees no thread where there should be none, and frees
\* finished requests only.
LEMMA RefreshShared ==
    ASSUME TypeOK, Shared, NEW r \in list, refresh_request(r)
    PROVE  /\ fault' = fault
           /\ \A x \in Requests : Milder(req'[x], req[x])
           /\ list' \subseteq list /\ list \ {r} \subseteq list'
           /\ \A x \in list \ list' : req[x].finished
<1> DEFINE q == Undelayed(req[r])
<1>0. r \in Requests /\ req[r] \in Request
  BY DEF TypeOK
<1>1. q \in Request /\ Keeps(q, req[r])
  BY <1>0, UndelayedKeeps
<1>2. req[r].finished => req[r].child = None
  BY DEF Shared, ChildIsThere, FinishedIsLeft, TypeOK, Request
<1>3. q.proxy = "none" /\ (Expired(q) => req[r].finished)
  BY <1>0, <1>1 DEF Shared, Unproxied, Keeps, Expired
<1>4. \/ list' = list \ {r} /\ req[r].finished /\ Becomes(r, q)
         /\ fault' = fault
      \/ Late(r, q)
      \/ Retry(r, q)
      \/ UNCHANGED <<req, list, fault>>
  BY <1>2, <1>3 DEF refresh_request, Shared, NoFault
<1> HIDE DEF q
<1>5. ASSUME NEW p, Becomes(r, p), Milder(p, req[r])
      PROVE  \A x \in Requests : Milder(req'[x], req[x])
  BY <1>5 DEF Becomes, TypeOK, Milder
<1>6. CASE list' = list \ {r} /\ req[r].finished /\ Becomes(r, q)
           /\ fault' = fault
  BY <1>1, <1>5, <1>6 DEF Keeps, Milder
<1>7. CASE Late(r, q)
  <2>1. Milder([q EXCEPT !.child = None], req[r])
    BY <1>1 DEF Keeps, Milder, Request
  <2>2. Milder([q EXCEPT !.code = RejectCode(q)], req[r])
    BY <1>1 DEF Keeps, Milder, Request
  <2> QED
    BY <1>3, <1>5, <1>7, <2>1, <2>2 DEF Late
<1>8. CASE Retry(r, q)
  BY <1>1, <1>3, <1>5, <1>8 DEF Retry, Keeps, Milder
<1>9. CASE UNCHANGED <<req, list, fault>>
  BY <1>9 DEF Milder
<1> QED
  BY <1>4, <1>6, <1>7, <1>8, <1>9

\* A thread changes its request mildly, and keeps it until it leaves.
LEMMA SharedByThread ==
    ASSUME TypeOK, Shared, NEW w \in Workers, pc[w] # "idle",
           NEW p, Milder(p, req[job[w]]),
           Becomes(job[w], p) \/ UNCHANGED req,
           NEW l \in Pcs \ {"idle", "last", "prepare", "forward"}, Goes(w, l),
           OnlyRequest
    PROVE  Shared'
<1>1. job[w] \in list /\ job[w] \in Requests /\ ~req[job[w]].finished
  BY DEF Shared, FinishedIsLeft, TypeOK
<1>2. /\ \A r \in Requests : Milder(req'[r], req[r])
      /\ UNCHANGED <<list, job, fault>>
      /\ pc' = [pc EXCEPT ![w] = l]
  BY DEF Becomes, Milder, TypeOK, OnlyRequest, Goes
<1>3. pc'[w] = l /\ (\A v \in Workers : v # w => pc'[v] = pc[v])
  BY <1>2 DEF TypeOK
<1>4. NoFault' /\ OneThread' /\ IdleHasNone' /\ Unproxied'
  BY <1>2, <1>3
  DEF Shared, NoFault, OneThread, IdleHasNone, Unproxied, Milder
<1>5. FinishedIsLeft'
  BY <1>2, <1>3 DEF Shared, FinishedIsLeft, Milder, TypeOK
<1>6. ChildIsThere'
  <2> SUFFICES ASSUME NEW r \in list, req'[r].child # None
               PROVE  pc'[req'[r].child] \notin {"idle", "last"}
                      /\ job[req'[r].child] = r
    BY <1>2 DEF ChildIsThere
  <2>1. r \in Requests /\ req'[r].child = req[r].child
    BY <1>2 DEF Milder, TypeOK
  <2>2. req[r].child \in Workers
    BY <2>1 DEF TypeOK, Request
  <2> QED
    BY <1>3, <2>1, <2>2 DEF Shared, ChildIsThere
<1>7. ListedOnce'
  BY <1>2 DEF ListedOnce, Shared, Milder, TypeOK
<1> QED
  BY <1>4, <1>5, <1>6, <1>7 DEF Shared

\* The steps of a thread, when no request is for a home server.
LEMMA WorkShared ==
    ASSUME TypeOK, Shared, Homes = {}, NEW w \in Workers, Work(w)
    PROVE  Shared'
<1> DEFINE r == job[w]  q == req[r]
<1>1. ASSUME pc[w] # "idle"
      PROVE  /\ r \in list /\ r \in Requests /\ q \in Request
             /\ ~q.finished /\ q.proxy = "none"
             /\ q.child \in {None, w}
  <2>1. r \in list /\ r \in Requests /\ q \in Request
        /\ ~q.finished /\ q.proxy = "none"
    BY <1>1 DEF Shared, FinishedIsLeft, Unproxied, TypeOK
  <2>2. q.child # None => q.child \in Workers /\ job[q.child] = r
    BY <2>1 DEF Shared, ChildIsThere, Request
  <2> QED
    BY <1>1, <2>1, <2>2 DEF Shared, OneThread
<1>2. ASSUME NEW p \in Request PROVE Milder(p, p)
  BY DEF Milder
<1>3. ASSUME NEW p \in Request, Keeps(p, q) PROVE Milder(p, q)
  BY <1>3 DEF Milder, Keeps
<1>4. ASSUME pc[w] # "idle",
             NEW p, Milder(p, q), Becomes(r, p) \/ UNCHANGED req,
             NEW l \in Pcs \ {"idle", "last", "prepare", "forward"}, Goes(w, l),
             OnlyRequest
      PROVE  Shared'
  BY <1>4, SharedByThread
<1>5. CASE Decode(w)
  <2>1. pc[w] # "idle"
    BY <1>5 DEF Decode, At
  <2>2. Milder(rad_reject(q), q) /\ Milder(q, q)
    BY <1>1, <1>2, <1>3, <2>1, RejectKeeps
  <2>3. \A o \in {{}, {"DONT_CACHE"}} :
            Milder([q EXCEPT !.options = @ \cup o], q)
    BY <1>1, <2>1 DEF Milder, Request
  <2>4. \E p : Milder(p, q) /\ (Becomes(r, p) \/ UNCHANGED req)
    BY <1>5, <2>2, <2>3 DEF Decode
  <2>5. \E l \in {"leave", "run"} : Goes(w, l)
    BY <1>5 DEF Decode, Ends
  <2> QED
    BY <1>4, <1>5, <2>1, <2>4, <2>5 DEF Decode, Pcs
<1>6. CASE Run(w) \/ Rerun(w)
  <2>1. pc[w] # "idle" /\ OnlyRequest
    BY <1>6 DEF Run, Rerun, Runs, At
  <2>2. \A c : Milder([q EXCEPT !.code = c], q)
    BY <1>1, <2>1 DEF Milder, Request
  <2>3. \E p : Milder(p, q) /\ Becomes(r, p)
    BY <1>6, <2>2 DEF Run, Rerun, Runs
  <2>4. \E l \in {"check", "decide"} : Goes(w, l)
    BY <1>6 DEF Run, Rerun, Runs
  <2> QED
    BY <1>4, <2>1, <2>3, <2>4 DEF Pcs
<1>7. CASE Check(w) \/ Redo(w)
  <2>1. pc[w] # "idle" /\ OnlyRequest
    BY <1>7 DEF Check, Redo, At
  <2>2. Milder(q, q) /\ \A c : Milder([q EXCEPT !.code = c], q)
    BY <1>1, <2>1 DEF Milder, Request
  <2>3. \E p : Milder(p, q) /\ (Becomes(r, p) \/ UNCHANGED req)
    BY <1>7, <2>2 DEF Check, Redo
  <2>4. \E l \in {"leave", "redo", "rerun", "decide"} : Goes(w, l)
    BY <1>7 DEF Check, Redo, Ends
  <2> QED
    BY <1>4, <2>1, <2>3, <2>4 DEF Pcs
<1>8. CASE Decide(w)
  <2>1. pc[w] # "idle"
    BY <1>8 DEF Decide, At
  <2>2. Milder(rad_reject(q), q) /\ Milder(q, q)
    BY <1>1, <1>2, <1>3, <2>1, RejectKeeps
  <2>3. /\ Becomes(r, rad_reject(q)) \/ UNCHANGED req
        /\ Goes(w, "leave") \/ Goes(w, "reply")
        /\ OnlyRequest
    BY <1>8 DEF Decide, Ends
  <2> QED
    BY <1>4, <2>1, <2>2, <2>3 DEF Pcs
<1>9. CASE Prepare(w) \/ Forward(w)
  BY <1>9 DEF Prepare, Forward, At, Shared, Unproxied
<1>10. CASE Reply(w) \/ Send(w)
  <2>1. pc[w] # "idle" /\ OnlyRequest
    BY <1>10 DEF Reply, Send, At
  <2>2. Milder(rad_send(q), q) /\ Milder(q, q)
    BY <1>1, <1>2, <1>3, <2>1, SendKeeps
  <2>3. Milder([q EXCEPT !.options = @ \cup {"DELAYED_REJECT"}], q)
    BY <1>1, <2>1 DEF Milder, Request
  <2>4. \E p : Milder(p, q) /\ (Becomes(r, p) \/ UNCHANGED req)
    BY <1>10, <2>2, <2>3 DEF Reply, Send
  <2>5. \E l \in {"leave", "send"} : Goes(w, l)
    BY <1>10 DEF Reply, Send, Ends
  <2> QED
    BY <1>4, <2>1, <2>4, <2>5 DEF Pcs
<1>11. CASE Leave(w)
  <2>1. pc[w] = "leave" /\ Becomes(r, [q EXCEPT !.child = None])
        /\ pc' = [pc EXCEPT ![w] = "last"]
        /\ UNCHANGED <<list, job, fault>>
    BY <1>11 DEF Leave, At, Goes, OnlyRequest
  <2>2. /\ \A x \in Requests : Milder(req'[x], req[x])
        /\ req'[r].child = None
    BY <1>1, <2>1 DEF Becomes, Milder, TypeOK, Request
  <2>3. pc'[w] = "last" /\ (\A v \in Workers : v # w => pc'[v] = pc[v])
    BY <2>1 DEF TypeOK
  <2>4. NoFault' /\ OneThread' /\ IdleHasNone' /\ Unproxied'
    BY <2>1, <2>2, <2>3
    DEF Shared, NoFault, OneThread, IdleHasNone, Unproxied, Milder
  <2>5. FinishedIsLeft'
    BY <2>1, <2>2, <2>3 DEF Shared, FinishedIsLeft, Milder, TypeOK
  <2>6. ChildIsThere'
    <3> SUFFICES ASSUME NEW x \in list, req'[x].child # None
                 PROVE  pc'[req'[x].child] \notin {"idle", "last"}
                        /\ job[req'[x].child] = x
      BY <2>1 DEF ChildIsThere
    <3>1. x \in Requests /\ req'[x].child = req[x].child /\ x # r
      BY <2>2 DEF Milder, TypeOK
    <3>2. req[x].child \in Workers
      BY <3>1 DEF TypeOK, Request
    <3> QED
      BY <2>3, <3>1, <3>2 DEF Shared, ChildIsThere
  <2>7. ListedOnce'
    BY <2>1, <2>2 DEF ListedOnce, Shared, Milder, TypeOK
  <2> QED
    BY <2>4, <2>5, <2>6, <2>7 DEF Shared
<1>12. CASE Last(w)
  <2>1. pc[w] = "last" /\ Becomes(r, [q EXCEPT !.finished = fin[w]])
        /\ pc' = [pc EXCEPT ![w] = "idle"] /\ job' = [job EXCEPT ![w] = None]
        /\ UNCHANGED <<list, fault>>
    BY <1>12 DEF Last, At, Goes
  <2>2. /\ \A x \in Requests : x # r => req'[x] = req[x]
        /\ req'[r].slot = q.slot /\ req'[r].proxy = q.proxy
        /\ req'[r].child = q.child
    BY <1>1, <2>1 DEF Becomes, TypeOK, Request
  <2>3. /\ pc'[w] = "idle" /\ job'[w] = None
        /\ \A v \in Workers : v # w => pc'[v] = pc[v] /\ job'[v] = job[v]
    BY <2>1 DEF TypeOK
  <2>4. NoFault' /\ IdleHasNone' /\ Unproxied'
    BY <2>1, <2>2, <2>3 DEF Shared, NoFault, IdleHasNone, Unproxied
  <2>5. OneThread'
    <3>1. \A v \in Workers : pc[v] # "idle" => job[v] # None
      BY ServerAssumption DEF Shared, FinishedIsLeft, TypeOK
    <3> QED
      BY <2>3, <3>1 DEF Shared, OneThread
  <2>6. FinishedIsLeft'
    <3>1. \A v \in Workers : v # w /\ pc[v] # "idle" => job[v] # r
      BY <2>1 DEF Shared, OneThread
    <3> QED
      BY <2>1, <2>2, <2>3, <3>1 DEF Shared, FinishedIsLeft, TypeOK
  <2>7. ChildIsThere'
    <3> SUFFICES ASSUME NEW x \in list, req'[x].child # None
                 PROVE  pc'[req'[x].child] \notin {"idle", "last"}
                        /\ job'[req'[x].child] = x
      BY <2>1 DEF ChildIsThere
    <3>1. x \in Requests /\ req'[x].child = req[x].child
      BY <2>2 DEF TypeOK
    <3>2. /\ req[x].child \in Workers
          /\ pc[req[x].child] \notin {"idle", "last"}
          /\ job[req[x].child] = x
      BY <3>1 DEF TypeOK, Request, Shared, ChildIsThere
    <3> QED
      BY <2>1, <2>3, <3>1, <3>2
  <2>8. ListedOnce'
    BY <2>1, <2>2 DEF ListedOnce, Shared, TypeOK
  <2> QED
    BY <2>4, <2>5, <2>6, <2>7, <2>8 DEF Shared
<1>13. CASE TouchFreed(w)
  BY <1>1, <1>13 DEF TouchFreed
<1> QED
  BY <1>5, <1>6, <1>7, <1>8, <1>9, <1>10, <1>11, <1>12, <1>13 DEF Work
\* A new request takes the place of finished ones that no thread has.
LEMMA ReceiveShared ==
    ASSUME TypeOK, Shared, NEW r \in Requests, NEW s \in Slots, Receive(r, s)
    PROVE  Shared' /\ list \ Slot(s) \subseteq list'
<1> DEFINE q == [Unused EXCEPT !.slot = s]
<1>1. /\ r \notin list /\ r # None
      /\ \A o \in Slot(s) : req[o].child = None /\ req[o].finished
      /\ Slot(s) \subseteq list
  BY ServerAssumption
  DEF Receive, Replaceable, Slot, Shared, ListedOnce
<1>2. fault' = fault
  BY <1>1 DEF Receive
<1>3. \A w \in Workers : pc[w] # "idle" =>
          /\ job[w] \in list \ Slot(s) /\ job[w] # r
          /\ ~req[job[w]].finished
  BY <1>1 DEF Shared, FinishedIsLeft
<1>4. CASE list' = list \ Slot(s) /\ UNCHANGED <<req, threads>>
  <2>1. \A x \in Requests : Milder(req'[x], req[x])
    BY <1>4 DEF Milder
  <2> QED
    BY <1>1, <1>2, <1>4, <2>1, SharedByMain DEF threads
<1>5. CASE list' = (list \ Slot(s)) \cup {r} /\ Spawn(r, q)
  <2>1. /\ q \in Request /\ q.slot = s /\ s # None
        /\ q.proxy = "none" /\ q.child = None /\ ~q.finished
    BY UnusedType, ServerAssumption DEF Unused
  <2> HIDE DEF q
  <2>2. CASE Becomes(r, GiveUp(q)) /\ UNCHANGED threads
    <3>1. /\ req'[r].slot = s /\ req'[r].child = None
          /\ req'[r].proxy = "none"
          /\ \A x \in Requests : x # r => req'[x] = req[x]
      BY <2>1, <2>2, GiveUpKeeps DEF Becomes, TypeOK
    <3>2. NoFault' /\ OneThread' /\ IdleHasNone' /\ Unproxied'
      BY <1>2, <2>2, <3>1
      DEF Shared, NoFault, OneThread, IdleHasNone, Unproxied, threads
    <3>3. FinishedIsLeft'
      BY <1>3, <1>5, <2>2, <3>1 DEF FinishedIsLeft, threads, TypeOK
    <3>4. ChildIsThere'
      BY <1>5, <2>2, <3>1 DEF Shared, ChildIsThere, threads, TypeOK
    <3>5. ListedOnce'
      BY <1>5, <2>1, <3>1 DEF ListedOnce, Shared, TypeOK, Slot
    <3> QED
      BY <1>5, <3>2, <3>3, <3>4, <3>5 DEF Shared
  <2>3. ASSUME NEW w \in Workers, pc[w] = "idle",
               Becomes(r, [q EXCEPT !.child = w]),
               job' = [job EXCEPT ![w] = r], Goes(w, "decode")
        PROVE  Shared'
    <3>1. /\ req'[r].slot = s /\ req'[r].child = w
          /\ req'[r].proxy = "none" /\ ~req'[r].finished
          /\ \A x \in Requests : x # r => req'[x] = req[x]
      BY <2>1, <2>3 DEF Becomes, TypeOK, Request
    <3>2. /\ pc'[w] = "decode" /\ job'[w] = r
          /\ \A v \in Workers : v # w => pc'[v] = pc[v] /\ job'[v] = job[v]
      BY <2>3 DEF Goes, TypeOK
    <3>3. NoFault' /\ IdleHasNone' /\ Unproxied'
      BY <1>2, <3>1, <3>2 DEF Shared, NoFault, IdleHasNone, Unproxied
    <3>4. OneThread'
      <4>1. \A v \in Workers : job[v] # r
        BY <1>1, <1>3 DEF Shared, IdleHasNone
      <4> QED
        BY <1>1, <3>2, <4>1 DEF Shared, OneThread
    <3>5. FinishedIsLeft'
      BY <1>3, <1>5, <3>1, <3>2 DEF FinishedIsLeft, TypeOK
    <3>6. ChildIsThere'
      <4> SUFFICES ASSUME NEW x \in list', req'[x].child # None
                   PROVE  pc'[req'[x].child] \notin {"idle", "last"}
                          /\ job'[req'[x].child] = x
        BY DEF ChildIsThere
      <4>1. CASE x = r
        BY <3>1, <3>2, <4>1
      <4>2. CASE x # r
        <5>1. x \in list /\ x \in Requests /\ req'[x] = req[x]
          BY <1>5, <3>1, <4>2 DEF TypeOK
        <5>2. /\ req[x].child \in Workers
              /\ pc[req[x].child] \notin {"idle", "last"}
              /\ job[req[x].child] = x
          BY <5>1 DEF TypeOK, Request, Shared, ChildIsThere
        <5> QED
          BY <2>3, <3>2, <5>1, <5>2
      <4> QED
        BY <4>1, <4>2
    <3>7. ListedOnce'
      BY <1>5, <2>1, <3>1 DEF ListedOnce, Shared, TypeOK, Slot
    <3> QED
      BY <3>3, <3>4, <3>5, <3>6, <3>7 DEF Shared
  <2> QED
    BY <1>5, <2>2, <2>3 DEF Spawn
<1> QED
  BY <1>4, <1>5 DEF Receive

\* The main thread's steps.
LEMMA MainShared ==
    ASSUME LInv, Packet \/ Clean \/ Timeout \/ Tick
    PROVE  Shared'
<1> USE DEF LInv
<1>1. ASSUME NEW r \in Requests, NEW s \in Slots, Receive(r, s)
      PROVE  Shared'
  BY <1>1, ReceiveShared
<1>2. ASSUME \A r \in Requests : Milder(req'[r], req[r]),
             UNCHANGED <<list, threads, fault>>
      PROVE  Shared'
  BY <1>2, SharedByMain
<1>3. ASSUME UNCHANGED <<req, list, threads, fault>> PROVE Shared'
  BY <1>2, <1>3 DEF Milder
<1>4. ASSUME NEW r \in Requests, Retransmit(r)
      PROVE  Shared'
  <2> DEFINE q == req[r]
  <2>1. q \in Request
    BY DEF TypeOK
  <2>2. Milder(SendDelayed(q), q) /\ Milder(rad_send(q), q)
    BY <2>1, SendDelayedKeeps, SendKeeps DEF Milder, Keeps
  <2>3. Milder([q EXCEPT !.asked = @ + 1], q)
    BY <2>1 DEF Milder, Request
  <2>4. \/ Becomes(r, SendDelayed(q)) \/ Becomes(r, rad_send(q))
        \/ Becomes(r, [q EXCEPT !.asked = @ + 1])
        \/ UNCHANGED req
    BY <1>4 DEF Retransmit
  <2>5. \A x \in Requests : Milder(req'[x], req[x])
    BY <2>2, <2>3, <2>4 DEF Becomes, TypeOK, Milder
  <2> QED
    BY <1>2, <1>4, <2>5 DEF Retransmit
<1>5. ASSUME NEW r \in Requests, Drop(r) \/ HomeReply(r)
      PROVE  Shared'
  BY <1>3, <1>5 DEF Drop, HomeReply, Awaited, Shared, Unproxied, threads
<1>6. ASSUME NEW r \in list, refresh_request(r), UNCHANGED threads
      PROVE  Shared'
  BY <1>6, RefreshShared, SharedByMain
<1>7. CASE Some
  <2>1. last_request = None \/ turns = 0 \/ last_request \in list
    BY DEF ListInv, LastRequestListed
  <2> QED
    BY <1>3, <1>6, <1>7, <2>1 DEF Some
<1>8. ASSUME NEW r \in Requests, Walk(r)
      PROVE  Shared'
  BY <1>6, <1>8 DEF Walk, ListInv, ListIsKnown
<1>9. CASE CleanSome \/ CleanAll \/ WalkEnd \/ Timeout
  BY <1>3, <1>9 DEF CleanSome, CleanAll, WalkEnd, Timeout
<1>10. CASE Tick
  <2>1. \A r \in Requests : Milder(req'[r], req[r])
    BY <1>10 DEF Tick, Milder, TypeOK, Request
  <2> QED
    BY <1>2, <1>10, <2>1 DEF Tick
<1>11. CASE RejectEnds
  <2> DEFINE p == Rejected(req[rejecting])
  <2>1. rejecting \in Requests /\ req[rejecting] \in Request
    BY <1>11 DEF RejectEnds, TypeOK
  <2>2. p \in Request /\ Keeps(p, req[rejecting])
    BY <2>1, RejectedKeeps
  <2>3. Becomes(rejecting, [p EXCEPT !.child = None])
    BY <1>11 DEF RejectEnds
  <2> HIDE DEF p
  <2>4. Milder([p EXCEPT !.child = None], req[rejecting])
    BY <2>2 DEF Milder, Keeps, Request
  <2>5. \A r \in Requests : Milder(req'[r], req[r])
    BY <2>1, <2>3, <2>4, OneChanges DEF Milder
  <2> QED
    BY <1>2, <1>11, <2>5 DEF RejectEnds
<1> QED
  BY <1>1, <1>4, <1>5, <1>7, <1>8, <1>9, <1>10, <1>11 DEF Packet, Clean

\* The inductive invariant of a server whose users are all its own.
LEMMA Listed == ASSUME Homes = {} PROVE Spec => []LInv
<1>1. Init => Shared
  BY DEF Init, Shared, NoFault, FinishedIsLeft, OneThread, ChildIsThere,
         Unproxied, IdleHasNone, ListedOnce, Unused
<1>2. TypeOK /\ ListInv /\ Shared /\ [Next]_vars => Shared'
  <2> SUFFICES ASSUME TypeOK, ListInv, Shared, [Next]_vars PROVE Shared'
    OBVIOUS
  <2>1. CASE UNCHANGED vars
    <3>1. \A r \in Requests : Milder(req'[r], req[r])
      BY <2>1 DEF Milder, vars
    <3> QED
      BY <2>1, <3>1, SharedByMain DEF vars
  <2>2. ASSUME NEW w \in Workers, Work(w) PROVE Shared'
    BY <2>2, WorkShared
  <2>3. CASE Packet \/ Clean \/ Timeout \/ Tick
    BY <2>3, MainShared DEF LInv
  <2> QED
    BY <2>1, <2>2, <2>3 DEF Next
<1> QED
  BY <1>1, <1>2, ListAlways, PTL DEF Spec, LInv

\* When no user has a home server, no assertion of the request list fails and
\* no thread uses a request that was freed (refresh_request, request_free).
THEOREM Safe == ASSUME Homes = {} PROVE Spec => []NoFault
<1>1. LInv => NoFault
  BY DEF LInv, Shared
<1> QED
  BY <1>1, Listed, PTL

\* Then a request is finished only when its thread has left it (rad_respond).
THEOREM Left == ASSUME Homes = {} PROVE Spec => []FinishedIsLeft
<1>1. LInv => FinishedIsLeft
  BY DEF LInv, Shared
<1> QED
  BY <1>1, Listed, PTL

\* There is then only one thread for each request (rad_check_list).
THEOREM Alone == ASSUME Homes = {} PROVE Spec => []OneThread
<1>1. LInv => OneThread
  BY DEF LInv, Shared
<1> QED
  BY <1>1, Listed, PTL

-----------------------------------------------------------------------------
(* The replies, when no request is proxied.                                *)

\* The reply was sent, or waits for the main thread.
Due(q) == q.sent # {} \/ Delayed(q)

\* A reply that a request has when its thread is through is accounted for, but
\* while rad_reject is busy with the request.
Meets(q, busy) == q.slot \in Auth /\ q.code # "none" /\ ~busy => Due(q)

\* Until its thread has looked for a reject, there is a reply for it; or there
\* will be one when rad_reject is through, since the thread does not take the
\* code away.
Watched(q, busy) ==
    q.slot \in Auth => /\ "REJECTED" \in q.options => Due(q)
                       /\ busy => q.code # "none"

Early == {"decode", "run", "check"}

RInv ==
    /\ \A r \in Requests : req[r].finished => Meets(req[r], r = rejecting)
    /\ \A w \in Workers :
          LET r == job[w] IN
          /\ pc[w] \in Early => Watched(req[r], r = rejecting)
          /\ pc[w] \in {"leave", "last"} /\ fin[w]
             => Meets(req[r], r = rejecting)

\* What keeps it.
Kept(p, q) ==
    /\ p.slot = q.slot /\ p.code = q.code /\ (p.finished => q.finished)
    /\ "REJECTED" \in p.options => "REJECTED" \in q.options
    /\ Due(q) => Due(p)

LEMMA SendKept ==
    ASSUME NEW q \in Request
    PROVE  Kept(rad_send(q), q) /\ Kept(SendDelayed(q), q)
           /\ Due(rad_send(q))
  BY SendKeeps, SendDelayedKeeps DEF Kept, Due, Keeps

LEMMA UndelayedKept ==
    ASSUME NEW q \in Request
    PROVE  Kept(Undelayed(q), q)
  BY SendKept DEF Undelayed, Kept

\* An Access-Request that was not rejected before has a reply to send then.
LEMMA RejectDue ==
    ASSUME NEW q \in Request, q.slot \in Auth
    PROVE  "REJECTED" \notin q.options => Due(rad_reject(q))
<1> DEFINE p == [q EXCEPT !.code = RejectCode(q)]
<1>1. p \in Request /\ p.code = "reject"
  BY CodeKeeps, RejectCodeType
<1>2. "REJECTED" \notin q.options => rad_reject(q) = Rejected(p)
  BY DEF rad_reject
<1> HIDE DEF p
<1> QED
  BY <1>1, <1>2, RejectedKeeps DEF Due

\* What each request and the thread that has it need, of a step that leaves
\* the threads where they are.
LEMMA RepliesByMain ==
    ASSUME RInv, UNCHANGED threads,
           \A r \in Requests :
               LET q == req[r]  p == req'[r]  b == r = rejecting
                   c == r = rejecting'
               IN  /\ p.finished => q.finished
                   /\ Meets(q, b) => Meets(p, c)
                   /\ Watched(q, b) => Watched(p, c),
           \A w \in Workers : pc[w] # "idle" => job[w] \in Requests
    PROVE  RInv'
<1>1. \A r \in Requests : req'[r].finished => Meets(req'[r], r = rejecting')
  BY DEF RInv
<1>2. \A w \in Workers :
          LET r == job[w] IN
          /\ pc[w] \in Early => Watched(req'[r], r = rejecting')
          /\ pc[w] \in {"leave", "last"} /\ fin[w]
             => Meets(req'[r], r = rejecting')
  BY DEF RInv, Early
<1> QED
  BY <1>1, <1>2 DEF RInv, threads

LEMMA KeptMeets ==
    ASSUME NEW p, NEW q, Kept(p, q), NEW b \in BOOLEAN
    PROVE  /\ Meets(q, b) => Meets(p, b)
           /\ Watched(q, b) => Watched(p, b)
  BY DEF Kept, Meets, Watched

\* The steps of a thread.
LEMMA WorkReplies ==
    ASSUME LInv, RInv, Homes = {}, NEW w \in Workers, Work(w)
    PROVE  RInv'
<1> DEFINE r == job[w]  q == req[r]  b == r = rejecting
<1>1. CASE TouchFreed(w)
  BY <1>1 DEF TouchFreed, RInv, threads, loop
<1> SUFFICES ASSUME ~TouchFreed(w) PROVE RInv'
  BY <1>1
<1>2. /\ r \in Requests /\ r \in list /\ pc[w] # "idle" /\ q \in Request
      /\ q.proxy = "none" /\ ~q.finished /\ rejecting' = rejecting
      /\ pc[w] \in Early => Watched(q, b)
      /\ pc[w] \in {"leave", "last"} /\ fin[w] => Meets(q, b)
  <2>1. /\ r \in Requests /\ r \in list /\ pc[w] # "idle"
        /\ rejecting' = rejecting
    BY WorkModest DEF LInv, Moves, Starts, Sent
  <2> QED
    BY <2>1 DEF LInv, Shared, FinishedIsLeft, Unproxied, TypeOK, RInv
<1>3. \A v \in Workers : v # w /\ pc[v] # "idle" =>
          job[v] # r /\ job[v] \in Requests
  BY DEF LInv, Shared, OneThread, FinishedIsLeft, TypeOK
<1>4. ASSUME NEW p, Becomes(r, p), p.finished => Meets(p, b),
             NEW l, Goes(w, l),
             l \in Early => Watched(p, b),
             l \in {"leave", "last"} /\ fin'[w] => Meets(p, b),
             l # "idle" => UNCHANGED job,
             \A v \in Workers : v # w => job'[v] = job[v] /\ fin'[v] = fin[v]
      PROVE  RInv'
  <2>1. /\ req'[r] = p
        /\ \A x \in Requests : x # r => req'[x] = req[x]
    BY <1>2, <1>4 DEF Becomes, LInv, TypeOK
  <2>2. /\ pc'[w] = l
        /\ \A v \in Workers : v # w => pc'[v] = pc[v]
    BY <1>4 DEF Goes, LInv, TypeOK
  <2>3. \A x \in Requests : req'[x].finished => Meets(req'[x], x = rejecting')
    BY <1>2, <1>4, <2>1 DEF RInv
  <2>4. ASSUME NEW v \in Workers, v # w
        PROVE  LET x == job'[v] IN
               /\ pc'[v] \in Early => Watched(req'[x], x = rejecting')
               /\ pc'[v] \in {"leave", "last"} /\ fin'[v]
                  => Meets(req'[x], x = rejecting')
    <3>1. CASE pc[v] = "idle"
      BY <2>2, <2>4, <3>1 DEF Early
    <3>2. CASE pc[v] # "idle"
      <4>1. /\ job'[v] = job[v] /\ fin'[v] = fin[v] /\ pc'[v] = pc[v]
            /\ req'[job[v]] = req[job[v]]
        BY <1>3, <1>4, <2>1, <2>2, <2>4, <3>2
      <4> QED
        BY <1>2, <2>4, <4>1 DEF RInv
    <3> QED
      BY <3>1, <3>2
  <2>5. LET x == job'[w] IN
        /\ pc'[w] \in Early => Watched(req'[x], x = rejecting')
        /\ pc'[w] \in {"leave", "last"} /\ fin'[w]
           => Meets(req'[x], x = rejecting')
    BY <1>2, <1>4, <2>1, <2>2 DEF Early
  <2> QED
    BY <2>3, <2>4, <2>5 DEF RInv
<1>5. UNCHANGED req => Becomes(r, q)
  BY <1>2 DEF Becomes, LInv, TypeOK
<1>6. ASSUME NEW p, Becomes(r, p), ~p.finished, OnlyRequest,
             \/ \E l \in {"run", "check"} :
                   Goes(w, l) /\ UNCHANGED fin /\ Watched(p, b)
             \/ \E l \in Pcs \ {"idle", "decode", "run", "check", "leave", "last"} :
                   Goes(w, l) /\ UNCHANGED fin
             \/ Ends(w, TRUE) /\ Meets(p, b)
      PROVE  RInv'
  <2>1. UNCHANGED job
    BY <1>6 DEF OnlyRequest
  <2>2. CASE \E l \in {"run", "check"} :
                Goes(w, l) /\ UNCHANGED fin /\ Watched(p, b)
    BY <1>4, <1>6, <2>1, <2>2
  <2>3. CASE \E l \in Pcs \ {"idle", "decode", "run", "check", "leave", "last"} :
                Goes(w, l) /\ UNCHANGED fin
    BY <1>4, <1>6, <2>1, <2>3 DEF Early
  <2>4. CASE Ends(w, TRUE) /\ Meets(p, b)
    <3>1. /\ Goes(w, "leave")
          /\ \A v \in Workers : v # w => fin'[v] = fin[v]
      BY <2>4 DEF Ends, LInv, TypeOK
    <3> QED
      BY <1>4, <1>6, <2>1, <2>4, <3>1 DEF Early
  <2> QED
    BY <1>6, <2>2, <2>3, <2>4
<1>7. /\ rad_reject(q) \in Request /\ Keeps(rad_reject(q), q)
      /\ q.slot \in Auth /\ "REJECTED" \notin q.options => Due(rad_reject(q))
      /\ "REJECTED" \in q.options => rad_reject(q) = q
  BY <1>2, RejectKeeps, RejectDue DEF rad_reject
<1>8. CASE Decode(w)
  <2>1. Watched(q, b)
    BY <1>2, <1>8 DEF Decode, At, Early
  <2>2. CASE Becomes(r, rad_reject(q)) /\ Ends(w, TRUE)
    <3>1. Meets(rad_reject(q), b) /\ ~rad_reject(q).finished
      BY <1>2, <1>7, <2>1 DEF Meets, Watched, Keeps
    <3> QED
      BY <1>6, <1>8, <2>2, <3>1 DEF Decode
  <2>3. ASSUME NEW p, Becomes(r, p), Goes(w, "run"), UNCHANGED fin,
               \/ p = q
               \/ \E o \in {{}, {"DONT_CACHE"}} :
                     p = [q EXCEPT !.options = @ \cup o]
        PROVE  RInv'
    <3>1. Kept(p, q) /\ ~p.finished
      BY <1>2, <2>3 DEF Kept, Due, Delayed, Request
    <3>2. Watched(p, b)
      BY <2>1, <3>1, KeptMeets
    <3> QED
      BY <1>6, <1>8, <2>3, <3>1, <3>2 DEF Decode
  <2> QED
    BY <1>2, <1>5, <1>8, <2>2, <2>3 DEF Decode
<1>9. CASE Run(w)
  <2>1. PICK c \in Outcomes(q) : Becomes(r, [q EXCEPT !.code = c])
    BY <1>9 DEF Run, Runs
  <2>2. (q.code # "none" => c # "none") /\ c \in Codes
    BY <1>2, <2>1 DEF Outcomes, Request, Codes
  <2> DEFINE p == [q EXCEPT !.code = c]
  <2>3. /\ Keeps(p, q) /\ p.code = c /\ p.options = q.options
        /\ p.sent = q.sent
    BY <1>2, <2>2, CodeKeeps
  <2> HIDE DEF p
  <2>4. Watched(p, b) /\ ~p.finished
    BY <1>2, <1>9, <2>2, <2>3
    DEF Run, Runs, At, Early, Watched, Due, Delayed, Keeps
  <2> QED
    BY <1>6, <1>9, <2>1, <2>4 DEF Run, Runs, p
<1>10. CASE Rerun(w) \/ Redo(w)
  <2>1. \A c : ~[q EXCEPT !.code = c].finished
    BY <1>2 DEF Request
  <2> QED
    BY <1>6, <1>10, <2>1 DEF Rerun, Runs, Redo, Pcs
<1>11. CASE Check(w)
  <2>1. "REJECTED" \in q.options => Meets(q, b)
    BY <1>2, <1>11 DEF Check, At, Early, Watched, Meets
  <2> QED
    BY <1>2, <1>5, <1>6, <1>11, <2>1 DEF Check, Pcs
<1>12. CASE Decide(w)
  <2>1. q.slot \in Auth /\ q.code = "none" => Meets(rad_reject(q), b)
    BY <1>7 DEF Meets
  <2>2. ~rad_reject(q).finished
    BY <1>2, <1>7 DEF Keeps
  <2> QED
    BY <1>2, <1>5, <1>6, <1>12, <2>1, <2>2 DEF Decide, Pcs
<1>13. CASE Prepare(w) \/ Forward(w)
  BY <1>13 DEF Prepare, Forward, At, LInv, Shared, Unproxied
<1>14. CASE Reply(w)
  <2> DEFINE p == [q EXCEPT !.options = @ \cup {"DELAYED_REJECT"}]
  <2>1. Meets(p, b) /\ ~p.finished
    BY <1>2 DEF Meets, Due, Delayed, Request
  <2>2. q.code = "none" => Meets(q, b)
    BY DEF Meets
  <2> QED
    BY <1>2, <1>5, <1>6, <1>14, <2>1, <2>2 DEF Reply, Pcs
<1>15. CASE Send(w)
  <2>1. Meets(rad_send(q), b) /\ ~rad_send(q).finished
    BY <1>2, SendKept, SendKeeps DEF Meets, Keeps
  <2> QED
    BY <1>6, <1>15, <2>1 DEF Send
<1>16. CASE Leave(w)
  <2> DEFINE p == [q EXCEPT !.child = None]
  <2>1. Kept(p, q) /\ ~p.finished
    BY <1>2 DEF Kept, Due, Delayed, Request
  <2>2. pc[w] = "leave" /\ UNCHANGED <<fin, job>> /\ Becomes(r, p)
        /\ Goes(w, "last")
    BY <1>16 DEF Leave, At, OnlyRequest
  <2>3. fin[w] => Meets(p, b)
    BY <1>2, <2>1, <2>2, KeptMeets
  <2> HIDE DEF p
  <2> QED
    BY <1>4, <2>1, <2>2, <2>3 DEF Early
<1>17. CASE Last(w)
  <2> DEFINE p == [q EXCEPT !.finished = fin[w]]
  <2>1. /\ p.finished = fin[w] /\ p.slot = q.slot /\ p.code = q.code
        /\ p.sent = q.sent /\ p.options = q.options
    BY <1>2 DEF Request
  <2>2. /\ pc[w] = "last" /\ Becomes(r, p) /\ Goes(w, "idle")
        /\ \A v \in Workers : v # w => job'[v] = job[v] /\ fin'[v] = fin[v]
    BY <1>17 DEF Last, At, LInv, TypeOK
  <2> HIDE DEF p
  <2>3. p.finished => Meets(p, b)
    BY <1>2, <2>1, <2>2 DEF Meets, Due, Delayed
  <2> QED
    BY <1>4, <2>2, <2>3 DEF Early
<1> QED
  BY <1>8, <1>9, <1>10, <1>11, <1>12, <1>13, <1>14, <1>15, <1>16, <1>17 DEF Work

\* refresh_request: what it does to the request, and what it begins.
LEMMA RefreshReplies ==
    ASSUME LInv, rejecting = None, NEW r \in list, refresh_request(r),
           NEW x \in Requests
    PROVE  LET q == req[x]  p == req'[x]  c == x = rejecting'
           IN  /\ p.finished => q.finished
               /\ Meets(q, FALSE) => Meets(p, c)
               /\ Watched(q, FALSE) => Watched(p, c)
<1> DEFINE q == Undelayed(req[r])
<1>1. /\ r \in Requests /\ q \in Request /\ Kept(q, req[r])
      /\ q.proxy = "none"
  BY UndelayedKeeps, UndelayedKept
  DEF LInv, Shared, Unproxied, TypeOK, Keeps
<1>2. None \notin Requests
  BY ServerAssumption
<1>3. ASSUME NEW p, Becomes(r, p), Kept(p, req[r]), rejecting' = rejecting
      PROVE  Kept(req'[x], req[x])
  BY <1>3 DEF Becomes, LInv, TypeOK, Kept
<1>4. CASE Kept(req'[x], req[x]) /\ rejecting' = rejecting
  BY <1>2, <1>4, KeptMeets DEF Kept
<1>5. CASE UNCHANGED <<req, rejecting>>
  BY <1>4, <1>5 DEF Kept
<1>6. CASE Becomes(r, q) /\ rejecting' = rejecting
  BY <1>1, <1>3, <1>4, <1>6
<1>7. \/ Becomes(r, q) /\ rejecting' = rejecting
      \/ UNCHANGED <<req, rejecting>>
      \/ Late(r, q)
      \/ Retry(r, q)
  BY DEF refresh_request
<1> HIDE DEF q
<1>8. CASE Late(r, q)
  <2> DEFINE p == [q EXCEPT !.code = RejectCode(q)]
             m == [q EXCEPT !.child = None]
  <2>1. \/ Becomes(r, m) /\ rejecting' = rejecting
        \/ Becomes(r, p) /\ rejecting' = r
    BY <1>1, <1>8 DEF Late
  <2>2. Kept(m, req[r])
    BY <1>1 DEF Kept, Due, Delayed, Request
  <2>3. CASE Becomes(r, m) /\ rejecting' = rejecting
    <3> HIDE DEF m
    <3> QED
      BY <1>3, <1>4, <2>2, <2>3
  <2>4. CASE Becomes(r, p) /\ rejecting' = r
    <3>1. /\ p \in Request /\ Keeps(p, q) /\ p.code = RejectCode(q)
          /\ p.options = q.options /\ p.sent = q.sent
          /\ q.slot \in Auth => p.code = "reject"
      BY <1>1, CodeKeeps, RejectCodeType
    <3> HIDE DEF p
    <3>2. /\ req'[r] = p /\ \A y \in Requests : y # r => req'[y] = req[y]
      BY <1>1, <2>4, OneChanges DEF LInv
    <3>3. CASE x = r
      <4>1. /\ p.finished => req[r].finished
            /\ Meets(p, TRUE)
            /\ Watched(req[r], FALSE) => Watched(p, TRUE)
        BY <1>1, <3>1 DEF Kept, Keeps, Meets, Watched, Due, Delayed
      <4> QED
        BY <2>4, <3>2, <3>3, <4>1
    <3>4. CASE x # r
      BY <2>4, <3>2, <3>4
    <3> QED
      BY <3>3, <3>4
  <2> QED
    BY <2>1, <2>3, <2>4
<1>9. CASE Retry(r, q)
  BY <1>1, <1>6, <1>9 DEF Retry
<1> QED
  BY <1>5, <1>6, <1>7, <1>8, <1>9

\* rad_reject ends: a reply there still is goes out or is delayed.
LEMMA RejectReplies ==
    ASSUME LInv, RejectEnds, NEW x \in Requests
    PROVE  LET q == req[x]  p == req'[x]  b == x = rejecting
           IN  /\ p.finished => q.finished
               /\ Meets(q, b) => Meets(p, FALSE)
               /\ Watched(q, b) => Watched(p, FALSE)
<1> DEFINE q == req[rejecting]
           p == Rejected(q)
           m == [p EXCEPT !.child = None]
<1>1. rejecting \in Requests /\ q \in Request
  BY DEF RejectEnds, LInv, TypeOK
<1>2. /\ p \in Request /\ Keeps(p, q) /\ p.code = q.code
      /\ q.code # "none" => Due(p)
  BY <1>1, RejectedKeeps DEF Due
<1>3. Becomes(rejecting, m)
  BY DEF RejectEnds
<1> HIDE DEF p
<1>4. /\ m.finished = p.finished /\ m.slot = p.slot /\ m.code = p.code
      /\ Due(p) => Due(m)
  BY <1>2 DEF Due, Delayed, Request
<1> HIDE DEF m
<1>5. /\ m.finished => q.finished
      /\ Meets(m, FALSE)
      /\ Watched(q, TRUE) => Watched(m, FALSE)
  BY <1>2, <1>4 DEF Keeps, Meets, Watched
<1>6. req'[rejecting] = m /\ \A y \in Requests : y # rejecting => req'[y] = req[y]
  BY <1>1, <1>3, OneChanges DEF LInv
<1>7. CASE x = rejecting
  BY <1>5, <1>6, <1>7
<1>8. CASE x # rejecting
  BY <1>6, <1>8
<1> QED
  BY <1>7, <1>8

\* The main thread.
LEMMA MainReplies ==
    ASSUME LInv, RInv, Packet \/ Clean \/ Timeout \/ Tick
    PROVE  RInv'
<1>1. /\ \A w \in Workers : pc[w] # "idle" => job[w] \in Requests
      /\ \A x \in Requests : req[x] \in Request
      /\ None \notin Requests
  BY ServerAssumption DEF LInv, TypeOK, Shared, FinishedIsLeft
<1>2. ASSUME \A r \in Requests : Kept(req'[r], req[r]),
             UNCHANGED <<threads, rejecting>>
      PROVE  RInv'
  <2>1. \A r \in Requests :
            /\ req'[r].finished => req[r].finished
            /\ Meets(req[r], r = rejecting) => Meets(req'[r], r = rejecting')
            /\ Watched(req[r], r = rejecting) => Watched(req'[r], r = rejecting')
    BY <1>2, KeptMeets DEF Kept
  <2> QED
    BY <1>1, <1>2, <2>1, RepliesByMain
<1>3. CASE UNCHANGED <<req, threads, rejecting>>
  BY <1>2, <1>3 DEF Kept
<1>4. ASSUME NEW r \in Requests, NEW s \in Slots, Receive(r, s) PROVE RInv'
  <2> DEFINE q == [Unused EXCEPT !.slot = s]
  <2>1. /\ q \in Request /\ q.options = {} /\ ~q.finished
    BY UnusedType DEF Unused
  <2>2. /\ rejecting' = rejecting /\ r # rejecting
        /\ \A w \in Workers : pc[w] # "idle" => job[w] # r
    BY <1>1, <1>4
    DEF Receive, Receiving, Received, LInv, ListInv, ListIsKnown, Shared,
        FinishedIsLeft, ListedOnce
  <2>3. Spawn(r, q) \/ UNCHANGED <<req, threads>>
    BY <1>4 DEF Receive
  <2> HIDE DEF q
  <2>4. CASE Becomes(r, GiveUp(q)) /\ UNCHANGED threads
    <3>1. Meets(GiveUp(q), FALSE)
      <4>1. q.slot \in Auth => Due(rad_reject(q))
        BY <2>1, RejectDue
      <4>2. rad_reject(q) \in Request /\ Keeps(rad_reject(q), q)
        BY <2>1, RejectKeeps
      <4> QED
        BY <4>1, <4>2 DEF GiveUp, Meets, Due, Delayed, Keeps, Request
    <3>2. /\ req'[r] = GiveUp(q)
          /\ \A x \in Requests : x # r => req'[x] = req[x]
      BY <2>4, OneChanges DEF LInv
    <3> QED
      BY <1>1, <2>2, <2>4, <3>1, <3>2 DEF RInv, threads, Early
  <2>5. ASSUME NEW w \in Workers, Becomes(r, [q EXCEPT !.child = w]),
               job' = [job EXCEPT ![w] = r], Goes(w, "decode"), UNCHANGED fin
        PROVE  RInv'
    <3> DEFINE p == [q EXCEPT !.child = w]
    <3>1. /\ ~p.finished /\ Watched(p, FALSE)
      BY <2>1 DEF Watched, Request
    <3> HIDE DEF p
    <3>2. /\ req'[r] = p
          /\ \A x \in Requests : x # r => req'[x] = req[x]
      BY <2>5, OneChanges DEF LInv, p
    <3>3. /\ job'[w] = r /\ pc'[w] = "decode"
          /\ \A v \in Workers : v # w => pc'[v] = pc[v] /\ job'[v] = job[v]
      BY <2>5 DEF Goes, LInv, TypeOK
    <3>4. \A x \in Requests : req'[x].finished => Meets(req'[x], x = rejecting')
      BY <2>2, <3>1, <3>2 DEF RInv
    <3>5. ASSUME NEW v \in Workers, v # w
          PROVE  LET x == job'[v] IN
                 /\ pc'[v] \in Early => Watched(req'[x], x = rejecting')
                 /\ pc'[v] \in {"leave", "last"} /\ fin'[v]
                    => Meets(req'[x], x = rejecting')
      <4>1. CASE pc[v] = "idle"
        BY <3>3, <3>5, <4>1 DEF Early
      <4>2. CASE pc[v] # "idle"
        <5>1. job[v] \in Requests /\ req'[job[v]] = req[job[v]]
          BY <1>1, <2>2, <3>2, <4>2
        <5> QED
          BY <2>2, <2>5, <3>3, <3>5, <5>1 DEF RInv
      <4> QED
        BY <4>1, <4>2
    <3> QED
      BY <2>2, <3>1, <3>2, <3>3, <3>4, <3>5 DEF RInv
  <2>6. UNCHANGED rejecting
    BY <2>2
  <2> QED
    BY <1>3, <2>3, <2>4, <2>5, <2>6 DEF Spawn
<1>5. ASSUME NEW r \in Requests, Retransmit(r) PROVE RInv'
  <2> DEFINE q == req[r]
  <2>1. Kept(SendDelayed(q), q) /\ Kept(rad_send(q), q)
    BY <1>1, SendKept
  <2>2. Kept([q EXCEPT !.asked = @ + 1], q)
    BY <1>1 DEF Kept, Due, Delayed, Request
  <2>3. \E p : Kept(p, q) /\ (Becomes(r, p) \/ UNCHANGED req)
    BY <1>5, <2>1, <2>2 DEF Retransmit
  <2>4. \A x \in Requests : Kept(req'[x], req[x])
    BY <2>3, OneChanges DEF LInv, Kept
  <2> QED
    BY <1>2, <1>5, <2>4 DEF Retransmit, Received
<1>6. ASSUME NEW r \in Requests, Drop(r) PROVE RInv'
  BY <1>3, <1>6 DEF Drop, Received
<1>7. ASSUME NEW r \in Requests, HomeReply(r) PROVE RInv'
  BY <1>3, <1>7 DEF HomeReply, Received, Awaited, LInv, Shared, Unproxied
<1>8. ASSUME NEW r \in list, refresh_request(r), rejecting = None,
             UNCHANGED threads
      PROVE  RInv'
  <2>1. \A x \in Requests :
            /\ req'[x].finished => req[x].finished
            /\ Meets(req[x], x = rejecting) => Meets(req'[x], x = rejecting')
            /\ Watched(req[x], x = rejecting)
               => Watched(req'[x], x = rejecting')
    <3> SUFFICES ASSUME NEW x \in Requests
                 PROVE  /\ req'[x].finished => req[x].finished
                        /\ Meets(req[x], x = rejecting)
                           => Meets(req'[x], x = rejecting')
                        /\ Watched(req[x], x = rejecting)
                           => Watched(req'[x], x = rejecting')
      OBVIOUS
    <3>1. (x = rejecting) = FALSE
      BY <1>1, <1>8
    <3> QED
      BY <1>8, <3>1, RefreshReplies
  <2> QED
    BY <1>1, <1>8, <2>1, RepliesByMain
<1>9. CASE Some
  <2>1. CASE UNCHANGED <<req, rejecting, threads>>
    BY <1>3, <2>1
  <2>2. CASE refresh_request(last_request) /\ last_request \in list
    BY <1>8, <1>9, <2>2 DEF Some
  <2> QED
    BY <1>9, <2>1, <2>2 DEF Some, LInv, ListInv, LastRequestListed
<1>10. ASSUME NEW r \in Requests, Walk(r) PROVE RInv'
  BY <1>8, <1>10 DEF Walk, LInv, ListInv, ListIsKnown
<1>11. CASE RejectEnds
  <2>1. rejecting' = None /\ UNCHANGED threads
    BY <1>11 DEF RejectEnds
  <2>2. \A x \in Requests :
            /\ req'[x].finished => req[x].finished
            /\ Meets(req[x], x = rejecting) => Meets(req'[x], x = rejecting')
            /\ Watched(req[x], x = rejecting)
               => Watched(req'[x], x = rejecting')
    <3> SUFFICES ASSUME NEW x \in Requests
                 PROVE  /\ req'[x].finished => req[x].finished
                        /\ Meets(req[x], x = rejecting)
                           => Meets(req'[x], x = rejecting')
                        /\ Watched(req[x], x = rejecting)
                           => Watched(req'[x], x = rejecting')
      OBVIOUS
    <3>1. (x = rejecting') = FALSE
      BY <1>1, <2>1
    <3> QED
      BY <1>11, <3>1, RejectReplies
  <2> QED
    BY <1>1, <2>1, <2>2, RepliesByMain
<1>12. CASE Tick
  <2>1. ASSUME NEW x \in Requests
        PROVE  Kept([req[x] EXCEPT !.age = @ + 1], req[x])
               /\ Kept(req[x], req[x])
    BY <1>1 DEF Kept, Due, Delayed, Request
  <2>2. \A x \in Requests : Kept(req'[x], req[x])
    BY <1>12, <2>1 DEF Tick
  <2> QED
    BY <1>2, <1>12, <2>2 DEF Tick
<1>13. CASE CleanSome \/ CleanAll \/ WalkEnd \/ Timeout
  BY <1>3, <1>13 DEF CleanSome, CleanAll, WalkEnd, Timeout
<1> QED
  BY <1>4, <1>5, <1>6, <1>7, <1>9, <1>10, <1>11, <1>12, <1>13
  DEF Packet, Clean

\* When no user has a home server, a finished Access-Request that has a reply
\* was answered or is marked for the main thread to answer, whatever rad_reject
\* and a thread that comes late did to it in which order (rad_respond,
\* refresh_request).
THEOREM Answered == ASSUME Homes = {} PROVE Spec => []ReplyIsSentOrDue
<1>1. Init => RInv
  BY DEF Init, RInv, Unused, Early
<1>2. LInv /\ RInv /\ [Next]_vars => RInv'
  <2>1. CASE UNCHANGED vars
    BY <2>1 DEF RInv, vars, threads, loop
  <2> QED
    BY <2>1, WorkReplies, MainReplies DEF Next
<1>3. RInv => ReplyIsSentOrDue
  BY DEF RInv, Meets, Due, ReplyIsSentOrDue
<1> QED
  BY <1>1, <1>2, <1>3, Listed, PTL DEF Spec
=============================================================================
