--------------------------- MODULE SimuNas_proofs ---------------------------
(***************************************************************************)
(* Proofs about SimuNas: a challenge is accepted once, and no session is    *)
(* accounted for that the server has not accepted, and a station that       *)
(* answers in time is never refused for its answer, for every number of     *)
(* stations, retries and challenges and whatever is lost or repeated.       *)
(***************************************************************************)
EXTENDS SimuNas, FiniteSetTheorems, TLAPS

USE DEF nas, server, stations, history

Met == {c \in Challenges : accepted[c] > 0}

\* The list holds one conversation for a challenge, and none for a challenge
\* that has been met: rlm_eap takes the conversation out with the response.
ListOK ==
    /\ \A h \in echolist : h.chal \in 1 .. issued /\ accepted[h.chal] = 0
    /\ \A h, g \in echolist : h.chal = g.chal => h = g
    /\ \A c \in Challenges : c > issued => accepted[c] = 0

\* An Access-Accept that the NAS has not looked at yet.
Pending == IF pc = "md5" /\ response.code = "accept" THEN 1 ELSE 0

SInv ==
    /\ issued \in 0 .. MaxChallenges /\ starts \in Nat
    /\ accepted \in [Challenges -> {0, 1}]
    /\ ListOK
    /\ starts + Pending <= Cardinality(Met)

LEMMA MetFinite == IsFiniteSet(Met) /\ Cardinality(Met) \in Nat
<1>1. IsFiniteSet(Challenges)
  BY FS_Interval, NumbersAssumption DEF Challenges
<1>2. Met \subseteq Challenges
  BY DEF Met
<1> QED
  BY <1>1, <1>2, FS_Subset, FS_CardinalityType

LEMMA SInvInit == Init => SInv
<1> SUFFICES ASSUME Init PROVE SInv
  OBVIOUS
<1>1. Met = {} /\ Pending = 0
  BY DEF Init, Met, Pending
<1>2. Cardinality(Met) = 0
  BY <1>1, FS_EmptySet
<1> QED
  BY <1>1, <1>2, NumbersAssumption DEF Init, SInv, ListOK, Challenges

\* Steps that leave the server alone and bring the NAS no accept.
LEMMA NasMoves ==
    ASSUME SInv, UNCHANGED <<echolist, issued, accepted>>,
           starts' + Pending' <= starts + Pending, starts' \in Nat
    PROVE  SInv'
<1>1. Met' = Met
  BY DEF Met
<1>2. Pending \in {0, 1} /\ Pending' \in {0, 1}
  BY DEF Pending
<1>3. Cardinality(Met') = Cardinality(Met)
  BY <1>1
<1>4. starts \in Nat /\ starts + Pending <= Cardinality(Met)
  BY DEF SInv
<1>5. \A a, b, c, d, n \in Nat : a + b <= c + d /\ c + d <= n => a + b <= n
  OBVIOUS
<1>6. starts' + Pending' <= Cardinality(Met')
  BY <1>2, <1>3, <1>4, <1>5, MetFinite
<1> QED
  BY <1>6 DEF SInv, ListOK

\* A verdict is what rlm_eap says or a refusal on the user's account.
LEMMA Judged ==
    ASSUME NEW r, NEW why, Verdict(r, why)
    PROVE  /\ \/ response' = r /\ cause' = why
              \/ response' = Response("reject") /\ cause' = why \cup {"name"}
           /\ why \subseteq cause'
  BY DEF Verdict

\* A challenge is issued: it is larger than every one in the list.
LEMMA InitiateStep ==
    ASSUME SInv, pc = "identity", pc' = pc, starts' = starts, Initiate
    PROVE  SInv'
<1>p. PICK p \in BOOLEAN :
         echolist' = echolist \cup
            {Conversation(issued + 1, MD5Id(frame.id), tmpUserName, p)}
  BY DEF Initiate
<1> DEFINE h == Conversation(issued + 1, MD5Id(frame.id), tmpUserName, p)
<1>1. /\ issued' = issued + 1 /\ issued' \in Challenges
      /\ echolist' = echolist \cup {h} /\ h.chal = issued + 1
      /\ accepted' = accepted
  BY <1>p DEF Initiate, Conversation
<1>2. Met' = Met /\ Pending' = 0 /\ Pending = 0
  BY <1>1 DEF Met, Pending
<1>3. issued \in Nat /\ issued' \in 0 .. MaxChallenges
  BY <1>1, NumbersAssumption DEF SInv, Challenges
<1>4. accepted[issued + 1] = 0
  BY <1>1, <1>3 DEF SInv, ListOK
<1> HIDE DEF h
<1>5. ListOK'
  <2>1. \A g \in echolist : g.chal \in 1 .. issued
    BY DEF SInv, ListOK
  <2>2. \A g \in echolist' : g.chal \in 1 .. issued' /\ accepted'[g.chal] = 0
    BY <1>1, <1>3, <1>4, <2>1 DEF SInv, ListOK
  <2>3. \A f, g \in echolist' : f.chal = g.chal => f = g
    BY <1>1, <1>3, <2>1 DEF SInv, ListOK
  <2>4. \A c \in Challenges : c > issued' => accepted'[c] = 0
    BY <1>1, <1>3, NumbersAssumption DEF SInv, ListOK, Challenges
  <2> QED
    BY <2>2, <2>3, <2>4 DEF ListOK
<1>6. starts' + Pending' <= Cardinality(Met')
  BY <1>2 DEF SInv
<1> QED
  BY <1>1, <1>3, <1>5, <1>6 DEF SInv

\* A conversation leaves the list; its challenge may be met by that, unless
\* the user is refused all the same.
LEMMA AuthenticateStep ==
    ASSUME SInv, pc = "md5", pc' = pc, response = NoResponse,
           starts' = starts, Authenticate
    PROVE  SInv'
<1>1. Pending = 0 /\ Pending' \in {0, 1} /\ issued' = issued
  BY DEF Pending, Authenticate, NoResponse
<1>2. CASE UNCHANGED accepted /\ echolist' \subseteq echolist
           /\ response'.code # "accept"
  <2>1. Met' = Met /\ Pending' = 0
    BY <1>2 DEF Met, Pending
  <2>2. ListOK'
    BY <1>1, <1>2 DEF SInv, ListOK
  <2> QED
    BY <1>1, <1>2, <2>1, <2>2 DEF SInv
<1>3. ASSUME NEW h \in echolist, echolist' = echolist \ {h},
             h.chal = tmpState,
             accepted' = [accepted EXCEPT ![tmpState] = @ + 1]
      PROVE  SInv'
  <2>1. /\ h.chal \in Challenges /\ accepted[h.chal] = 0
        /\ h.chal \in 1 .. issued
    BY NumbersAssumption DEF SInv, ListOK, Challenges
  <2>2. accepted' = [accepted EXCEPT ![h.chal] = 1]
    BY <1>3, <2>1 DEF SInv
  <2>3. Met' = Met \cup {h.chal} /\ h.chal \notin Met
    BY <2>1, <2>2 DEF Met, SInv
  <2>4. Cardinality(Met') = Cardinality(Met) + 1
    BY <2>3, MetFinite, FS_AddElement
  <2>5. ListOK'
    <3>1. \A g \in echolist' : g \in echolist /\ g.chal # h.chal
      BY <1>3 DEF SInv, ListOK
    <3>2. \A g \in echolist' : g.chal \in 1 .. issued' /\ accepted'[g.chal] = 0
      BY <1>1, <2>1, <2>2, <3>1, NumbersAssumption DEF SInv, ListOK, Challenges
    <3>3. \A c \in Challenges : c > issued' => accepted'[c] = 0
      BY <1>1, <2>1, <2>2, NumbersAssumption DEF SInv, ListOK, Challenges
    <3> QED
      BY <3>1, <3>2, <3>3 DEF SInv, ListOK
  <2>6. accepted' \in [Challenges -> {0, 1}]
    BY <2>1, <2>2 DEF SInv
  <2>7. starts' + Pending' <= Cardinality(Met')
    BY <1>1, <2>4, MetFinite DEF SInv
  <2> QED
    BY <1>1, <2>5, <2>6, <2>7 DEF SInv
<1>4. CASE response'.code # "accept"
  <2>1. UNCHANGED accepted /\ echolist' \subseteq echolist
    BY <1>4 DEF Authenticate, eaplist_isreply
  <2> QED
    BY <1>2, <1>4, <2>1
<1>5. CASE response'.code = "accept"
  <2>1. Response("reject").code # "accept"
    BY DEF Response, NoResponse
  <2>2. ASSUME NEW why, Verdict(Response("reject"), why) PROVE FALSE
    BY <1>5, <2>1, <2>2, Judged
  <2>3. \E h \in echolist : h.chal = tmpState /\ echolist' = echolist \ {h}
    BY <2>2 DEF Authenticate, eaplist_isreply
  <2>4. accepted' = [accepted EXCEPT ![tmpState] = @ + 1]
    BY <1>5 DEF Authenticate
  <2> QED
    BY <1>3, <2>3, <2>4
<1> QED
  BY <1>4, <1>5

LEMMA SInvStep == SInv /\ [Next]_vars => SInv'
<1> SUFFICES ASSUME SInv, [Next]_vars PROVE SInv'
  OBVIOUS
<1> USE DEF NoResponse, Response, Pending
<1>1. CASE Serve
  <2>1. starts' = starts /\ pc' = pc /\ Calling
    BY <1>1 DEF Serve
  <2>2. CASE pc = "identity" /\ Initiate
    BY <2>1, <2>2, InitiateStep
  <2>3. CASE pc = "md5" /\ Authenticate
    BY <2>1, <2>3, AuthenticateStep DEF Calling
  <2>4. CASE RejectName \/ Account
    <3>1. Pending' = 0 /\ Pending = 0
      BY <2>1, <2>4 DEF RejectName, Account, Calling
    <3>2. UNCHANGED <<echolist, issued, accepted>>
      BY <2>4 DEF RejectName, Account
    <3> QED
      BY <2>1, <3>1, <3>2, NasMoves DEF SInv
  <2> QED
    BY <1>1, <2>2, <2>3, <2>4 DEF Serve
<1>2. CASE \E h \in echolist : Expire(h)
  <2>1. /\ UNCHANGED <<issued, accepted, starts, pc, response>>
        /\ echolist' \subseteq echolist
    BY <1>2 DEF Expire
  <2>2. Met' = Met /\ Pending' = Pending
    BY <2>1 DEF Met
  <2> QED
    BY <2>1, <2>2 DEF SInv, ListOK
<1>3. CASE MD5Accepted
  <2>1. /\ UNCHANGED <<echolist, issued, accepted>> /\ starts' = starts + 1
        /\ Pending = 1 /\ Pending' = 0
    BY <1>3 DEF MD5Accepted, Call
  <2> QED
    BY <2>1, NasMoves DEF SInv
<1>4. CASE \/ ReceiveStart \/ ReceiveLogoff \/ ReceiveIdentity \/ ReceiveMD5
           \/ IdentityReturned \/ MD5Rejected \/ AccountReturned \/ TimeOut
  <2>1. UNCHANGED <<echolist, issued, accepted, starts>>
    BY <1>4 DEF ReceiveStart, ReceiveLogoff, ReceiveIdentity, ReceiveMD5,
                IdentityReturned, MD5Rejected, AccountReturned, TimeOut
  <2>2. Pending' = 0 \/ UNCHANGED <<pc, response>>
    BY <1>4 DEF ReceiveStart, ReceiveLogoff, ReceiveIdentity, ReceiveMD5, Call,
                IdentityReturned, MD5Rejected, AccountReturned, Done, TimeOut
  <2> QED
    BY <2>1, <2>2, NasMoves DEF SInv
<1>5. CASE (\E s \in Stations : Station(s)) \/ UNCHANGED vars
  <2>1. UNCHANGED <<echolist, issued, accepted, starts, pc, response>>
    BY <1>5 DEF vars, Station, StationStarts, StationLogsOff, StationAnswers,
                StationRetransmits, StationResult, Hears
  <2> QED
    BY <2>1, NasMoves DEF SInv
<1> QED
  BY <1>1, <1>2, <1>3, <1>4, <1>5 DEF Next, NAS

\* A challenge leads to one Access-Accept at most: what a station or the NAS
\* repeats finds no conversation any more (mem.c:236-271).
THEOREM ChallengesAreMetOnce == Spec => []AcceptedOnce
<1>1. SInv => AcceptedOnce
  BY DEF SInv, AcceptedOnce
<1> QED
  BY SInvInit, SInvStep, <1>1, PTL DEF Spec

\* SendAccountStart is called no more often than a challenge has been met, for
\* all stations and retries (SimuNas.cxx:397-407).
THEOREM AccountingIsEarned == Spec => []StartsAreEarned
<1>1. SInv => StartsAreEarned
  BY MetFinite DEF SInv, StartsAreEarned, Met, Pending
<1> QED
  BY SInvInit, SInvStep, <1>1, PTL DEF Spec

-----------------------------------------------------------------------------
(* What the steps do to the frames that wait.                              *)

LEMMA AppendElements ==
    ASSUME NEW S, NEW q \in Seq(S), NEW e \in S
    PROVE  /\ Append(q, e) \in Seq(S)
           /\ \A i \in DOMAIN Append(q, e) :
                 Append(q, e)[i] = e \/ \E j \in DOMAIN q : Append(q, e)[i] = q[j]
  OBVIOUS

LEMMA CaptureKeeps ==
    ASSUME queue \in Seq(InFrames), NEW f \in InFrames, Capture(f)
    PROVE  /\ queue' \in Seq(InFrames)
           /\ \A i \in DOMAIN queue' :
                 queue'[i] = f \/ \E j \in DOMAIN queue : queue'[i] = queue[j]
  BY AppendElements DEF Capture

LEMMA SendKeeps ==
    ASSUME inbox \in [Stations -> Seq(OutFrames)], NEW f \in OutFrames, Send(f)
    PROVE  /\ inbox' \in [Stations -> Seq(OutFrames)]
           /\ \A s \in Stations : \A i \in DOMAIN inbox'[s] :
                 \/ inbox'[s][i] = f
                 \/ \E j \in DOMAIN inbox[s] : inbox'[s][i] = inbox[s][j]
<1>1. PICK missed \in SUBSET Stations :
         inbox' = [s \in Stations |->
                      IF s \in missed THEN inbox[s] ELSE Append(inbox[s], f)]
  BY DEF Send
<1>2. ASSUME NEW s \in Stations
      PROVE  /\ inbox'[s] \in Seq(OutFrames)
             /\ \A i \in DOMAIN inbox'[s] :
                   \/ inbox'[s][i] = f
                   \/ \E j \in DOMAIN inbox[s] : inbox'[s][i] = inbox[s][j]
  <2>1. inbox[s] \in Seq(OutFrames)
    OBVIOUS
  <2>2. inbox'[s] = inbox[s] \/ inbox'[s] = Append(inbox[s], f)
    BY <1>1
  <2>3. CASE inbox'[s] = Append(inbox[s], f)
    BY <2>1, <2>3, AppendElements
  <2> QED
    BY <2>1, <2>2, <2>3
<1> QED
  BY <1>1, <1>2

LEMMA ReceiveKeeps ==
    ASSUME queue \in Seq(InFrames), NEW kind, Receive(kind)
    PROVE  /\ queue' \in Seq(InFrames) /\ Head(queue) \in InFrames
           /\ Head(queue).kind = kind /\ Head(queue) = queue[1]
           /\ 1 \in DOMAIN queue
           /\ \A i \in DOMAIN queue' :
                 \E j \in DOMAIN queue : queue'[i] = queue[j]
<1>1. queue # <<>> /\ queue' = Tail(queue) /\ Head(queue).kind = kind
  BY DEF Receive
<1> QED
  BY <1>1

LEMMA HearKeeps ==
    ASSUME inbox \in [Stations -> Seq(OutFrames)], NEW s \in Stations, Hears(s)
    PROVE  /\ inbox' \in [Stations -> Seq(OutFrames)]
           /\ Head(inbox[s]) \in OutFrames /\ Head(inbox[s]) = inbox[s][1]
           /\ 1 \in DOMAIN inbox[s]
           /\ \A t \in Stations : \A i \in DOMAIN inbox'[t] :
                 \E j \in DOMAIN inbox[t] : inbox'[t][i] = inbox[t][j]
<1>1. inbox[s] # <<>> /\ inbox' = [inbox EXCEPT ![s] = Tail(@)]
  BY DEF Hears
<1>2. inbox[s] \in Seq(OutFrames) /\ Tail(inbox[s]) \in Seq(OutFrames)
  BY <1>1
<1>3. \A i \in DOMAIN Tail(inbox[s]) :
         \E j \in DOMAIN inbox[s] : Tail(inbox[s])[i] = inbox[s][j]
  BY <1>1, <1>2
<1>4. ASSUME NEW t \in Stations
      PROVE  /\ inbox'[t] \in Seq(OutFrames)
             /\ \A i \in DOMAIN inbox'[t] :
                   \E j \in DOMAIN inbox[t] : inbox'[t][i] = inbox[t][j]
  <2>1. inbox'[t] = IF t = s THEN Tail(inbox[s]) ELSE inbox[t]
    BY <1>1
  <2> QED
    BY <1>2, <1>3, <2>1
<1> QED
  BY <1>1, <1>2, <1>4

-----------------------------------------------------------------------------
(* The types, part by part.                                                *)

\* A request to the server is made for a frame of the kind it is named for,
\* and for somebody; a challenge has an identifier.
Asking ==
    /\ pc \in Calls => frame \in InFrames
    /\ pc = "identity" => tmpUserName \in Stations
    /\ pc = "md5" => frame.kind = "md5"
    /\ response.code = "challenge" => pc = "identity" /\ response.id \in Nat

NasTyped ==
    /\ pc \in {"receive"} \cup Calls
    /\ frame \in InFrames \cup {None}
    /\ out_id \in Nat
    /\ tmpState \in 0 .. MaxChallenges /\ tmpUserName \in Stations \cup {None}
    /\ tries \in 0 .. Tries
    /\ response \in [code : {"none", "challenge", "accept", "reject",
                             "accounting"},
                     id : Nat \cup {-1}, chal : 0 .. MaxChallenges]
    /\ Asking

ServerTyped ==
    /\ echolist \subseteq [chal : Challenges, id : Nat, user : Stations,
                            configured : BOOLEAN]
    /\ issuedTo \in [Challenges -> Stations \cup {None}]
    /\ used \subseteq 0 .. MaxChallenges

StationsTyped ==
    /\ queue \in Seq(InFrames)
    /\ inbox \in [Stations -> Seq(OutFrames)]
    /\ last_request \in [Stations -> Nat \cup {-1}]
    /\ answer \in [Stations -> InFrames \cup {None}]

RestTyped == asked \in 0 .. MaxChallenges /\ cause \subseteq Causes

Typed == NasTyped /\ ServerTyped /\ StationsTyped /\ RestTyped

LEMMA TypedIsTypeOK == Typed /\ SInv => TypeOK
<1> SUFFICES ASSUME Typed, SInv PROVE TypeOK
  OBVIOUS
<1>1. accepted \in [Challenges -> Nat]
  BY DEF SInv
<1> QED
  BY <1>1
  DEF Typed, NasTyped, ServerTyped, StationsTyped, RestTyped, SInv, TypeOK

LEMMA TypedInit == Init => Typed
<1> SUFFICES ASSUME Init PROVE Typed
  OBVIOUS
<1> USE NumbersAssumption DEF Init
<1>1. NasTyped
  BY DEF NasTyped, Asking, Calls, NoResponse
<1>2. ServerTyped /\ RestTyped
  <2>1. /\ echolist = {} /\ used = {} /\ asked = 0 /\ cause = {}
        /\ issuedTo = [c \in Challenges |-> None]
    OBVIOUS
  <2> HIDE DEF Init
  <2>2. 0 \in 0 .. MaxChallenges
    OBVIOUS
  <2>3. ServerTyped
    BY <2>1 DEF ServerTyped
  <2> QED
    BY <2>1, <2>2, <2>3 DEF RestTyped
<1>3. StationsTyped
  BY DEF StationsTyped
<1> QED
  BY <1>1, <1>2, <1>3 DEF Typed

\* The server and the waiting for it.
LEMMA TypedServe ==
    ASSUME Typed, SInv, Serve \/ (\E h \in echolist : Expire(h)) \/ TimeOut
    PROVE  Typed'
<1>1. CASE Serve
  <2>1. /\ UNCHANGED <<pc, frame, out_id, tmpState, tmpUserName, tries, queue,
                       stations, asked>>
        /\ Calling
    BY <1>1 DEF Serve
  <2>2. StationsTyped' /\ asked' \in 0 .. MaxChallenges
    BY <2>1 DEF Typed, StationsTyped, RestTyped
  <2>3. CASE pc = "identity" /\ Initiate
    <3> DEFINE c == issued + 1
               i == MD5Id(frame.id)
    <3>p. PICK p \in BOOLEAN :
             echolist' = echolist \cup {Conversation(c, i, tmpUserName, p)}
      BY <2>3 DEF Initiate
    <3> DEFINE h == Conversation(c, i, tmpUserName, p)
    <3>1. /\ c \in Challenges /\ echolist' = echolist \cup {h}
          /\ issuedTo' = [issuedTo EXCEPT ![c] = tmpUserName]
          /\ \/ response' = [code |-> "challenge", id |-> i, chal |-> c]
             \/ response' = Response("reject")
          /\ cause' \subseteq Causes /\ used' = used
      BY <2>3, <3>p DEF Initiate, Verdict, Causes
    <3>2. frame \in InFrames /\ tmpUserName \in Stations
      BY <2>3 DEF Typed, NasTyped, Asking, Calls
    <3>3. i \in Nat
      BY <3>2 DEF MD5Id, InFrames
    <3>4. h \in [chal : Challenges, id : Nat, user : Stations,
                 configured : BOOLEAN]
      BY <3>1, <3>2, <3>3 DEF Conversation
    <3>5. c \in 0 .. MaxChallenges
      BY <3>1, NumbersAssumption DEF Challenges
    <3> HIDE DEF c, i, h
    <3>6. ServerTyped' /\ RestTyped'
      BY <2>2, <3>1, <3>2, <3>4 DEF Typed, ServerTyped, RestTyped
    <3>7. NasTyped'
      BY <2>1, <2>3, <3>1, <3>3, <3>5, NumbersAssumption
      DEF Typed, NasTyped, Asking, Response, NoResponse
    <3> QED
      BY <2>2, <3>6, <3>7 DEF Typed
  <2>4. CASE pc = "md5" /\ Authenticate
    <3>1. /\ response' = Response("accept") \/ response' = Response("reject")
          /\ echolist' \subseteq echolist /\ UNCHANGED issuedTo
          /\ used' = used \cup {tmpState} /\ cause' \subseteq Causes
      BY <2>4 DEF Authenticate, eaplist_isreply, Verdict, Causes
    <3>2. ServerTyped' /\ RestTyped'
      BY <2>2, <3>1 DEF Typed, NasTyped, ServerTyped, RestTyped
    <3>3. NasTyped'
      BY <2>1, <2>4, <3>1, NumbersAssumption
      DEF Typed, NasTyped, Asking, Response, NoResponse
    <3> QED
      BY <2>2, <3>2, <3>3 DEF Typed
  <2>5. CASE RejectName \/ Account
    <3>1. /\ response' \in {Response("reject"), Response("accounting")}
          /\ cause' \in {cause, {"name"}}
          /\ UNCHANGED <<echolist, issuedTo, used>>
      BY <2>5 DEF RejectName, Account
    <3>2. NasTyped'
      BY <2>1, <3>1, NumbersAssumption
      DEF Typed, NasTyped, Asking, Response, NoResponse
    <3> QED
      BY <2>2, <3>1, <3>2 DEF Typed, ServerTyped, RestTyped, Causes
  <2> QED
    BY <1>1, <2>3, <2>4, <2>5 DEF Serve
<1>2. ASSUME NEW h \in echolist, Expire(h)
      PROVE  Typed'
  <2>1. h.chal \in 0 .. MaxChallenges
    BY <1>2, NumbersAssumption DEF Typed, ServerTyped, Challenges
  <2>2. /\ echolist' = echolist \ {h} /\ used' = used \cup {h.chal}
        /\ issuedTo' = issuedTo
    BY <1>2 DEF Expire
  <2>3. ServerTyped'
    BY <2>1, <2>2 DEF Typed, ServerTyped
  <2> QED
    BY <1>2, <2>3
    DEF Expire, Typed, NasTyped, Asking, StationsTyped, RestTyped
<1>3. CASE TimeOut
  <2>1. NasTyped'
    BY <1>3, NumbersAssumption DEF TimeOut, Typed, NasTyped, Asking, NoResponse
  <2> QED
    BY <1>3, <2>1 DEF TimeOut, Typed, ServerTyped, StationsTyped, RestTyped
<1> QED
  BY <1>1, <1>2, <1>3

\* The NAS turns to a frame of the queue ...
LEMMA TypedReceive ==
    ASSUME Typed,
           ReceiveStart \/ ReceiveLogoff \/ ReceiveIdentity \/ ReceiveMD5
    PROVE  Typed'
<1>1. queue \in Seq(InFrames) /\ inbox \in [Stations -> Seq(OutFrames)]
  BY DEF Typed, StationsTyped
<1>2. UNCHANGED <<server, last_request, answer, history, out_id, tmpState>>
  BY DEF ReceiveStart, ReceiveLogoff, ReceiveIdentity, ReceiveMD5
<1>3. ServerTyped' /\ RestTyped'
  BY <1>2 DEF Typed, ServerTyped, RestTyped
<1>4. CASE ReceiveStart
  <2>1. EapOut("identity", out_id, 0) \in OutFrames
    BY NumbersAssumption DEF Typed, NasTyped, EapOut, OutFrames
  <2>2. StationsTyped'
    BY <1>1, <1>2, <1>4, <2>1, SendKeeps, ReceiveKeeps
    DEF ReceiveStart, Typed, StationsTyped
  <2>3. NasTyped'
    BY <1>4 DEF ReceiveStart, Typed, NasTyped, Asking
  <2> QED
    BY <1>3, <2>2, <2>3 DEF Typed
<1>5. ASSUME NEW kind \in {"logoff", "identity", "md5"}, Receive(kind),
             frame' = Head(queue), UNCHANGED stations,
             pc' = IF kind = "logoff" THEN "account_stop" ELSE kind,
             tries' = Tries, response' = NoResponse,
             tmpUserName' \in {tmpUserName, Head(queue).from},
             kind = "identity" => tmpUserName' = Head(queue).from
      PROVE  Typed'
  <2>1. /\ queue' \in Seq(InFrames) /\ Head(queue) \in InFrames
        /\ Head(queue).kind = kind
    BY <1>1, <1>5, ReceiveKeeps
  <2>2. Head(queue).from \in Stations
    BY <2>1 DEF InFrames
  <2>3. StationsTyped'
    BY <1>5, <2>1 DEF Typed, StationsTyped
  <2>4. NasTyped'
    BY <1>2, <1>5, <2>1, <2>2, NumbersAssumption
    DEF Typed, NasTyped, Asking, Calls, NoResponse
  <2> QED
    BY <1>3, <2>3, <2>4 DEF Typed
<1>6. CASE ReceiveLogoff
  BY <1>5, <1>6 DEF ReceiveLogoff, Call
<1>7. CASE ReceiveIdentity
  BY <1>5, <1>7 DEF ReceiveIdentity, Call
<1>8. CASE ReceiveMD5
  BY <1>5, <1>8 DEF ReceiveMD5, Call
<1> QED
  BY <1>4, <1>6, <1>7, <1>8

\* ... and has done with it.
LEMMA TypedReturn ==
    ASSUME Typed,
           IdentityReturned \/ MD5Accepted \/ MD5Rejected \/ AccountReturned
    PROVE  Typed'
<1>1. inbox \in [Stations -> Seq(OutFrames)]
  BY DEF Typed, StationsTyped
<1>2. UNCHANGED <<queue, server, last_request, answer, issuedTo, used,
                  tmpUserName>>
  BY DEF IdentityReturned, MD5Accepted, MD5Rejected, AccountReturned
<1>3. ServerTyped'
  BY <1>2 DEF Typed, ServerTyped
<1>4. inbox' \in [Stations -> Seq(OutFrames)]
  <2>1. \A k \in {"success", "failure"} : EapOut(k, out_id, 0) \in OutFrames
    BY NumbersAssumption DEF Typed, NasTyped, EapOut, OutFrames
  <2>2. CASE \/ Send(EapOut("success", out_id, 0))
             \/ Send(EapOut("failure", out_id, 0))
    BY <1>1, <2>1, <2>2, SendKeeps
  <2>3. CASE response.code = "challenge" /\ SendEapRequestMD5
    <3>1. EapOut("md5", response.id, response.chal) \in OutFrames
      BY <2>3 DEF Typed, NasTyped, Asking, EapOut, OutFrames
    <3> QED
      BY <1>1, <2>3, <3>1, SendKeeps DEF SendEapRequestMD5
  <2>4. CASE AccountReturned
    BY <1>1, <2>4 DEF AccountReturned
  <2> QED
    BY <2>2, <2>3, <2>4 DEF IdentityReturned, MD5Accepted, MD5Rejected
<1>5. StationsTyped'
  BY <1>2, <1>4 DEF Typed, StationsTyped
<1>6. RestTyped'
  BY DEF Typed, NasTyped, RestTyped, IdentityReturned, SendEapRequestMD5,
     MD5Accepted, MD5Rejected, AccountReturned, Done
<1>7. NasTyped'
  <2>1. CASE IdentityReturned
    BY <2>1, NumbersAssumption DEF IdentityReturned, SendEapRequestMD5, Done,
       Typed, NasTyped, Asking, Calls, NoResponse
  <2>2. CASE MD5Accepted
    BY <2>2, NumbersAssumption DEF MD5Accepted, Call, Typed, NasTyped, Asking,
       Calls, NoResponse
  <2>3. CASE MD5Rejected \/ AccountReturned
    BY <2>3, NumbersAssumption DEF MD5Rejected, AccountReturned, Done, Typed,
       NasTyped, Asking, Calls, NoResponse
  <2> QED
    BY <2>1, <2>2, <2>3
<1> QED
  BY <1>3, <1>5, <1>6, <1>7 DEF Typed

LEMMA TypedStation ==
    ASSUME Typed, NEW s \in Stations, Station(s)
    PROVE  Typed'
<1>1. UNCHANGED <<nas, server, history>>
  BY DEF Station, StationStarts, StationLogsOff, StationAnswers,
     StationRetransmits, StationResult, Hears
<1>2. NasTyped' /\ ServerTyped' /\ RestTyped'
  BY <1>1 DEF Typed, NasTyped, Asking, ServerTyped, RestTyped
<1> USE DEF Typed, StationsTyped
<1>3. CASE StationStarts(s)
  <2>1. EapolIn(s, "start") \in InFrames
    BY NumbersAssumption DEF EapolIn, InFrames
  <2> QED
    BY <1>2, <1>3, <2>1 DEF StationStarts
<1>4. CASE StationLogsOff(s)
  <2>1. EapolIn(s, "logoff") \in InFrames
    BY NumbersAssumption DEF EapolIn, InFrames
  <2> QED
    BY <1>2, <1>4, <2>1, CaptureKeeps DEF StationLogsOff, Forgets
<1>5. CASE StationAnswers(s)
  <2> DEFINE f == Head(inbox[s])
             a == EapIn(s, f.kind, f.id, f.chal)
  <2>1. f \in OutFrames /\ f.kind \in {"identity", "md5"}
        /\ inbox' \in [Stations -> Seq(OutFrames)]
    BY <1>5, HearKeeps DEF StationAnswers
  <2>2. a \in InFrames /\ f.id \in Nat
    BY <2>1 DEF EapIn, InFrames, OutFrames
  <2>3. queue' \in Seq(InFrames)
    BY <1>5, <2>2, CaptureKeeps DEF StationAnswers
  <2>4. answer' = [answer EXCEPT ![s] = a]
        /\ last_request' = [last_request EXCEPT ![s] = f.id]
    BY <1>5 DEF StationAnswers
  <2> HIDE DEF f, a
  <2> QED
    BY <1>2, <2>1, <2>2, <2>3, <2>4
<1>6. CASE StationRetransmits(s)
  <2>1. inbox' \in [Stations -> Seq(OutFrames)]
        /\ UNCHANGED <<last_request, answer>>
    BY <1>6, HearKeeps DEF StationRetransmits
  <2>2. queue' \in Seq(InFrames)
    BY <1>6, CaptureKeeps DEF StationRetransmits
  <2> QED
    BY <1>2, <2>1, <2>2
<1>7. CASE StationResult(s)
  <2>1. inbox' \in [Stations -> Seq(OutFrames)]
    BY <1>7, HearKeeps DEF StationResult
  <2> QED
    BY <1>2, <1>7, <2>1 DEF StationResult, Forgets
<1> QED
  BY <1>3, <1>4, <1>5, <1>6, <1>7 DEF Station

LEMMA TypedStep == Typed /\ SInv /\ [Next]_vars => Typed'
<1> SUFFICES ASSUME Typed, SInv, [Next]_vars PROVE Typed'
  OBVIOUS
<1>1. CASE UNCHANGED vars
  BY <1>1 DEF vars, Typed, NasTyped, Asking, ServerTyped, StationsTyped,
     RestTyped
<1> QED
  BY <1>1, TypedServe, TypedReceive, TypedReturn, TypedStation DEF Next, NAS

\* The variables keep their types: the NAS asks the server for somebody, with
\* a frame it has received, and tries at most m_numRetries times
\* (SimuNas.cxx:341-411).
THEOREM NasTypes == Spec => []TypeOK
<1>1. Init => SInv /\ Typed
  BY SInvInit, TypedInit
<1>2. SInv /\ Typed /\ [Next]_vars => (SInv /\ Typed)'
  BY SInvStep, TypedStep
<1> QED
  BY <1>1, <1>2, TypedIsTypeOK, PTL DEF Spec

-----------------------------------------------------------------------------
(* Challenges and their identifiers, from the server to the station and    *)
(* back.                                                                   *)

\* The frame or response f carries one of the n challenges issued, with the
\* identifier that the conversations of the list expect.
Carries(f, list, n) ==
    /\ f.chal \in 1 .. n
    /\ \A h \in list : h.chal = f.chal => h.id = f.id

Genuine(f, list, n) == f.kind = "md5" => Carries(f, list, n)

\* Every frame that waits somewhere, and the response the NAS has, is genuine.
Circulating ==
    /\ \A i \in DOMAIN queue : Genuine(queue[i], echolist, issued)
    /\ \A s \in Stations : \A i \in DOMAIN inbox[s] :
          Genuine(inbox[s][i], echolist, issued)
    /\ \A s \in Stations :
          answer[s] # None => Genuine(answer[s], echolist, issued)
    /\ pc \in Calls => Genuine(frame, echolist, issued)
    /\ response.code = "challenge" => Carries(response, echolist, issued)

\* The State the NAS keeps is the one of the challenge it has sent last, and a
\* challenge that nobody has used still has its conversation.
Remembered ==
    /\ tmpState = asked
    /\ asked \in 0 .. issued
    /\ \A c \in 1 .. issued :
          c \in used \/ \E h \in echolist : h.chal = c /\ h.user = issuedTo[c]

NInv == SInv /\ Typed /\ Circulating /\ Remembered /\ FailureHasCause

LEMMA NInvInit == Init => NInv
<1> SUFFICES ASSUME Init PROVE NInv
  OBVIOUS
<1>1. Circulating /\ FailureHasCause
  BY DEF Init, Circulating, FailureHasCause, Calls, NoResponse
<1>2. Remembered
  BY DEF Init, Remembered
<1> QED
  BY <1>1, <1>2, SInvInit, TypedInit DEF NInv

\* What is genuine stays so while conversations go, or begin with a challenge
\* that is not issued yet.
LEMMA StillGenuine ==
    ASSUME NEW l, NEW m, NEW n \in Nat, NEW k \in Nat, n <= k,
           \A h \in m : h \in l \/ ~(h.chal \in 1 .. n)
    PROVE  \A f : /\ Carries(f, l, n) => Carries(f, m, k)
                  /\ Genuine(f, l, n) => Genuine(f, m, k)
  BY DEF Carries, Genuine

\* Steps of the server, which no frame notices.
LEMMA ServerCirculates ==
    ASSUME Circulating, SInv, issued' \in Nat, issued <= issued',
           \A h \in echolist' : h \in echolist \/ ~(h.chal \in 1 .. issued),
           UNCHANGED <<pc, frame, queue, stations>>,
           response' = response \/ response'.code # "challenge"
              \/ Carries(response', echolist', issued')
    PROVE  Circulating'
<1>1. \A f : /\ Carries(f, echolist, issued) => Carries(f, echolist', issued')
             /\ Genuine(f, echolist, issued) => Genuine(f, echolist', issued')
  BY StillGenuine DEF SInv
<1> QED
  BY <1>1 DEF Circulating

\* Steps that leave the server alone and bring no new challenge.
LEMMA FramesCirculate ==
    ASSUME Circulating, UNCHANGED server,
           \A i \in DOMAIN queue' : Genuine(queue'[i], echolist, issued),
           \A s \in Stations : \A i \in DOMAIN inbox'[s] :
              Genuine(inbox'[s][i], echolist, issued),
           \A s \in Stations :
              answer'[s] # None => Genuine(answer'[s], echolist, issued),
           pc' \in Calls => Genuine(frame', echolist, issued),
           response'.code # "challenge" \/ response' = response
    PROVE  Circulating'
  BY DEF Circulating

\* The server: a challenge is issued to the user the NAS names, ...
LEMMA NInvInitiate ==
    ASSUME NInv, SInv', Typed', Serve, pc = "identity", Initiate
    PROVE  NInv'
<1> DEFINE c == issued + 1
<1>p. PICK p \in BOOLEAN :
         echolist' = echolist \cup
            {Conversation(c, MD5Id(frame.id), tmpUserName, p)}
  BY DEF Initiate
<1> DEFINE h == Conversation(c, MD5Id(frame.id), tmpUserName, p)
<1>1. /\ c \in Challenges /\ issued' = c
      /\ echolist' = echolist \cup {h} /\ used' = used
      /\ issuedTo' = [issuedTo EXCEPT ![c] = tmpUserName]
      /\ \/ response' = [code |-> "challenge", id |-> MD5Id(frame.id),
                         chal |-> c]
         \/ response' = Response("reject")
      /\ UNCHANGED <<pc, frame, queue, stations, asked, tmpState>>
  BY <1>p DEF Serve, Initiate, Verdict
<1>2. /\ h.chal = c /\ h.id = MD5Id(frame.id) /\ h.user = tmpUserName
  BY DEF Conversation
<1>3. issued \in Nat /\ c \in Nat /\ issued < c
  BY NumbersAssumption DEF NInv, SInv
<1>4. \A g \in echolist : g.chal \in 1 .. issued
  BY DEF NInv, SInv, ListOK
<1>5. issuedTo \in [Challenges -> Stations \cup {None}]
  BY DEF NInv, Typed, ServerTyped
<1> HIDE DEF c, h
<1>6. response'.code # "challenge" \/ Carries(response', echolist', issued')
  BY <1>1, <1>2, <1>3, <1>4 DEF Carries, Response, NoResponse
<1>7. Circulating'
  BY <1>1, <1>2, <1>3, <1>6, ServerCirculates DEF NInv
<1>8. Remembered'
  <2>1. ASSUME NEW d \in 1 .. c
        PROVE  d \in used \/ \E g \in echolist' : g.chal = d /\ g.user = issuedTo'[d]
    <3>1. CASE d = c
      BY <1>1, <1>2, <1>5, <3>1
    <3>2. CASE d # c
      <4>1. d \in 1 .. issued /\ issuedTo'[d] = issuedTo[d]
        BY <1>1, <1>3, <1>5, <3>2, NumbersAssumption DEF c, Challenges
      <4> QED
        BY <1>1, <4>1 DEF NInv, Remembered
    <3> QED
      BY <3>1, <3>2
  <2>2. asked \in 0 .. c
    BY <1>3 DEF NInv, Remembered
  <2> QED
    BY <1>1, <2>1, <2>2 DEF NInv, Remembered
<1>9. FailureHasCause'
  BY <1>1 DEF FailureHasCause
<1> QED
  BY <1>7, <1>8, <1>9 DEF NInv

\* ... the response to one is judged, ...
LEMMA NInvAuthenticate ==
    ASSUME NInv, SInv', Typed', Serve, pc = "md5", Authenticate
    PROVE  NInv'
<1>1. /\ UNCHANGED <<pc, frame, queue, stations, asked, tmpState, issued, issuedTo>>
      /\ used' = used \cup {tmpState}
      /\ \A g \in echolist' : g \in echolist
      /\ \A g \in echolist : g \in echolist' \/ g.chal = tmpState
      /\ response'.code # "challenge"
  BY DEF Serve, Authenticate, eaplist_isreply, Verdict, Response, NoResponse
<1>2. issued \in Nat
  BY NumbersAssumption DEF NInv, SInv
<1>3. Circulating'
  BY <1>1, <1>2, ServerCirculates DEF NInv
<1>4. Remembered'
  BY <1>1 DEF NInv, Remembered
<1>5. FailureHasCause'
  <2>1. SUFFICES ASSUME response'.code = "reject", frame.chal = asked,
                        issuedTo[asked] = frame.from, cause' = {}
                 PROVE  FALSE
    BY <1>1 DEF FailureHasCause
  <2>2. Carries(frame, echolist, issued)
    BY DEF NInv, Circulating, Genuine, Typed, NasTyped, Asking, Calls
  <2>3. ASSUME NEW r, NEW why, Verdict(r, why)
        PROVE  why = {} /\ response' = r
    BY <2>1, <2>3, Judged
  <2>4. /\ ~Verdict(Response("accept"), {})
        /\ \A why : ~Verdict(Response("reject"), why \cup {"password"})
    BY <2>1, <2>3 DEF Response, NoResponse
  <2>5. CASE tmpState \in used
    BY <2>3, <2>4, <2>5 DEF Authenticate
  <2>6. CASE tmpState \notin used
    <3>1. PICK h \in echolist : h.chal = asked /\ h.user = issuedTo[asked]
      BY <2>1, <2>2, <2>6 DEF Carries, NInv, Remembered
    <3>2. tmpState = asked /\ h.id = frame.id
      BY <2>1, <2>2, <3>1 DEF Carries, NInv, Remembered
    <3>3. \A g \in echolist : g.chal = tmpState => g = h
      BY <3>1, <3>2 DEF NInv, SInv, ListOK
    <3>4. eapmd5_verify(h, frame)
      BY <2>1, <3>1 DEF eapmd5_verify
    <3> QED
      BY <2>4, <2>6, <3>1, <3>2, <3>3, <3>4 DEF Authenticate
  <2> QED
    BY <2>5, <2>6
<1> QED
  BY <1>3, <1>4, <1>5 DEF NInv

\* ... and the rest; the NAS waits.
LEMMA NInvServe ==
    ASSUME NInv, SInv', Typed',
           Serve \/ (\E h \in echolist : Expire(h)) \/ TimeOut
    PROVE  NInv'
<1>1. CASE Serve /\ (RejectName \/ (pc # "md5" /\ Account))
  <2>1. /\ UNCHANGED <<pc, frame, queue, stations, asked, tmpState, issued,
                       issuedTo, echolist, used>>
        /\ response'.code # "challenge" /\ (cause' # {} \/ pc # "md5")
    BY <1>1 DEF Serve, RejectName, Account, Response, NoResponse
  <2>2. Circulating'
    BY <2>1, NumbersAssumption, ServerCirculates DEF NInv, SInv
  <2> QED
    BY <1>1, <2>1, <2>2 DEF NInv, Remembered, FailureHasCause
<1>2. ASSUME NEW h \in echolist, Expire(h)
      PROVE  NInv'
  <2>1. /\ UNCHANGED <<pc, frame, queue, stations, asked, tmpState, issued,
                       issuedTo, cause, response>>
        /\ echolist' = echolist \ {h} /\ used' = used \cup {h.chal}
    BY <1>2 DEF Expire
  <2>2. Circulating'
    BY <2>1, NumbersAssumption, ServerCirculates DEF NInv, SInv
  <2> QED
    BY <1>2, <2>1, <2>2 DEF NInv, Remembered, FailureHasCause
<1>3. CASE TimeOut
  <2>1. /\ UNCHANGED <<pc, frame, queue, stations, asked, tmpState, issued,
                       issuedTo, echolist, used>>
        /\ response'.code \notin {"challenge", "reject"}
    BY <1>3 DEF TimeOut, NoResponse
  <2>2. Circulating'
    BY <2>1, NumbersAssumption, ServerCirculates DEF NInv, SInv
  <2> QED
    BY <2>1, <2>2 DEF NInv, Remembered, FailureHasCause
<1> QED
  BY <1>1, <1>2, <1>3, NInvInitiate, NInvAuthenticate DEF Serve

\* The NAS takes its frames from the queue ...
LEMMA NInvReceive ==
    ASSUME NInv, SInv', Typed',
           ReceiveStart \/ ReceiveLogoff \/ ReceiveIdentity \/ ReceiveMD5
    PROVE  NInv'
<1>1. /\ queue \in Seq(InFrames) /\ inbox \in [Stations -> Seq(OutFrames)]
      /\ out_id \in Nat
  BY DEF NInv, Typed, StationsTyped, NasTyped
<1>2. /\ UNCHANGED <<server, last_request, answer, history, tmpState>>
      /\ \E kind : Receive(kind)
  BY DEF ReceiveStart, ReceiveLogoff, ReceiveIdentity, ReceiveMD5
<1>3. /\ \A i \in DOMAIN queue' : Genuine(queue'[i], echolist, issued)
      /\ Genuine(Head(queue), echolist, issued)
  BY <1>1, <1>2, ReceiveKeeps DEF NInv, Circulating
<1>4. \A s \in Stations : \A i \in DOMAIN inbox'[s] :
         Genuine(inbox'[s][i], echolist, issued)
  <2>1. CASE inbox' = inbox
    BY <2>1 DEF NInv, Circulating
  <2>2. CASE ReceiveStart
    <3>1. /\ EapOut("identity", out_id, 0) \in OutFrames
          /\ EapOut("identity", out_id, 0).kind # "md5"
      BY <1>1, NumbersAssumption DEF EapOut, OutFrames
    <3> QED
      BY <1>1, <2>2, <3>1, SendKeeps DEF ReceiveStart, NInv, Circulating, Genuine
  <2> QED
    BY <2>1, <2>2 DEF ReceiveLogoff, ReceiveIdentity, ReceiveMD5
<1>5. /\ pc' \in Calls => frame' = Head(queue)
      /\ response' = response \/ response'.code = "none"
      /\ pc' = "md5" => response'.code # "reject"
  BY DEF ReceiveStart, ReceiveLogoff, ReceiveIdentity, ReceiveMD5, Receive,
     Call, NoResponse, Calls
<1>6. Circulating'
  BY <1>2, <1>3, <1>4, <1>5, FramesCirculate DEF NInv, Circulating
<1> QED
  BY <1>2, <1>5, <1>6 DEF NInv, Remembered, FailureHasCause

\* ... and sends the challenge of the server on.
LEMMA NInvReturn ==
    ASSUME NInv, SInv', Typed',
           IdentityReturned \/ MD5Accepted \/ MD5Rejected \/ AccountReturned
    PROVE  NInv'
<1>1. /\ inbox \in [Stations -> Seq(OutFrames)] /\ out_id \in Nat
      /\ 0 \in 0 .. MaxChallenges
  BY NumbersAssumption DEF NInv, Typed, StationsTyped, NasTyped
<1>2. UNCHANGED <<queue, server, last_request, answer, issuedTo, used>>
  BY DEF IdentityReturned, MD5Accepted, MD5Rejected, AccountReturned
<1>3. \A s \in Stations : \A i \in DOMAIN inbox'[s] :
         Genuine(inbox'[s][i], echolist, issued)
  <2>1. ASSUME NEW f \in OutFrames, Send(f), Genuine(f, echolist, issued)
        PROVE  \A s \in Stations : \A i \in DOMAIN inbox'[s] :
                  Genuine(inbox'[s][i], echolist, issued)
    BY <1>1, <2>1, SendKeeps DEF NInv, Circulating
  <2>2. ASSUME NEW k \in {"success", "failure"}, Send(EapOut(k, out_id, 0))
        PROVE  \A s \in Stations : \A i \in DOMAIN inbox'[s] :
                  Genuine(inbox'[s][i], echolist, issued)
    <3>1. EapOut(k, out_id, 0) \in OutFrames /\ EapOut(k, out_id, 0).kind # "md5"
      BY <1>1 DEF EapOut, OutFrames
    <3> QED
      BY <2>1, <2>2, <3>1 DEF Genuine
  <2>3. CASE response.code = "challenge" /\ SendEapRequestMD5
    <3> DEFINE f == EapOut("md5", response.id, response.chal)
    <3>1. f \in OutFrames /\ f.id = response.id /\ f.chal = response.chal
      BY <2>3 DEF NInv, Typed, NasTyped, Asking, EapOut, OutFrames
    <3>2. Carries(response, echolist, issued)
      BY <2>3 DEF NInv, Circulating
    <3>3. Genuine(f, echolist, issued)
      BY <3>1, <3>2 DEF Genuine, Carries
    <3>4. Send(f)
      BY <2>3 DEF SendEapRequestMD5
    <3> QED
      BY <2>1, <3>1, <3>3, <3>4
  <2>4. CASE AccountReturned
    BY <2>4 DEF AccountReturned, NInv, Circulating
  <2> QED
    BY <2>2, <2>3, <2>4 DEF IdentityReturned, MD5Accepted, MD5Rejected
<1>4. /\ pc' \in Calls => pc' = "account_start" /\ pc = "md5" /\ frame' = frame
      /\ response'.code = "none"
  BY DEF IdentityReturned, MD5Accepted, MD5Rejected, AccountReturned, Done,
     Call, NoResponse, Calls
<1>5. Circulating'
  <2>1. pc = "md5" => pc \in Calls
    BY DEF Calls
  <2> QED
    BY <1>2, <1>3, <1>4, <2>1, FramesCirculate DEF NInv, Circulating
<1>6. Remembered'
  <2>1. CASE UNCHANGED <<tmpState, asked>>
    BY <1>2, <2>1 DEF NInv, Remembered
  <2>2. CASE response.code = "challenge" /\ SendEapRequestMD5
    <3>1. response.chal \in 1 .. issued
      BY <2>2 DEF NInv, Circulating, Carries
    <3>2. response.chal \in 0 .. issued
      BY <3>1, NumbersAssumption DEF NInv, SInv
    <3> QED
      BY <1>2, <2>2, <3>2 DEF SendEapRequestMD5, NInv, Remembered
  <2> QED
    BY <2>1, <2>2
    DEF IdentityReturned, MD5Accepted, MD5Rejected, AccountReturned
<1> QED
  BY <1>4, <1>5, <1>6 DEF NInv, FailureHasCause

\* A station answers with what it was asked, or repeats its answer.
LEMMA NInvStation ==
    ASSUME NInv, SInv', Typed', NEW s \in Stations, Station(s)
    PROVE  NInv'
<1>1. UNCHANGED <<nas, server, history>>
  BY DEF Station, StationStarts, StationLogsOff, StationAnswers,
     StationRetransmits, StationResult, Hears
<1>2. /\ queue \in Seq(InFrames) /\ inbox \in [Stations -> Seq(OutFrames)]
      /\ answer \in [Stations -> InFrames \cup {None}]
  BY DEF NInv, Typed, StationsTyped
<1>3. Remembered' /\ FailureHasCause'
  BY <1>1 DEF NInv, Remembered, FailureHasCause
<1>4. \A t \in Stations : \A i \in DOMAIN inbox'[t] :
         Genuine(inbox'[t][i], echolist, issued)
  <2>1. CASE inbox' = inbox
    BY <2>1 DEF NInv, Circulating
  <2>2. CASE Hears(s)
    BY <1>2, <2>2, HearKeeps DEF NInv, Circulating
  <2> QED
    BY <2>1, <2>2 DEF Station, StationStarts, StationLogsOff, StationAnswers,
       StationRetransmits, StationResult
<1>5. ASSUME NEW f \in InFrames, Genuine(f, echolist, issued),
             Capture(f) \/ queue' = Append(queue, f) \/ queue' = queue,
             \A t \in Stations :
                answer'[t] \in {answer[t], f, None}
      PROVE  NInv'
  <2>1. \A i \in DOMAIN queue' : Genuine(queue'[i], echolist, issued)
    <3>1. \A i \in DOMAIN queue' :
             queue'[i] = f \/ \E j \in DOMAIN queue : queue'[i] = queue[j]
      <4>1. CASE Capture(f)
        BY <1>2, <4>1, CaptureKeeps
      <4>2. CASE queue' = Append(queue, f)
        BY <1>2, <4>2, AppendElements
      <4>3. CASE queue' = queue
        BY <4>3
      <4> QED
        BY <1>5, <4>1, <4>2, <4>3
    <3> QED
      BY <1>5, <3>1 DEF NInv, Circulating
  <2>2. Circulating'
    BY <1>1, <1>4, <1>5, <2>1, FramesCirculate DEF NInv, Circulating
  <2> QED
    BY <1>3, <2>2 DEF NInv
<1>6. CASE StationStarts(s) \/ StationLogsOff(s)
  <2>1. ASSUME NEW k \in {"start", "logoff"}
        PROVE  /\ EapolIn(s, k) \in InFrames
               /\ Genuine(EapolIn(s, k), echolist, issued)
    BY NumbersAssumption DEF EapolIn, InFrames, Genuine
  <2>2. \A t \in Stations : answer'[t] \in {answer[t], None}
    BY <1>2, <1>6 DEF StationStarts, StationLogsOff, Forgets
  <2> QED
    BY <1>5, <1>6, <2>1, <2>2 DEF StationStarts, StationLogsOff
<1>7. CASE StationAnswers(s)
  <2> DEFINE f == Head(inbox[s])
             a == EapIn(s, f.kind, f.id, f.chal)
  <2>1. /\ f \in OutFrames /\ f.kind \in {"identity", "md5"}
        /\ Genuine(f, echolist, issued)
    BY <1>2, <1>7, HearKeeps DEF StationAnswers, NInv, Circulating
  <2>2. a \in InFrames /\ a.kind = f.kind /\ a.id = f.id /\ a.chal = f.chal
    BY <2>1 DEF EapIn, InFrames, OutFrames
  <2>3. Capture(a) /\ answer' = [answer EXCEPT ![s] = a]
    BY <1>7 DEF StationAnswers
  <2> HIDE DEF f, a
  <2>4. Genuine(a, echolist, issued)
    BY <2>1, <2>2 DEF Genuine, Carries
  <2> QED
    BY <1>2, <1>5, <2>2, <2>3, <2>4
<1>8. CASE StationRetransmits(s) \/ StationResult(s)
  <2>1. CASE answer[s] # None /\ Capture(answer[s]) /\ answer' = answer
    BY <1>2, <1>5, <2>1 DEF NInv, Circulating
  <2>2. CASE queue' = queue /\ answer' \in {answer, [answer EXCEPT ![s] = None]}
    <3>1. \A t \in Stations : answer'[t] \in {answer[t], None}
      BY <1>2, <2>2
    <3>2. Circulating'
      BY <1>1, <1>4, <2>2, <3>1, FramesCirculate DEF NInv, Circulating
    <3> QED
      BY <1>3, <3>2 DEF NInv
  <2> QED
    BY <1>8, <2>1, <2>2 DEF StationRetransmits, StationResult, Forgets
<1> QED
  BY <1>6, <1>7, <1>8 DEF Station

LEMMA NInvStep == NInv /\ [Next]_vars => NInv'
<1> SUFFICES ASSUME NInv, [Next]_vars PROVE NInv'
  OBVIOUS
<1>1. SInv' /\ Typed'
  BY SInvStep, TypedStep DEF NInv
<1>2. CASE UNCHANGED vars
  BY <1>1, <1>2 DEF vars, NInv, Circulating, Remembered, FailureHasCause
<1> QED
  BY <1>1, <1>2, NInvServe, NInvReceive, NInvReturn, NInvStation DEF Next, NAS

\* A station that answers its own challenge in time is turned down only for the
\* User-Name sent along, a password not configured or a challenge used before:
\* whatever the other stations send and the NAS repeats, State, identifier and
\* digest fit (SimuNas.cxx:84-102 and 159-191).
THEOREM RejectsHaveCause == Spec => []FailureHasCause
<1>1. NInv => FailureHasCause
  BY DEF NInv
<1> QED
  BY NInvInit, NInvStep, <1>1, PTL DEF Spec
=============================================================================
