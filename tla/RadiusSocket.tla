---------------------------- MODULE RadiusSocket ----------------------------
(***************************************************************************)
(* The RADIUS client of SimuNAS (src/SimuNAS/radproto.cxx): one            *)
(* RadiusSocket shared by the threads that call RadiusClient::MakeRequest. *)
(* One of the threads with an open request reads the socket for all of     *)
(* them; the others wait on a sync point of their own.  The reader stores  *)
(* each response with the request of its identifier and wakes its thread;  *)
(* when it leaves, it wakes a waiter, which takes the reading over.        *)
(*                                                                         *)
(* Every block under m_readMutex is one action.  Time is not counted: a    *)
(* time-out may happen whenever a thread waits, and an identifier grows    *)
(* older than m_idCacheTimeout in an action of its own.                    *)
(***************************************************************************)
EXTENDS Naturals, FiniteSets

CONSTANTS
    Threads,        \* the threads that use the client
    Accounting,     \* those among them that send accounting requests
    NumIds,         \* size of the identifier space (256 in the code)
    Permanent,      \* m_permanentSyncPoints
    NumServers,     \* length of m_radiusServers
    NumRetries,     \* m_numRetries, for each server
    IdsOutlive,     \* m_idCacheTimeout is longer than a call with its retries
    MaxCalls,       \* bound on the calls and one-way requests begun
    None            \* NULL, P_MAX_INDEX

ASSUME ThreadsAssumption == None \notin Threads /\ Accounting \subseteq Threads
ASSUME IdsAssumption == NumIds \in Nat /\ NumIds > 1 /\ None \notin Nat
ASSUME RetriesAssumption == /\ Permanent \in Nat
                            /\ NumServers \in Nat \ {0}
                            /\ NumRetries \in Nat \ {0}
                            /\ IdsOutlive \in BOOLEAN

VARIABLES
    alive,          \* the socket is in m_activeSockets
    m_oldestId, m_nextId,
    aged,           \* allocated identifiers older than m_idCacheTimeout
    m_pendingRequests,       \* identifier -> thread of the RadiusRequest
    m_readSyncPointIndices,  \* identifier -> sync point
    signalled,      \* sync points that are signalled
    m_isReading, m_nestedCount,
    pc, id, attempt, shouldRead,  \* per thread: where it is in its call
    got,            \* per thread: the PDU just read from the socket
    response,       \* per thread: *m_response, the caller's variable
    wire,           \* requests sent whose response may still arrive
    calls           \* calls begun so far, to bound them

ring == <<alive, m_oldestId, m_nextId, aged>>
table == <<m_pendingRequests, m_readSyncPointIndices, signalled,
           m_isReading, m_nestedCount>>
local == <<pc, id, attempt, shouldRead, got, response>>
net == <<wire, calls>>
vars == <<ring, table, local, net>>

-----------------------------------------------------------------------------
Ids == 0 .. (NumIds - 1)
Points == Ids                   \* as many sync points as identifiers
MaxAttempts == NumServers * NumRetries
Servers == 0 .. (NumServers - 1)

\* The server the k-th transmission of a call goes to (no round robin).
ServerOf(k) == (k - 1) \div NumRetries

\* A request and its response: its identifier, the server, and in place of the
\* authenticator the call it belongs to and the transmission.
PDU == [id : Ids, server : Servers, by : Threads \cup {None},
        try : 0 .. MaxAttempts]

ASSUME NoneAssumption == None \notin PDU

\* Locations of a thread inside RadiusSocket::MakeRequest once its request is
\* registered, and of the client around it.
Registered == {"write", "loop", "handle", "woken", "cleanup"}
Pcs == Registered \cup {"idle", "call", "ret"}

Registrants == {t \in Threads : pc[t] \in Registered}
InCall == {t \in Threads : pc[t] # "idle"}

Goes(t, l) == pc' = [pc EXCEPT ![t] = l]

-----------------------------------------------------------------------------
(* The ring of identifiers.                                                *)

Succ(i) == IF i = NumIds - 1 THEN 0 ELSE i + 1

\* i lies in the half-open arc from a to b.
InArc(a, i, b) == IF a <= b THEN a <= i /\ i < b ELSE a <= i \/ i < b

\* The identifiers that must not be given out again yet.
Taken == {i \in Ids : InArc(m_oldestId, i, m_nextId)}

\* RefreshIdCache: the oldest identifier moves on past the aged ones.
RefreshIdCache(o) ==
    /\ o \in Taken \cup {m_nextId}
    /\ \A i \in Taken : InArc(m_oldestId, i, o) => i \in aged
    /\ o = m_nextId \/ o \notin aged

\* Time passes: the oldest identifier that is still young becomes reusable.
Age(i) ==
    /\ alive
    /\ i \in Taken \ aged
    /\ \A j \in Taken : InArc(m_oldestId, j, i) => j \in aged
    /\ IdsOutlive => \A t \in InCall : id[t] # i
    /\ aged' = aged \cup {i}
    /\ UNCHANGED <<alive, m_oldestId, m_nextId, table, local, net>>

\* Mutant of GenerateNewId: it is not looked at whether the ring is full.
GenerateNewIdFull(o) ==
    /\ RefreshIdCache(o)
    /\ m_oldestId' = o
    /\ m_nextId' = Succ(m_nextId)
    /\ aged' = {i \in aged : ~InArc(m_oldestId, i, o) /\ i # m_nextId}
    /\ UNCHANGED alive

\* GenerateNewId: m_nextId is given out.
GenerateNewId(o) ==
    /\ RefreshIdCache(o)
    /\ Succ(m_nextId) # o
    /\ m_oldestId' = o
    /\ m_nextId' = Succ(m_nextId)
    /\ aged' = {i \in aged : ~InArc(m_oldestId, i, o) /\ i # m_nextId}
    /\ UNCHANGED alive

\* Mutant of CanDestroy: only the requests registered are looked at.
CanDestroyUnregistered(o) == \A i \in Ids : m_pendingRequests[i] = None

\* CanDestroy
CanDestroy(o) == o = m_nextId

-----------------------------------------------------------------------------
(* Sync points.                                                            *)

UsedPoints == {m_readSyncPointIndices[i] : i \in Ids} \ {None}

\* AllocReadSyncPoint: the lowest free index.
AllocReadSyncPoint(p) ==
    /\ p \in Points \ UsedPoints
    /\ \A q \in Points : q < p => q \in UsedPoints

\* FreeReadSyncPoint: a permanent sync point keeps its signal, another is
\* deleted with it.
FreeReadSyncPoint(p) == IF p \in Points /\ p >= Permanent THEN {p} ELSE {}

\* The loop that follows m_isReading = false: it signals the sync point of the
\* first identifier, from the oldest on, that has one.
HandOver(indices) ==
    LET waiting == {i \in Ids : indices[i] # None}
        first == {i \in waiting : \A j \in waiting : ~InArc(m_oldestId, j, i)}
    IN  {indices[i] : i \in first}

\* m_nestedCount--, never below zero.
Decrement == IF m_nestedCount > 0 THEN m_nestedCount - 1 ELSE 0

-----------------------------------------------------------------------------
(* RadiusClient.                                                           *)

\* GetSocket finds an identifier here: the call begins.  Messages of earlier
\* calls of the thread can no longer pass VerifyResponseAuthenticator.
Stale(S, t) == {[m EXCEPT !.by = IF m.by = t THEN None ELSE m.by] : m \in S}

BeginCall(t) ==
    /\ alive
    /\ pc[t] = "idle"
    /\ calls < MaxCalls
    /\ calls' = calls + 1
    /\ \E o \in Ids : GenerateNewId(o)
    /\ id' = [id EXCEPT ![t] = m_nextId]
    /\ attempt' = [attempt EXCEPT ![t] = 1]
    /\ wire' = Stale(wire, t)
    /\ Goes(t, "call")
    /\ UNCHANGED <<table, shouldRead, got, response>>

\* SendRequest: a transmission nobody waits for.
SendRequest(t) ==
    /\ alive
    /\ pc[t] = "idle"
    /\ calls < MaxCalls
    /\ calls' = calls + 1
    /\ \E o \in Ids : GenerateNewId(o)
    /\ wire' = wire \cup
           {[id |-> m_nextId, server |-> 0, by |-> None, try |-> 0]}
    /\ UNCHANGED <<table, local>>

\* GetSocket takes another socket and refreshes this one, ...
RefreshOnly ==
    /\ alive
    /\ \E o \in Ids :
          /\ RefreshIdCache(o)
          /\ m_oldestId' = o
          /\ aged' = {i \in aged : ~InArc(m_oldestId, i, o)}
    /\ UNCHANGED <<alive, m_nextId, table, local, net>>

\* ... or deletes it, when nothing was sent for m_socketDeleteTimeout.
DeleteSocket ==
    /\ alive
    /\ \E o \in Ids : RefreshIdCache(o) /\ CanDestroy(o)
    /\ alive' = FALSE
    /\ m_oldestId' = m_nextId
    /\ aged' = {}
    /\ UNCHANGED <<m_nextId, table, local, net>>

\* GetSocket creates a socket: the constructor starts at a random identifier.
CreateSocket ==
    /\ ~alive
    /\ alive' = TRUE
    /\ \E i \in Ids : m_oldestId' = i /\ m_nextId' = i
    /\ aged' = {}
    /\ m_pendingRequests' = [i \in Ids |-> None]
    /\ m_readSyncPointIndices' = [i \in Ids |-> None]
    /\ signalled' = {}
    /\ m_isReading' = FALSE
    /\ m_nestedCount' = 0
    /\ wire' = {}
    /\ UNCHANGED <<local, calls>>

\* VerifyResponseAuthenticator: an access request has a new random
\* authenticator in every transmission, an accounting request always the same.
VerifyResponseAuthenticator(t) ==
    /\ response[t] # None
    /\ response[t].by = t
    /\ t \in Accounting \/ response[t].try = attempt[t]

\* Back in RadiusClient::MakeRequest: the response is taken, or the request is
\* sent again with the same identifier, or the last attempt has failed.
Accept(t) ==
    /\ pc[t] = "ret"
    /\ VerifyResponseAuthenticator(t)
    /\ Goes(t, "idle")
    /\ response' = [response EXCEPT ![t] = None]
    /\ UNCHANGED <<ring, table, id, attempt, shouldRead, got, net>>

Retry(t) ==
    /\ pc[t] = "ret"
    /\ ~VerifyResponseAuthenticator(t)
    /\ response' = [response EXCEPT ![t] = None]
    /\ \/ /\ attempt[t] < MaxAttempts
          /\ attempt' = [attempt EXCEPT ![t] = @ + 1]
          /\ Goes(t, "call")
       \/ /\ attempt[t] = MaxAttempts
          /\ UNCHANGED attempt
          /\ Goes(t, "idle")
    /\ UNCHANGED <<ring, table, id, shouldRead, got, net>>

-----------------------------------------------------------------------------
(* RadiusSocket::MakeRequest.                                              *)

\* Mutant of RegisterReader: m_isReading is not looked at.
RegisterReaderAnyway(t) ==
    /\ alive /\ pc[t] = "call"
    /\ m_pendingRequests[id[t]] = None
    /\ m_isReading' = TRUE
    /\ shouldRead' = [shouldRead EXCEPT ![t] = TRUE]
    /\ m_pendingRequests' = [m_pendingRequests EXCEPT ![id[t]] = t]
    /\ Goes(t, "write")
    /\ UNCHANGED <<ring, m_readSyncPointIndices, signalled, m_nestedCount,
                   id, attempt, got, response, net>>

\* No reader yet: the caller becomes it.
RegisterReader(t) ==
    /\ alive /\ pc[t] = "call"
    /\ m_pendingRequests[id[t]] = None
    /\ ~m_isReading
    /\ m_isReading' = TRUE
    /\ shouldRead' = [shouldRead EXCEPT ![t] = TRUE]
    /\ m_pendingRequests' = [m_pendingRequests EXCEPT ![id[t]] = t]
    /\ Goes(t, "write")
    /\ UNCHANGED <<ring, m_readSyncPointIndices, signalled, m_nestedCount,
                   id, attempt, got, response, net>>

\* Otherwise it takes a sync point to wait on.
RegisterWaiter(t) ==
    /\ alive /\ pc[t] = "call"
    /\ m_pendingRequests[id[t]] = None
    /\ m_isReading
    /\ \E p \in Points :
          /\ AllocReadSyncPoint(p)
          /\ m_readSyncPointIndices' =
                 [m_readSyncPointIndices EXCEPT ![id[t]] = p]
    /\ m_nestedCount' = m_nestedCount + 1
    /\ m_pendingRequests' = [m_pendingRequests EXCEPT ![id[t]] = t]
    /\ Goes(t, "write")
    /\ UNCHANGED <<ring, signalled, m_isReading,
                   id, attempt, shouldRead, got, response, net>>

\* The mutex is not had in time, the identifier is in use, or no sync point is
\* left: MakeRequest returns false at once.
Refuse(t) ==
    /\ alive /\ pc[t] = "call"
    /\ Goes(t, "ret")
    /\ UNCHANGED <<ring, table, id, attempt, shouldRead, got, response, net>>

\* WriteTo sends the request, or fails.
Write(t) ==
    /\ alive /\ pc[t] = "write"
    /\ \/ /\ wire' = wire \cup
                 {[id |-> id[t], server |-> ServerOf(attempt[t]),
                   by |-> t, try |-> attempt[t]]}
          /\ Goes(t, "loop")
       \/ /\ Goes(t, "cleanup")
          /\ UNCHANGED wire
    /\ UNCHANGED <<ring, table, id, attempt, shouldRead, got, response, calls>>

\* The reader: ReadFrom returns a datagram, ...
Read(t) ==
    /\ alive /\ pc[t] = "loop" /\ shouldRead[t]
    /\ \E m \in wire :
          /\ wire' = wire \ {m}
          /\ got' = [got EXCEPT ![t] = m]
    /\ Goes(t, "handle")
    /\ UNCHANGED <<ring, table, id, attempt, shouldRead, response, calls>>

\* ... or times out or fails.
ReadFails(t) ==
    /\ alive /\ pc[t] = "loop" /\ shouldRead[t]
    /\ Goes(t, "cleanup")
    /\ UNCHANGED <<ring, table, id, attempt, shouldRead, got, response, net>>

\* The open request a PDU answers: same identifier, same server.
Matches(m) ==
    /\ m_pendingRequests[m.id] # None
    /\ ServerOf(attempt[m_pendingRequests[m.id]]) = m.server

\* `continue': once more round the loop while there is time.
Continues(t) == Goes(t, "loop") \/ Goes(t, "cleanup")

\* A PDU that is invalid or unmatched, comes from another address, or arrives
\* while the mutex is not to be had, is dropped.
DropPdu(t) ==
    /\ alive /\ pc[t] = "handle"
    /\ got' = [got EXCEPT ![t] = None]
    /\ Continues(t)
    /\ UNCHANGED <<ring, table, id, attempt, shouldRead, response, net>>

\* The reader's own response: it stops reading, hands over and returns true.
OwnResponse(t) ==
    /\ alive /\ pc[t] = "handle"
    /\ Matches(got[t]) /\ got[t].id = id[t]
    /\ response' = [response EXCEPT ![m_pendingRequests[id[t]]] = got[t]]
    /\ m_pendingRequests' = [m_pendingRequests EXCEPT ![id[t]] = None]
    /\ m_isReading' = FALSE
    /\ signalled' = signalled \cup
           (IF m_nestedCount > 0 THEN HandOver(m_readSyncPointIndices)
                                 ELSE {})
    /\ shouldRead' = [shouldRead EXCEPT ![t] = FALSE]
    /\ got' = [got EXCEPT ![t] = None]
    /\ Goes(t, "ret")
    /\ UNCHANGED <<ring, m_readSyncPointIndices, m_nestedCount, id, attempt,
                   net>>

\* The response of another thread, which is woken; had it no sync point, the
\* reader would break off.
OtherResponse(t) ==
    LET point == m_readSyncPointIndices[got[t].id]
    IN  /\ alive /\ pc[t] = "handle"
        /\ Matches(got[t]) /\ got[t].id # id[t]
        /\ response' =
               [response EXCEPT ![m_pendingRequests[got[t].id]] = got[t]]
        /\ m_pendingRequests' =
               [m_pendingRequests EXCEPT ![got[t].id] = None]
        /\ IF point # None
           THEN signalled' = signalled \cup {point} /\ Continues(t)
           ELSE signalled' = signalled /\ Goes(t, "cleanup")
        /\ got' = [got EXCEPT ![t] = None]
        /\ UNCHANGED <<ring, m_readSyncPointIndices, m_isReading,
                       m_nestedCount, id, attempt, shouldRead, net>>

\* A waiter: its sync point is signalled, ...
Wake(t) ==
    /\ alive /\ pc[t] = "loop" /\ ~shouldRead[t]
    /\ m_readSyncPointIndices[id[t]] \in signalled
    /\ signalled' = signalled \ {m_readSyncPointIndices[id[t]]}
    /\ Goes(t, "woken")
    /\ UNCHANGED <<ring, m_pendingRequests, m_readSyncPointIndices,
                   m_isReading, m_nestedCount, id, attempt, shouldRead, got,
                   response, net>>

\* ... or it waits in vain.
WaitTimesOut(t) ==
    /\ alive /\ pc[t] = "loop" /\ ~shouldRead[t]
    /\ Goes(t, "cleanup")
    /\ UNCHANGED <<ring, table, id, attempt, shouldRead, got, response, net>>

\* Giving back the sync point of the thread's own identifier, and the signals
\* that are left then.
KeptSignals(t) ==
    signalled \ FreeReadSyncPoint(m_readSyncPointIndices[id[t]])

\* Mutant of FreeOwnPoint: the waiter is not counted down.
FreeOwnPointUncounted(t) ==
    /\ m_readSyncPointIndices' =
           [m_readSyncPointIndices EXCEPT ![id[t]] = None]
    /\ UNCHANGED m_nestedCount

FreeOwnPoint(t) ==
    /\ m_readSyncPointIndices' =
           [m_readSyncPointIndices EXCEPT ![id[t]] = None]
    /\ m_nestedCount' = Decrement

\* Woken because the response is there: MakeRequest returns true.
WokenAnswered(t) ==
    /\ alive /\ pc[t] = "woken"
    /\ m_pendingRequests[id[t]] = None
    /\ FreeOwnPoint(t)
    /\ signalled' = KeptSignals(t)
    /\ Goes(t, "ret")
    /\ UNCHANGED <<ring, m_pendingRequests, m_isReading, id, attempt,
                   shouldRead, got, response, net>>

\* Woken because nobody reads any more: the waiter becomes the reader.
TakeOver(t) ==
    /\ alive /\ pc[t] = "woken"
    /\ m_pendingRequests[id[t]] # None
    /\ ~m_isReading
    /\ m_isReading' = TRUE
    /\ shouldRead' = [shouldRead EXCEPT ![t] = TRUE]
    /\ FreeOwnPoint(t)
    /\ signalled' = KeptSignals(t)
    /\ Continues(t)
    /\ UNCHANGED <<ring, m_pendingRequests, id, attempt, got, response, net>>

\* Woken for nothing: another thread reads already.
WokenIdly(t) ==
    /\ alive /\ pc[t] = "woken"
    /\ m_pendingRequests[id[t]] # None
    /\ m_isReading
    /\ Continues(t)
    /\ UNCHANGED <<ring, table, id, attempt, shouldRead, got, response, net>>

\* The end of MakeRequest after a failure: the sync point is given back, if
\* there is one; false is returned whatever has been stored meanwhile.
Leave(t) ==
    /\ alive /\ pc[t] = "cleanup"
    /\ m_pendingRequests' = [m_pendingRequests EXCEPT ![id[t]] = None]
    /\ m_readSyncPointIndices' =
           [m_readSyncPointIndices EXCEPT ![id[t]] = None]
    /\ m_nestedCount' = IF m_readSyncPointIndices[id[t]] # None
                        THEN Decrement ELSE m_nestedCount
    /\ shouldRead' = [shouldRead EXCEPT ![t] = FALSE]
    /\ response' = [response EXCEPT ![t] = None]
    /\ Goes(t, "ret")
    /\ UNCHANGED <<ring, id, attempt, got, net>>

\* A reader that leaves hands over.
CleanupReader(t) ==
    /\ Leave(t)
    /\ m_isReading /\ shouldRead[t]
    /\ m_isReading' = FALSE
    /\ signalled' = KeptSignals(t) \cup
           (IF m_nestedCount' > 0 THEN HandOver(m_readSyncPointIndices')
                                  ELSE {})

CleanupWaiter(t) ==
    /\ Leave(t)
    /\ ~(m_isReading /\ shouldRead[t])
    /\ signalled' = KeptSignals(t)
    /\ UNCHANGED m_isReading

-----------------------------------------------------------------------------
(* The servers and the network: a response is read in any order, or it, or *)
(* its request, is lost.                                                   *)
Lose(m) ==
    /\ wire' = wire \ {m}
    /\ UNCHANGED <<ring, table, local, calls>>

-----------------------------------------------------------------------------
Init ==
    /\ alive = TRUE
    /\ \E i \in Ids : m_oldestId = i /\ m_nextId = i
    /\ aged = {}
    /\ m_pendingRequests = [i \in Ids |-> None]
    /\ m_readSyncPointIndices = [i \in Ids |-> None]
    /\ signalled = {}
    /\ m_isReading = FALSE
    /\ m_nestedCount = 0
    /\ pc = [t \in Threads |-> "idle"]
    /\ id = [t \in Threads |-> 0]
    /\ attempt = [t \in Threads |-> 1]
    /\ shouldRead = [t \in Threads |-> FALSE]
    /\ got = [t \in Threads |-> None]
    /\ response = [t \in Threads |-> None]
    /\ wire = {}
    /\ calls = 0

Client(t) == BeginCall(t) \/ SendRequest(t) \/ Accept(t) \/ Retry(t)

Request(t) ==
    \/ RegisterReader(t) \/ RegisterWaiter(t) \/ Refuse(t) \/ Write(t)
    \/ Read(t) \/ ReadFails(t) \/ DropPdu(t)
    \/ OwnResponse(t) \/ OtherResponse(t)
    \/ Wake(t) \/ WaitTimesOut(t)
    \/ WokenAnswered(t) \/ TakeOver(t) \/ WokenIdly(t)
    \/ CleanupReader(t) \/ CleanupWaiter(t)

Sockets == RefreshOnly \/ DeleteSocket \/ CreateSocket \/ \E i \in Ids : Age(i)

Network == \E m \in wire : Lose(m)

Next == Sockets \/ Network \/ \E t \in Threads : Client(t) \/ Request(t)

Spec == Init /\ [][Next]_vars

-----------------------------------------------------------------------------
TypeOK ==
    /\ alive \in BOOLEAN
    /\ m_oldestId \in Ids /\ m_nextId \in Ids /\ aged \subseteq Ids
    /\ m_pendingRequests \in [Ids -> Threads \cup {None}]
    /\ m_readSyncPointIndices \in [Ids -> Points \cup {None}]
    /\ signalled \subseteq Points
    /\ m_isReading \in BOOLEAN /\ m_nestedCount \in Nat
    /\ pc \in [Threads -> Pcs] /\ id \in [Threads -> Ids]
    /\ attempt \in [Threads -> 1 .. MaxAttempts]
    /\ shouldRead \in [Threads -> BOOLEAN]
    /\ got \in [Threads -> PDU \cup {None}]
    /\ response \in [Threads -> PDU \cup {None}]
    /\ wire \subseteq PDU /\ calls \in Nat

(***************************************************************************)
(* Properties.                                                             *)
(***************************************************************************)

\* GenerateNewId gives "an unique ID" (radproto.h): no two calls in progress
\* share an identifier, through the wrap-around of the ring and the reuse of
\* aged identifiers, as long as these outlive a call.
UniqueIds == \A t, u \in InCall : id[t] = id[u] => t = u

\* CanDestroy says that "the socket is not used by any request any more":
\* GetSocket never deletes the socket under a call in progress, also not
\* between two of its transmissions, when nothing is registered.
SocketInUse == InCall # {} => alive

\* m_isReading and the threads' shouldRead flags agree through every hand-over
\* and failure: at most one thread reads, and somebody does while the flag is
\* set (else nobody would ever read again).
OneReader ==
    /\ \A t, u \in Threads : shouldRead[t] /\ shouldRead[u] => t = u
    /\ m_isReading <=> \E t \in Threads : shouldRead[t]
    /\ \A t \in Threads : shouldRead[t] => t \in Registrants

\* Whoever has a request without reading has a sync point, of its own, and
\* nobody else has: the reader can wake the owner of any response (the
\* fall-through of the newId == id test never happens) and the hand-over loop
\* signals live threads only.
WaitersHavePoints ==
    /\ \A i \in Ids : m_readSyncPointIndices[i] # None
           <=> \E t \in Registrants : id[t] = i /\ ~shouldRead[t]
    /\ \A i, j \in Ids :
           /\ m_readSyncPointIndices[i] = m_readSyncPointIndices[j]
           /\ m_readSyncPointIndices[i] # None
           => i = j

\* m_nestedCount counts the waiters, so that a leaving reader skips the
\* hand-over loop only when nobody waits.
WaitersCounted ==
    m_nestedCount = Cardinality({i \in Ids : m_readSyncPointIndices[i] # None})

\* The table of open requests: an entry belongs to the thread in the call with
\* that identifier and has no response yet; nothing is left behind by a return.
PendingIsOpen ==
    \A i \in Ids : \A t \in Threads :
        m_pendingRequests[i] = t
            <=> t \in Registrants /\ id[t] = i /\ response[t] = None

\* What the threads share under m_readMutex agrees with where each of them is,
\* through every hand-over, time-out and failure (SendRequest).
SharedStateExact ==
    OneReader /\ WaitersHavePoints /\ WaitersCounted /\ PendingIsOpen

\* MakeRequest implements the abstract RadiusRequests: the steps of the
\* threads are its steps or change nothing it speaks of.
Abstract == INSTANCE RadiusRequests WITH
    readers <- {t \in Threads : shouldRead[t]},
    open <- {t \in Registrants : response[t] = None},
    answered <- {t \in Threads : response[t] # None}

ImplementsRequests == Abstract!Spec

\* SetRequestTimeout: "If the timeout elapses and RADIUS server did not
\* respond, then this client switches to the next server".  No request is
\* left waiting, its response on the way, when nobody reads the socket or has
\* been woken to do so: only its time-out would end such a wait, whether or
\* not the server responds.
ResponsesAreRead ==
    \/ m_isReading
    \/ \E t \in Threads : pc[t] = "call"
    \/ \E t \in Registrants :
          \/ pc[t] # "loop"
          \/ m_readSyncPointIndices[id[t]] \in signalled
    \/ \A m \in wire : m.by \notin Registrants
=============================================================================
