------------------------ MODULE RadiusSocket_proofs ------------------------
(***************************************************************************)
(* Proofs about RadiusSocket, for any number of threads, identifiers,      *)
(* servers and retries: its types and, when identifiers outlive a call,    *)
(* its safety properties and that it implements RadiusRequests.            *)
(***************************************************************************)
EXTENDS RadiusSocket, FiniteSetTheorems, TLAPS

USE ThreadsAssumption, IdsAssumption, NoneAssumption

-----------------------------------------------------------------------------
(* The locations a thread may be at with each of its local values.         *)

\* A PDU has been read when it is handled; readers do not wait; a response is
\* stored for a thread that waits or has just returned.
Located ==
    \A t \in Threads :
        /\ shouldRead[t] => pc[t] \in Registered
        /\ pc[t] = "handle" => shouldRead[t] /\ got[t] # None
        /\ pc[t] = "woken" => ~shouldRead[t]
        /\ response[t] # None => pc[t] \in Registered \cup {"ret"}
        /\ response[t] # None => ~shouldRead[t]

\* Identifiers of calls in progress are allocated and young.
YoungIds ==
    /\ aged \subseteq Taken
    /\ \A t \in InCall : id[t] \in Taken /\ id[t] \notin aged

RingInv == YoungIds /\ UniqueIds /\ SocketInUse

\* The inductive invariant.
IInv == /\ TypeOK /\ Located /\ RingInv /\ OneReader
        /\ PendingIsOpen /\ WaitersHavePoints /\ WaitersCounted

-----------------------------------------------------------------------------
(* Types.                                                                  *)

\* The server of a transmission is one of the list.
LEMMA ServerInRange ==
    ASSUME NEW k \in 1 .. MaxAttempts
    PROVE  ServerOf(k) \in Servers
  <1> DEFINE q == (k - 1) \div NumRetries
  <1>1. NumRetries \in Nat \ {0} /\ NumServers \in Nat \ {0}
    BY RetriesAssumption
  <1>2. k - 1 \in Nat /\ k - 1 < NumServers * NumRetries
    BY <1>1 DEF MaxAttempts
  <1>3. q \in Nat
    BY <1>1, <1>2
  <1>4. q * NumRetries <= k - 1
    BY <1>1, <1>2
  <1>5. q < NumServers
    BY <1>1, <1>2, <1>3, <1>4
  <1>. QED
    BY <1>1, <1>3, <1>5 DEF ServerOf, Servers

\* Types are kept by every step of a thread's request.
LEMMA TypeRequest ==
    ASSUME TypeOK, Located, NEW t \in Threads, Request(t)
    PROVE  TypeOK'
  <1> USE DEF TypeOK, Goes, Continues, Pcs, Registered
  <1>1. CASE RegisterReader(t)
    BY <1>1 DEF RegisterReader, ring, net
  <1>2. CASE RegisterWaiter(t)
    BY <1>2 DEF RegisterWaiter, ring, net
  <1>3. CASE Refuse(t)
    BY <1>3 DEF Refuse, ring, table, net
  <1>4. CASE Write(t)
    <2>1. [id |-> id[t], server |-> ServerOf(attempt[t]), by |-> t,
           try |-> attempt[t]] \in PDU
      BY ServerInRange DEF PDU
    <2>. QED
      BY <1>4, <2>1 DEF Write, ring, table
  <1>5. CASE Read(t)
    BY <1>5 DEF Read, ring, table
  <1>6. CASE ReadFails(t)
    BY <1>6 DEF ReadFails, ring, table, net
  <1>7. CASE DropPdu(t)
    BY <1>7 DEF DropPdu, ring, table, net
  <1>8. CASE OwnResponse(t)
    <2>1. HandOver(m_readSyncPointIndices) \subseteq Points
      BY DEF HandOver
    <2>2. got[t] \in PDU
      BY <1>8 DEF OwnResponse, Located
    <2>. QED
      BY <1>8, <2>1, <2>2 DEF OwnResponse, ring, net
  <1>9. CASE OtherResponse(t)
    <2>1. got[t] \in PDU /\ got[t].id \in Ids
      BY <1>9 DEF OtherResponse, Located, PDU
    <2>2. m_pendingRequests[got[t].id] \in Threads
      BY <1>9, <2>1 DEF OtherResponse, Matches
    <2>3. signalled' \subseteq Points /\ pc' \in [Threads -> Pcs]
      BY <1>9, <2>1 DEF OtherResponse
    <2>4. response' \in [Threads -> PDU \cup {None}]
      BY <1>9, <2>1, <2>2 DEF OtherResponse
    <2>5. m_pendingRequests' \in [Ids -> Threads \cup {None}]
      BY <1>9, <2>1 DEF OtherResponse
    <2>6. got' \in [Threads -> PDU \cup {None}]
      BY <1>9 DEF OtherResponse
    <2>7. UNCHANGED <<ring, m_readSyncPointIndices, m_isReading,
                      m_nestedCount, id, attempt, shouldRead, net>>
      BY <1>9 DEF OtherResponse
    <2>. QED
      BY <2>3, <2>4, <2>5, <2>6, <2>7 DEF ring, net
  <1>10. CASE Wake(t)
    BY <1>10 DEF Wake, ring, net
  <1>11. CASE WaitTimesOut(t)
    BY <1>11 DEF WaitTimesOut, ring, table, net
  <1>12. CASE WokenAnswered(t)
    BY <1>12 DEF WokenAnswered, KeptSignals, FreeOwnPoint, Decrement, ring, net
  <1>13. CASE TakeOver(t)
    BY <1>13 DEF TakeOver, KeptSignals, FreeOwnPoint, Decrement, ring, net
  <1>14. CASE WokenIdly(t)
    BY <1>14 DEF WokenIdly, ring, table, net
  <1>15. CASE CleanupReader(t)
    <2>1. m_readSyncPointIndices' \in [Ids -> Points \cup {None}]
      BY <1>15 DEF CleanupReader, Leave
    <2>2. HandOver(m_readSyncPointIndices') \subseteq Points
      BY <2>1 DEF HandOver
    <2>3. signalled' \subseteq Points
      BY <1>15, <2>2 DEF CleanupReader, KeptSignals
    <2>4. m_nestedCount' \in Nat /\ m_isReading' = FALSE
      BY <1>15 DEF CleanupReader, Leave, Decrement
    <2>5. /\ m_pendingRequests' \in [Ids -> Threads \cup {None}]
          /\ shouldRead' \in [Threads -> BOOLEAN]
          /\ response' \in [Threads -> PDU \cup {None}]
          /\ pc' \in [Threads -> Pcs]
          /\ UNCHANGED <<ring, id, attempt, got, net>>
      BY <1>15 DEF CleanupReader, Leave
    <2>. QED
      BY <2>1, <2>3, <2>4, <2>5 DEF ring, net
  <1>16. CASE CleanupWaiter(t)
    BY <1>16 DEF CleanupWaiter, Leave, KeptSignals, Decrement, ring, net
  <1>. QED
    BY <1>1, <1>2, <1>3, <1>4, <1>5, <1>6, <1>7, <1>8, <1>9, <1>10, <1>11,
       <1>12, <1>13, <1>14, <1>15, <1>16 DEF Request

\* Types are kept by the client, the sockets and the network.
LEMMA TypeClient ==
    ASSUME TypeOK, NEW t \in Threads, Client(t)
    PROVE  TypeOK'
  <1> USE DEF TypeOK, Goes, Pcs
  <1>1. 0 \in Ids /\ Succ(m_nextId) \in Ids
    BY DEF Succ, Ids
  <1>2. 0 \in Servers /\ 1 \in 1 .. MaxAttempts /\ 0 \in 0 .. MaxAttempts
    <2>1. NumServers \in Nat \ {0} /\ NumRetries \in Nat \ {0}
      BY RetriesAssumption
    <2>2. NumServers * NumRetries \in Nat /\ NumServers * NumRetries >= 1
      BY <2>1
    <2>. QED
      BY <2>1, <2>2 DEF Servers, MaxAttempts
  <1>3. CASE BeginCall(t)
    <2>1. Stale(wire, t) \subseteq PDU
      BY DEF Stale, PDU
    <2>. QED
      BY <1>3, <1>1, <1>2, <2>1
      DEF BeginCall, GenerateNewId, RefreshIdCache, table
  <1>4. CASE SendRequest(t)
    <2>1. [id |-> m_nextId, server |-> 0, by |-> None, try |-> 0] \in PDU
      BY <1>2 DEF PDU
    <2>. QED
      BY <1>4, <1>1, <2>1
      DEF SendRequest, GenerateNewId, RefreshIdCache, table, local
  <1>5. CASE Accept(t)
    BY <1>5 DEF Accept, ring, table, net
  <1>6. CASE Retry(t)
    <2>1. attempt' \in [Threads -> 1 .. MaxAttempts]
      <3>1. MaxAttempts \in Nat
        BY RetriesAssumption DEF MaxAttempts
      <3>. QED
        BY <1>6, <3>1 DEF Retry
    <2>. QED
      BY <1>6, <2>1 DEF Retry, ring, table, net
  <1>. QED
    BY <1>3, <1>4, <1>5, <1>6 DEF Client

LEMMA TypeStep ==
    ASSUME TypeOK, Located, [Next]_vars
    PROVE  TypeOK'
  <1> USE DEF TypeOK
  <1>1. CASE UNCHANGED vars
    BY <1>1 DEF vars, ring, table, local, net
  <1>2. CASE RefreshOnly
    BY <1>2 DEF RefreshOnly, RefreshIdCache, Taken, table, local, net
  <1>3. CASE DeleteSocket
    BY <1>3 DEF DeleteSocket, table, local, net
  <1>4. CASE CreateSocket
    BY <1>4 DEF CreateSocket, local
  <1>5. ASSUME NEW i \in Ids, Age(i)
        PROVE  TypeOK'
    BY <1>5 DEF Age, table, local, net
  <1>6. ASSUME NEW m \in wire, Lose(m)
        PROVE  TypeOK'
    BY <1>6 DEF Lose, ring, table, local
  <1>. QED
    BY <1>1, <1>2, <1>3, <1>4, <1>5, <1>6, TypeRequest, TypeClient
    DEF Next, Sockets, Network

-----------------------------------------------------------------------------
(* The ring of identifiers.                                                *)

\* A refresh passes over aged identifiers only.
LEMMA RefreshKeepsYoung ==
    ASSUME TypeOK, NEW o \in Ids, RefreshIdCache(o),
           NEW i \in Taken, i \notin aged
    PROVE  InArc(o, i, m_nextId)
  <1>1. ~InArc(m_oldestId, i, o)
    BY DEF RefreshIdCache
  <1>2. o = m_nextId \/ InArc(m_oldestId, o, m_nextId)
    BY DEF RefreshIdCache, Taken
  <1>. QED
    BY <1>1, <1>2 DEF InArc, Taken, TypeOK, Ids

\* What it leaves is part of what was taken.
LEMMA RefreshShrinks ==
    ASSUME TypeOK, NEW o \in Ids, RefreshIdCache(o),
           NEW i \in Taken, ~InArc(m_oldestId, i, o)
    PROVE  InArc(o, i, m_nextId)
  BY DEF InArc, Taken, TypeOK, Ids, RefreshIdCache

\* The new identifier is not among the taken ones, which stay taken.
LEMMA NextIsFree == TypeOK => m_nextId \notin Taken
  BY DEF Taken, InArc, TypeOK, Ids

LEMMA ArcGrows ==
    ASSUME TypeOK, NEW o \in Ids, Succ(m_nextId) # o
    PROVE  /\ InArc(o, m_nextId, Succ(m_nextId))
           /\ \A i \in Ids : InArc(o, i, m_nextId)
                                => InArc(o, i, Succ(m_nextId))
  BY DEF InArc, Succ, TypeOK, Ids

\* GenerateNewId keeps the young identifiers taken and young, and adds one.
LEMMA NewIdYoung ==
    ASSUME TypeOK, aged \subseteq Taken, NEW o \in Ids, GenerateNewId(o)
    PROVE  /\ aged' \subseteq Taken'
           /\ m_nextId \in Taken' /\ m_nextId \notin aged'
           /\ \A i \in Taken : i \notin aged => i \in Taken' /\ i \notin aged'
  <1>1. /\ RefreshIdCache(o) /\ Succ(m_nextId) # o
        /\ m_oldestId' = o /\ m_nextId' = Succ(m_nextId)
        /\ aged' = {i \in aged : ~InArc(m_oldestId, i, o) /\ i # m_nextId}
    BY DEF GenerateNewId
  <1>2. Taken' = {i \in Ids : InArc(o, i, Succ(m_nextId))}
    BY <1>1 DEF Taken
  <1>3. m_nextId \in Ids /\ m_nextId \in Taken'
    BY <1>1, <1>2, ArcGrows DEF TypeOK
  <1>4. aged' \subseteq Taken'
    BY <1>1, <1>2, ArcGrows, RefreshShrinks DEF Taken
  <1>5. \A i \in Taken : i \notin aged => i \in Taken'
    BY <1>1, <1>2, ArcGrows, RefreshKeepsYoung DEF Taken
  <1>. QED
    BY <1>1, <1>3, <1>4, <1>5

\* A refresh alone keeps the young identifiers too, ...
LEMMA RefreshYoung ==
    ASSUME TypeOK, aged \subseteq Taken, NEW o \in Ids, RefreshIdCache(o),
           m_oldestId' = o, m_nextId' = m_nextId,
           aged' = {i \in aged : ~InArc(m_oldestId, i, o)}
    PROVE  /\ aged' \subseteq Taken'
           /\ \A i \in Taken : i \notin aged => i \in Taken' /\ i \notin aged'
  <1>1. Taken' = {i \in Ids : InArc(o, i, m_nextId)}
    BY DEF Taken
  <1>. QED
    BY <1>1, RefreshShrinks, RefreshKeepsYoung DEF Taken

\* ... and a socket that can be destroyed has none.
LEMMA DestroyedIsUnused ==
    ASSUME TypeOK, NEW o \in Ids, RefreshIdCache(o), CanDestroy(o)
    PROVE  Taken \subseteq aged
  BY DEF RefreshIdCache, CanDestroy, Taken

\* The ring part of the invariant depends on the ring and on which thread is
\* in a call with which identifier.
LEMMA RingFrame ==
    ASSUME RingInv, UNCHANGED <<ring, id>>, InCall' \subseteq InCall
    PROVE  RingInv'
  BY DEF RingInv, YoungIds, UniqueIds, SocketInUse, Taken, ring, Ids

LEMMA RingStep ==
    ASSUME IdsOutlive, TypeOK, RingInv, [Next]_vars
    PROVE  RingInv'
  <1>1. CASE UNCHANGED vars
    BY <1>1, RingFrame DEF vars, ring, local, InCall
  <1>2. CASE RefreshOnly
    <2>1. PICK o \in Ids : /\ RefreshIdCache(o)
                           /\ m_oldestId' = o
                           /\ aged' = {i \in aged : ~InArc(m_oldestId, i, o)}
      BY <1>2 DEF RefreshOnly
    <2>2. UNCHANGED <<alive, m_nextId, id, pc>>
      BY <1>2 DEF RefreshOnly, local
    <2>. QED
      BY <2>1, <2>2, RefreshYoung
      DEF RingInv, YoungIds, UniqueIds, SocketInUse, InCall
  <1>3. CASE DeleteSocket
    <2>1. Taken \subseteq aged
      BY <1>3, DestroyedIsUnused DEF DeleteSocket
    <2>2. InCall = {}
      BY <2>1 DEF RingInv, YoungIds
    <2>3. InCall' = {} /\ aged' = {}
      BY <1>3, <2>2 DEF DeleteSocket, local, InCall
    <2>. QED
      BY <2>3 DEF RingInv, YoungIds, UniqueIds, SocketInUse
  <1>4. CASE CreateSocket
    <2>1. InCall' = {} /\ aged' = {}
      BY <1>4 DEF CreateSocket, RingInv, SocketInUse, local, InCall
    <2>. QED
      BY <2>1 DEF RingInv, YoungIds, UniqueIds, SocketInUse
  <1>5. ASSUME NEW i \in Ids, Age(i)
        PROVE  RingInv'
    BY <1>5 DEF Age, RingInv, YoungIds, UniqueIds, SocketInUse, InCall,
                Taken, local
  <1>6. ASSUME NEW m \in wire, Lose(m)
        PROVE  RingInv'
    BY <1>6, RingFrame DEF Lose, local, InCall
  <1>7. ASSUME NEW t \in Threads, BeginCall(t)
        PROVE  RingInv'
    <2>1. PICK o \in Ids : GenerateNewId(o)
      BY <1>7 DEF BeginCall
    <2>2. /\ alive' = alive /\ alive
          /\ id' = [id EXCEPT ![t] = m_nextId]
          /\ InCall' = InCall \cup {t} /\ t \notin InCall
      BY <1>7, <2>1 DEF BeginCall, GenerateNewId, InCall, Goes, TypeOK
    <2>3. m_nextId \notin Taken
      BY NextIsFree
    <2>4. /\ id'[t] = m_nextId
          /\ \A u \in InCall : id'[u] = id[u]
      BY <2>2 DEF TypeOK, InCall
    <2>5. YoungIds'
      BY <2>1, <2>2, <2>4, NewIdYoung DEF YoungIds, RingInv
    <2>6. UniqueIds'
      BY <2>2, <2>3, <2>4 DEF UniqueIds, RingInv, YoungIds
    <2>. QED
      BY <2>2, <2>5, <2>6 DEF RingInv, SocketInUse
  <1>8. ASSUME NEW t \in Threads, SendRequest(t)
        PROVE  RingInv'
    <2>1. PICK o \in Ids : GenerateNewId(o)
      BY <1>8 DEF SendRequest
    <2>2. UNCHANGED <<alive, id, InCall>>
      BY <1>8, <2>1 DEF SendRequest, GenerateNewId, InCall, local
    <2>. QED
      BY <2>1, <2>2, NewIdYoung
      DEF RingInv, YoungIds, UniqueIds, SocketInUse
  <1>9. ASSUME NEW t \in Threads, Accept(t) \/ Retry(t)
        PROVE  RingInv'
    BY <1>9, RingFrame DEF Accept, Retry, Goes, InCall, TypeOK
  <1>10. ASSUME NEW t \in Threads, Request(t)
         PROVE  RingInv'
    <2>1. UNCHANGED <<ring, id>> /\ pc[t] # "idle"
          /\ \E l \in Pcs : pc' = [pc EXCEPT ![t] = l]
      BY <1>10 DEF Request, RegisterReader, RegisterWaiter, Refuse, Write,
         Read, ReadFails, DropPdu, OwnResponse, OtherResponse, Wake,
         WaitTimesOut, WokenAnswered, TakeOver, WokenIdly, CleanupReader,
         CleanupWaiter, Leave, Goes, Continues, Pcs, Registered
    <2>. QED
      BY <2>1, RingFrame DEF InCall, TypeOK
  <1>. QED
    BY <1>1, <1>2, <1>3, <1>4, <1>5, <1>6, <1>7, <1>8, <1>9, <1>10
    DEF Next, Sockets, Network, Client

-----------------------------------------------------------------------------
(* Steps outside RadiusSocket::MakeRequest leave the requests alone.       *)

Outside ==
    UNCHANGED vars \/ Sockets \/ Network \/ \E t \in Threads : Client(t)

\* A new socket is as empty as the one that was deleted, for it was not in use.
LEMMA NewSocketIsEmpty ==
    ASSUME IInv, CreateSocket
    PROVE  UNCHANGED <<m_pendingRequests, m_readSyncPointIndices, m_isReading,
                       m_nestedCount>>
  <1> USE DEF IInv
  <1>1. Registrants = {} /\ \A t \in Threads : ~shouldRead[t]
    BY DEF CreateSocket, RingInv, SocketInUse, InCall, Registrants, Registered,
           OneReader
  <1>2. m_pendingRequests' = m_pendingRequests
    <2>1. \A i \in Ids : m_pendingRequests[i] = None
      BY <1>1 DEF PendingIsOpen, TypeOK
    <2>. QED
      BY <2>1 DEF TypeOK, CreateSocket
  <1>3. \A i \in Ids : m_readSyncPointIndices[i] = None
    BY <1>1 DEF WaitersHavePoints
  <1>4. m_readSyncPointIndices' = m_readSyncPointIndices
    BY <1>3 DEF TypeOK, CreateSocket
  <1>5. m_isReading' = m_isReading
    BY <1>1 DEF OneReader, CreateSocket, TypeOK
  <1>6. m_nestedCount' = m_nestedCount
    <2>1. {i \in Ids : m_readSyncPointIndices[i] # None} = {}
      BY <1>3
    <2>. QED
      BY <2>1, FS_EmptySet DEF WaitersCounted, CreateSocket
  <1>. QED
    BY <1>2, <1>4, <1>5, <1>6

\* What the table and its readers see of a step from outside.
KeepsRequests ==
    /\ Registrants' = Registrants
    /\ UNCHANGED <<m_pendingRequests, m_readSyncPointIndices,
                   m_isReading, m_nestedCount, shouldRead, got>>
    /\ \A t \in Registrants : /\ id'[t] = id[t]
                              /\ response'[t] = response[t]
    /\ \A t \in Threads : pc'[t] # pc[t] =>
           /\ pc[t] \notin Registered
           /\ pc'[t] \notin Registered
           /\ response'[t] = None
    /\ \A t \in Threads : response'[t] # None => response[t] # None
    /\ \/ response' = response
       \/ \E t \in Threads \ Registrants :
             response' = [response EXCEPT ![t] = None]

LEMMA OutsideStep ==
    ASSUME IInv, Outside
    PROVE  KeepsRequests
  <1> USE DEF IInv, KeepsRequests
  <1>1. CASE UNCHANGED vars
    BY <1>1 DEF vars, table, local, Registrants
  <1>2. CASE RefreshOnly \/ DeleteSocket
    BY <1>2 DEF RefreshOnly, DeleteSocket, table, local, Registrants
  <1>3. CASE CreateSocket
    BY <1>3, NewSocketIsEmpty DEF CreateSocket, local, Registrants
  <1>4. CASE (\E i \in Ids : Age(i)) \/ (\E m \in wire : Lose(m))
    BY <1>4 DEF Age, Lose, table, local, Registrants
  <1>5. ASSUME NEW t \in Threads, BeginCall(t) \/ SendRequest(t)
        PROVE  KeepsRequests
    BY <1>5 DEF BeginCall, SendRequest, table, local, Registrants, Registered,
                Goes, TypeOK, Located
  <1>6. ASSUME NEW t \in Threads, Accept(t) \/ Retry(t)
        PROVE  KeepsRequests
    BY <1>6 DEF Accept, Retry, table, Registrants, Registered, Goes, TypeOK
  <1>. QED
    BY <1>1, <1>2, <1>3, <1>4, <1>5, <1>6 DEF Outside, Sockets, Network, Client

-----------------------------------------------------------------------------
(* Steps of MakeRequest.                                                   *)

\* The thread whose response a reader stores for it: a waiter with a sync
\* point, another one than the reader.
LEMMA OwnerWaits ==
    ASSUME IInv, NEW t \in Threads, OtherResponse(t)
    PROVE  \E u \in Registrants :
              /\ u = m_pendingRequests[got[t].id] /\ u # t
              /\ id[u] = got[t].id /\ id[u] # id[t]
              /\ ~shouldRead[u] /\ response[u] = None
              /\ m_readSyncPointIndices[got[t].id] # None
  <1> USE DEF IInv
  <1>1. got[t].id \in Ids /\ got[t].id # id[t] /\ shouldRead[t]
    BY DEF OtherResponse, Located, TypeOK, PDU
  <1>2. PICK u \in Threads : u = m_pendingRequests[got[t].id]
    BY <1>1 DEF OtherResponse, Matches, TypeOK
  <1>3. u \in Registrants /\ id[u] = got[t].id /\ response[u] = None
    BY <1>1, <1>2 DEF PendingIsOpen
  <1>4. ~shouldRead[u] /\ u # t
    BY <1>1, <1>3 DEF OneReader
  <1>5. m_readSyncPointIndices[got[t].id] # None
    BY <1>1, <1>3, <1>4 DEF WaitersHavePoints
  <1>. QED
    BY <1>1, <1>2, <1>3, <1>4, <1>5

\* In the thread's own response the owner is the thread itself.
LEMMA OwnerReads ==
    ASSUME IInv, NEW t \in Threads, OwnResponse(t)
    PROVE  m_pendingRequests[id[t]] = t /\ t \in Registrants
  <1> USE DEF IInv
  <1>1. id[t] \in Ids /\ m_pendingRequests[id[t]] \in Threads
    BY DEF OwnResponse, Matches, TypeOK
  <1>2. PICK u \in Threads : u = m_pendingRequests[id[t]]
    BY <1>1
  <1>3. u \in Registrants /\ id[u] = id[t]
    BY <1>1, <1>2 DEF PendingIsOpen
  <1>4. t \in Registrants
    BY DEF OwnResponse, Registrants, Registered
  <1>. QED
    BY <1>2, <1>3, <1>4 DEF RingInv, UniqueIds, InCall, Registrants, Registered

\* An open request has no response.
LEMMA OpenIsUnanswered ==
    ASSUME IInv, NEW t \in Registrants, m_pendingRequests[id[t]] # None
    PROVE  m_pendingRequests[id[t]] = t /\ response[t] = None
  <1> USE DEF IInv
  <1>1. t \in Threads /\ id[t] \in Ids
    BY DEF Registrants, TypeOK
  <1>2. PICK u \in Threads : u = m_pendingRequests[id[t]]
    BY <1>1 DEF TypeOK
  <1>3. u \in Registrants /\ id[u] = id[t] /\ response[u] = None
    BY <1>1, <1>2 DEF PendingIsOpen
  <1>4. u = t
    BY <1>1, <1>3 DEF RingInv, UniqueIds, InCall, Registrants, Registered
  <1>. QED
    BY <1>2, <1>3, <1>4

\* Locations, in every step of a request.
LEMMA LocatedRequest ==
    ASSUME IInv, NEW t \in Threads, Request(t)
    PROVE  Located'
  <1>0. TypeOK /\ Located
    BY DEF IInv
  <1> USE <1>0 DEF TypeOK, Located, Goes, Continues, Registered
  <1>1. CASE RegisterReader(t)
    BY <1>1 DEF RegisterReader
  <1>2. CASE RegisterWaiter(t)
    BY <1>2 DEF RegisterWaiter
  <1>3. CASE Refuse(t)
    BY <1>3 DEF Refuse
  <1>4. CASE Write(t)
    BY <1>4 DEF Write
  <1>5. CASE Read(t)
    BY <1>5 DEF Read
  <1>6. CASE ReadFails(t)
    BY <1>6 DEF ReadFails
  <1>7. CASE DropPdu(t)
    BY <1>7 DEF DropPdu
  <1>8. CASE OwnResponse(t)
    <2>1. /\ response' = [response EXCEPT ![t] = got[t]]
          /\ shouldRead' = [shouldRead EXCEPT ![t] = FALSE]
          /\ got' = [got EXCEPT ![t] = None]
          /\ pc' = [pc EXCEPT ![t] = "ret"]
      BY <1>8, OwnerReads DEF OwnResponse
    <2>. QED
      BY <2>1
  <1>9. CASE OtherResponse(t)
    <2>1. PICK u \in Registrants :
              /\ u = m_pendingRequests[got[t].id] /\ u # t /\ ~shouldRead[u]
              /\ m_readSyncPointIndices[got[t].id] # None
      BY <1>9, OwnerWaits
    <2>2. /\ response' = [response EXCEPT ![u] = got[t]]
          /\ shouldRead' = shouldRead /\ shouldRead[t] /\ pc[t] = "handle"
          /\ got' = [got EXCEPT ![t] = None]
          /\ Continues(t)
      BY <1>9, <2>1 DEF OtherResponse
    <2>3. u \in Threads /\ pc'[u] = pc[u] /\ pc[u] \in Registered
      BY <2>1, <2>2 DEF Registrants
    <2>. QED
      BY <2>1, <2>2, <2>3
  <1>10. CASE Wake(t)
    BY <1>10 DEF Wake
  <1>11. CASE WaitTimesOut(t)
    BY <1>11 DEF WaitTimesOut
  <1>12. CASE WokenAnswered(t)
    BY <1>12 DEF WokenAnswered, FreeOwnPoint
  <1>13. CASE TakeOver(t)
    <2>1. response[t] = None
      BY <1>13, OpenIsUnanswered DEF TakeOver, Registrants
    <2>. QED
      BY <1>13, <2>1 DEF TakeOver
  <1>14. CASE WokenIdly(t)
    BY <1>14 DEF WokenIdly
  <1>15. CASE CleanupReader(t)
    BY <1>15 DEF CleanupReader, Leave
  <1>16. CASE CleanupWaiter(t)
    BY <1>16 DEF CleanupWaiter, Leave
  <1>. QED
    BY <1>1, <1>2, <1>3, <1>4, <1>5, <1>6, <1>7, <1>8, <1>9,
       <1>10, <1>11, <1>12, <1>13, <1>14, <1>15, <1>16 DEF Request


-----------------------------------------------------------------------------
(* What a step does to the requests: nothing, a thread enters or leaves,   *)
(* the reader stores a response, a waiter takes over.                      *)

Stutters ==
    /\ Registrants' = Registrants
    /\ UNCHANGED <<m_pendingRequests, m_readSyncPointIndices, m_isReading,
                   m_nestedCount, shouldRead>>
    /\ \A u \in Registrants : id'[u] = id[u]
    /\ \/ response' = response
       \/ \E u \in Threads \ Registrants :
             response' = [response EXCEPT ![u] = None]

Enters(t) ==
    /\ t \in Threads \ Registrants /\ Registrants' = Registrants \cup {t}
    /\ UNCHANGED <<id, response>> /\ response[t] = None /\ ~shouldRead[t]
    /\ \A u \in Registrants : id[u] # id[t]
    /\ m_pendingRequests' = [m_pendingRequests EXCEPT ![id[t]] = t]
    /\ m_isReading' = TRUE
    /\ \/ /\ ~m_isReading
          /\ shouldRead' = [shouldRead EXCEPT ![t] = TRUE]
          /\ UNCHANGED <<m_readSyncPointIndices, m_nestedCount>>
       \/ /\ m_isReading
          /\ \E p \in Points \ UsedPoints : m_readSyncPointIndices' =
                 [m_readSyncPointIndices EXCEPT ![id[t]] = p]
          /\ m_nestedCount' = m_nestedCount + 1
          /\ UNCHANGED shouldRead

Leaves(t) ==
    /\ t \in Registrants /\ Registrants' = Registrants \ {t}
    /\ UNCHANGED id
    /\ \/ response' = [response EXCEPT ![t] = None]
       \/ response[t] # None /\ ~shouldRead[t] /\ UNCHANGED response
       \/ /\ response[t] = None /\ shouldRead[t]
          /\ \E m \in PDU : response' = [response EXCEPT ![t] = m]
    /\ m_pendingRequests' = [m_pendingRequests EXCEPT ![id[t]] = None]
    /\ m_readSyncPointIndices' =
           [m_readSyncPointIndices EXCEPT ![id[t]] = None]
    /\ m_nestedCount' = IF m_readSyncPointIndices[id[t]] = None
                        THEN m_nestedCount ELSE Decrement
    /\ shouldRead' = [shouldRead EXCEPT ![t] = FALSE]
    /\ m_isReading' = (m_isReading /\ ~shouldRead[t])

Stores(r, t) ==
    /\ r \in Registrants /\ shouldRead[r]
    /\ t \in Registrants /\ ~shouldRead[t] /\ response[t] = None
    /\ Registrants' = Registrants
    /\ UNCHANGED <<m_readSyncPointIndices, m_isReading, m_nestedCount,
                   shouldRead, id>>
    /\ m_pendingRequests' = [m_pendingRequests EXCEPT ![id[t]] = None]
    /\ \E m \in PDU : response' = [response EXCEPT ![t] = m]

TakesOver(t) ==
    /\ t \in Registrants /\ Registrants' = Registrants
    /\ response[t] = None /\ ~shouldRead[t] /\ ~m_isReading
    /\ UNCHANGED <<m_pendingRequests, id, response>>
    /\ m_isReading' = TRUE
    /\ shouldRead' = [shouldRead EXCEPT ![t] = TRUE]
    /\ m_readSyncPointIndices' =
           [m_readSyncPointIndices EXCEPT ![id[t]] = None]
    /\ m_nestedCount' = Decrement

Shaped == \/ Stutters
          \/ \E t \in Threads : Enters(t) \/ Leaves(t) \/ TakesOver(t)
          \/ \E r, t \in Threads : Stores(r, t)

\* Whoever reads has no sync point, whoever waits has one.
LEMMA PointsOf ==
    ASSUME IInv, NEW t \in Registrants
    PROVE  m_readSyncPointIndices[id[t]] = None <=> shouldRead[t]
  <1>1. t \in Threads /\ id[t] \in Ids
    BY DEF IInv, Registrants, TypeOK
  <1>2. \A u \in Registrants : id[u] = id[t] => u = t
    BY DEF IInv, RingInv, UniqueIds, InCall, Registrants, Registered
  <1>. QED
    BY <1>1, <1>2 DEF IInv, WaitersHavePoints

\* Every step of a request has one of these shapes.
LEMMA RequestShape ==
    ASSUME IInv, NEW t \in Threads, Request(t)
    PROVE  Shaped
  <1>0. /\ TypeOK /\ Located
        /\ \A u \in Registrants : u \in Threads
        /\ \A u \in Threads : u \in Registrants <=> pc[u] \in Registered
        /\ \A u \in Threads : u \in Registrants' <=> pc'[u] \in Registered
    BY DEF IInv, Registrants
  <1> USE <1>0 DEF Goes, Continues, Registered
  <1>1. CASE \/ Write(t) \/ Read(t) \/ ReadFails(t) \/ DropPdu(t)
             \/ Wake(t) \/ WaitTimesOut(t) \/ WokenIdly(t) \/ Refuse(t)
    <2>1. /\ UNCHANGED <<m_pendingRequests, m_readSyncPointIndices,
                         m_isReading, m_nestedCount, shouldRead, id,
                         response>>
          /\ \/ pc[t] \in Registered /\ pc' = [pc EXCEPT ![t] = "loop"]
             \/ pc[t] \in Registered /\ pc' = [pc EXCEPT ![t] = "cleanup"]
             \/ pc[t] \in Registered /\ pc' = [pc EXCEPT ![t] = "handle"]
             \/ pc[t] \in Registered /\ pc' = [pc EXCEPT ![t] = "woken"]
             \/ pc[t] = "call" /\ pc' = [pc EXCEPT ![t] = "ret"]
      BY <1>1 DEF Write, Read, ReadFails, DropPdu, Wake, WaitTimesOut,
                  WokenIdly, Refuse, table
    <2>2. Registrants' = Registrants
      BY <2>1 DEF Registrants, TypeOK
    <2>. QED
      BY <2>1, <2>2 DEF Shaped, Stutters
  <1>2. CASE RegisterReader(t) \/ RegisterWaiter(t)
    <2>1. pc[t] = "call" /\ pc' = [pc EXCEPT ![t] = "write"]
      BY <1>2 DEF RegisterReader, RegisterWaiter
    <2>2. t \notin Registrants /\ response[t] = None /\ ~shouldRead[t]
      BY <2>1 DEF Located
    <2>3. Registrants' = Registrants \cup {t}
      BY <2>1 DEF Registrants, TypeOK
    <2>4. \A u \in Registrants : id[u] # id[t]
      BY <2>1, <2>2 DEF IInv, RingInv, UniqueIds, InCall
    <2>5. Enters(t)
      <3>1. CASE RegisterReader(t)
        BY <3>1, <2>2, <2>3, <2>4 DEF RegisterReader, Enters
      <3>2. CASE RegisterWaiter(t)
        BY <3>2, <2>2, <2>3, <2>4 DEF RegisterWaiter, AllocReadSyncPoint, Enters
      <3>. QED
        BY <1>2, <3>1, <3>2
    <2>. QED
      BY <2>5 DEF Shaped
  <1>3. CASE OwnResponse(t) \/ WokenAnswered(t) \/ CleanupReader(t)
             \/ CleanupWaiter(t)
    <2>1. pc[t] \in Registered /\ pc' = [pc EXCEPT ![t] = "ret"]
      BY <1>3 DEF OwnResponse, WokenAnswered, CleanupReader, CleanupWaiter,
                  Leave
    <2>2. t \in Registrants /\ Registrants' = Registrants \ {t}
      BY <2>1 DEF Registrants, TypeOK
    <2>3. id[t] \in Ids
      BY DEF TypeOK
    <2>4. CASE OwnResponse(t)
      <3>1. m_pendingRequests[id[t]] = t /\ shouldRead[t]
        BY <2>4, OwnerReads DEF OwnResponse, Located
      <3>2. m_readSyncPointIndices[id[t]] = None
        BY <3>1, <2>2, PointsOf
      <3>3. m_readSyncPointIndices' =
                [m_readSyncPointIndices EXCEPT ![id[t]] = None]
        BY <3>2, <2>4 DEF OwnResponse, TypeOK
      <3>4. response[t] = None /\ got[t] \in PDU
        BY <3>1, <2>4 DEF OwnResponse, Located, TypeOK
      <3>5. /\ m_pendingRequests' = [m_pendingRequests EXCEPT ![id[t]] = None]
            /\ response' = [response EXCEPT ![t] = got[t]]
            /\ shouldRead' = [shouldRead EXCEPT ![t] = FALSE]
            /\ UNCHANGED <<id, m_nestedCount>> /\ m_isReading' = FALSE
        BY <3>1, <2>4 DEF OwnResponse
      <3>6. \E m \in PDU : response' = [response EXCEPT ![t] = m]
        BY <3>4, <3>5
      <3>7. m_isReading' = (m_isReading /\ ~shouldRead[t])
        BY <3>1, <3>5
      <3>8. Leaves(t)
        BY <3>1, <3>2, <3>3, <3>4, <3>5, <3>6, <3>7, <2>2 DEF Leaves
      <3>. QED
        BY <3>8 DEF Shaped
    <2>5. CASE WokenAnswered(t)
      <3>1. ~shouldRead[t] /\ m_pendingRequests[id[t]] = None
        BY <2>5 DEF WokenAnswered, Located
      <3>2. m_readSyncPointIndices[id[t]] # None
        BY <3>1, <2>2, PointsOf
      <3>3. m_pendingRequests' = [m_pendingRequests EXCEPT ![id[t]] = None]
        BY <3>1, <2>5 DEF WokenAnswered, TypeOK
      <3>4. shouldRead' = [shouldRead EXCEPT ![t] = FALSE]
        BY <3>1, <2>5 DEF WokenAnswered, TypeOK
      <3>5. response[t] # None
        BY <3>1, <2>2, <2>3 DEF IInv, PendingIsOpen, TypeOK
      <3>6. /\ m_readSyncPointIndices' =
                   [m_readSyncPointIndices EXCEPT ![id[t]] = None]
            /\ m_nestedCount' = Decrement
            /\ UNCHANGED <<id, m_isReading, response>>
        BY <2>5 DEF WokenAnswered, FreeOwnPoint
      <3>7. m_isReading' = (m_isReading /\ ~shouldRead[t])
        BY <3>1, <3>6 DEF TypeOK
      <3>8. Leaves(t)
        BY <3>1, <3>2, <3>3, <3>4, <3>5, <3>6, <3>7, <2>2 DEF Leaves
      <3>. QED
        BY <3>8 DEF Shaped
    <2>6. CASE CleanupReader(t) \/ CleanupWaiter(t)
      <3>1. m_isReading' = (m_isReading /\ ~shouldRead[t])
        BY <2>6 DEF CleanupReader, CleanupWaiter, TypeOK
      <3>2. Leave(t)
        BY <2>6 DEF CleanupReader, CleanupWaiter
      <3>3. Leaves(t)
        BY <3>1, <3>2, <2>2 DEF Leave, Leaves, TypeOK
      <3>. QED
        BY <3>3 DEF Shaped
    <2>. QED
      BY <1>3, <2>4, <2>5, <2>6
  <1>4. CASE OtherResponse(t)
    <2>1. PICK u \in Registrants :
              /\ u = m_pendingRequests[got[t].id] /\ id[u] = got[t].id
              /\ ~shouldRead[u] /\ response[u] = None
              /\ m_readSyncPointIndices[got[t].id] # None
      BY <1>4, OwnerWaits
    <2>2. shouldRead[t] /\ got[t] \in PDU /\ t \in Registrants
      BY <1>4 DEF OtherResponse, Located, TypeOK
    <2>3. /\ pc[t] = "handle" /\ (Goes(t, "loop") \/ Goes(t, "cleanup"))
          /\ response' = [response EXCEPT ![u] = got[t]]
          /\ m_pendingRequests' = [m_pendingRequests EXCEPT ![id[u]] = None]
          /\ UNCHANGED <<m_readSyncPointIndices, m_isReading, m_nestedCount,
                         shouldRead, id>>
      BY <1>4, <2>1 DEF OtherResponse
    <2>4. Registrants' = Registrants
      BY <2>3 DEF Registrants, TypeOK
    <2>5. Stores(t, u)
      BY <2>1, <2>2, <2>3, <2>4 DEF Stores
    <2>. QED
      BY <2>1, <2>5 DEF Shaped
  <1>5. CASE TakeOver(t)
    <2>1. t \in Registrants /\ ~shouldRead[t]
      BY <1>5 DEF TakeOver, Located
    <2>2. response[t] = None
      BY <1>5, <2>1, OpenIsUnanswered DEF TakeOver
    <2>3. Registrants' = Registrants
      BY <1>5 DEF TakeOver, Registrants, TypeOK
    <2>4. TakesOver(t)
      BY <1>5, <2>1, <2>2, <2>3 DEF TakeOver, FreeOwnPoint, TakesOver
    <2>. QED
      BY <2>4 DEF Shaped
  <1>. QED
    BY <1>1, <1>2, <1>3, <1>4, <1>5 DEF Request


-----------------------------------------------------------------------------
(* Each shape keeps the invariants of the requests.                        *)

LEMMA OneReaderStep ==
    ASSUME IInv, Shaped
    PROVE  OneReader'
  <1>0. TypeOK /\ OneReader /\ \A t \in Registrants : t \in Threads
    BY DEF IInv, Registrants
  <1> USE <1>0 DEF TypeOK, OneReader
  <1>1. CASE Stutters
    BY <1>1 DEF Stutters
  <1>2. ASSUME NEW t \in Threads, Enters(t)
        PROVE  OneReader'
    BY <1>2 DEF Enters
  <1>3. ASSUME NEW t \in Threads, Leaves(t)
        PROVE  OneReader'
    BY <1>3 DEF Leaves
  <1>4. ASSUME NEW t \in Threads, TakesOver(t)
        PROVE  OneReader'
    BY <1>4 DEF TakesOver
  <1>5. ASSUME NEW r \in Threads, NEW t \in Threads, Stores(r, t)
        PROVE  OneReader'
    BY <1>5 DEF Stores
  <1>. QED
    BY <1>1, <1>2, <1>3, <1>4, <1>5 DEF Shaped

LEMMA PendingStep ==
    ASSUME IInv, Shaped
    PROVE  PendingIsOpen'
  <1>0. /\ TypeOK /\ PendingIsOpen
        /\ \A t \in Registrants : t \in Threads /\ id[t] \in Ids
        /\ \A t, u \in Registrants : id[t] = id[u] => t = u
    BY DEF IInv, Registrants, RingInv, UniqueIds, InCall, Registered, TypeOK
  <1> USE <1>0 DEF TypeOK, PendingIsOpen
  <1>1. CASE Stutters
    BY <1>1 DEF Stutters
  <1>2. ASSUME NEW t \in Threads, Enters(t)
        PROVE  PendingIsOpen'
    BY <1>2 DEF Enters
  <1>3. ASSUME NEW t \in Threads, Leaves(t)
        PROVE  PendingIsOpen'
    BY <1>3 DEF Leaves
  <1>4. ASSUME NEW t \in Threads, TakesOver(t)
        PROVE  PendingIsOpen'
    BY <1>4 DEF TakesOver
  <1>5. ASSUME NEW r \in Threads, NEW t \in Threads, Stores(r, t)
        PROVE  PendingIsOpen'
    BY <1>5 DEF Stores
  <1>. QED
    BY <1>1, <1>2, <1>3, <1>4, <1>5 DEF Shaped

LEMMA PointsStep ==
    ASSUME IInv, Shaped
    PROVE  WaitersHavePoints'
  <1>0. /\ TypeOK /\ WaitersHavePoints
        /\ \A t \in Registrants : t \in Threads /\ id[t] \in Ids
        /\ \A t, u \in Registrants : id[t] = id[u] => t = u
    BY DEF IInv, Registrants, RingInv, UniqueIds, InCall, Registered, TypeOK
  <1>00. None \notin Points
    BY DEF Points, Ids
  <1> USE <1>0, <1>00 DEF TypeOK, WaitersHavePoints
  <1>1. CASE Stutters
    BY <1>1 DEF Stutters
  <1>2. ASSUME NEW t \in Threads, Enters(t)
        PROVE  WaitersHavePoints'
    BY <1>2 DEF Enters, UsedPoints
  <1>3. ASSUME NEW t \in Threads, Leaves(t)
        PROVE  WaitersHavePoints'
    BY <1>3 DEF Leaves
  <1>4. ASSUME NEW t \in Threads, TakesOver(t)
        PROVE  WaitersHavePoints'
    BY <1>4 DEF TakesOver
  <1>5. ASSUME NEW r \in Threads, NEW t \in Threads, Stores(r, t)
        PROVE  WaitersHavePoints'
    BY <1>5 DEF Stores
  <1>. QED
    BY <1>1, <1>2, <1>3, <1>4, <1>5 DEF Shaped

\* The identifiers that have a sync point.
Waiting == {i \in Ids : m_readSyncPointIndices[i] # None}

LEMMA WaitingFinite == IsFiniteSet(Waiting) /\ Cardinality(Waiting) \in Nat
  <1>1. IsFiniteSet(Ids)
    BY FS_Interval DEF Ids
  <1>. QED
    BY <1>1, FS_Subset, FS_CardinalityType DEF Waiting

\* A sync point given back is counted down.
LEMMA CountedDown ==
    ASSUME IInv, NEW i \in Waiting, Waiting' = Waiting \ {i},
           m_nestedCount' = Decrement
    PROVE  WaitersCounted'
  <1>1. m_nestedCount = Cardinality(Waiting)
    BY DEF IInv, WaitersCounted, Waiting
  <1>2. Cardinality(Waiting') = Cardinality(Waiting) - 1
    BY WaitingFinite, FS_RemoveElement
  <1>3. Cardinality(Waiting') \in Nat
    BY WaitingFinite, FS_RemoveElement, FS_CardinalityType
  <1>4. m_nestedCount' = Cardinality(Waiting')
    BY <1>1, <1>2, <1>3, WaitingFinite DEF Decrement
  <1>. QED
    BY <1>4 DEF WaitersCounted, Waiting

LEMMA CountStep ==
    ASSUME IInv, Shaped
    PROVE  WaitersCounted'
  <1>0. /\ TypeOK /\ m_nestedCount = Cardinality(Waiting)
        /\ \A t \in Registrants : t \in Threads /\ id[t] \in Ids
    BY DEF IInv, Registrants, TypeOK, WaitersCounted, Waiting
  <1>1. CASE UNCHANGED <<m_readSyncPointIndices, m_nestedCount>>
    BY <1>0, <1>1 DEF WaitersCounted, Waiting
  <1>2. ASSUME NEW t \in Threads, Enters(t), m_isReading
        PROVE  WaitersCounted'
    <2>1. PICK p \in Points : m_readSyncPointIndices' =
              [m_readSyncPointIndices EXCEPT ![id[t]] = p]
      BY <1>2 DEF Enters
    <2>2. id[t] \in Ids /\ id[t] \notin Waiting
      <3>1. id[t] \in Ids
        BY <1>0 DEF TypeOK
      <3>2. \A u \in Registrants : id[u] # id[t]
        BY <1>2 DEF Enters
      <3>. QED
        BY <3>1, <3>2 DEF IInv, WaitersHavePoints, Waiting
    <2>3. Waiting' = Waiting \cup {id[t]}
      <3>1. p # None
        BY DEF Points, Ids
      <3>. QED
        BY <1>0, <2>1, <2>2, <3>1 DEF TypeOK, Waiting
    <2>4. m_nestedCount' = m_nestedCount + 1
      BY <1>2 DEF Enters
    <2>5. Cardinality(Waiting') = Cardinality(Waiting) + 1
      BY <2>2, <2>3, WaitingFinite, FS_AddElement
    <2>. QED
      BY <1>0, <2>4, <2>5 DEF WaitersCounted, Waiting
  <1>3. ASSUME NEW t \in Threads,
               \/ Leaves(t) /\ m_readSyncPointIndices[id[t]] # None
               \/ TakesOver(t)
        PROVE  WaitersCounted'
    <2>1. t \in Registrants /\ id[t] \in Waiting
      BY <1>0, <1>3, PointsOf DEF Leaves, TakesOver, Waiting
    <2>2. Waiting' = Waiting \ {id[t]} /\ m_nestedCount' = Decrement
      BY <1>0, <1>3 DEF TypeOK, Leaves, TakesOver, Waiting
    <2>. QED
      BY <2>1, <2>2, CountedDown
  <1>4. ASSUME NEW t \in Threads, Leaves(t), m_readSyncPointIndices[id[t]] = None
        PROVE  WaitersCounted'
    <2>1. Waiting' = Waiting /\ m_nestedCount' = m_nestedCount
      BY <1>0, <1>4 DEF TypeOK, Leaves, Waiting
    <2>. QED
      BY <1>0, <2>1 DEF WaitersCounted, Waiting
  <1>. QED
    BY <1>1, <1>2, <1>3, <1>4 DEF Shaped, Stutters, Enters, Stores


-----------------------------------------------------------------------------
(* The invariant.                                                          *)

LEMMA OutsideShape ==
    ASSUME IInv, Outside
    PROVE  Shaped /\ Located'
  <1>1. KeepsRequests
    BY OutsideStep
  <1>2. Stutters
    BY <1>1 DEF KeepsRequests, Stutters
  <1>3. Located'
    BY <1>1 DEF KeepsRequests, Located, IInv, Registered
  <1>. QED
    BY <1>2, <1>3 DEF Shaped

LEMMA InitIInv == Init => IInv
  <1> SUFFICES ASSUME Init PROVE IInv
    OBVIOUS
  <1> USE DEF Init
  <1>1. TypeOK
    <2>1. 0 \in Ids /\ 1 \in 1 .. MaxAttempts
      <3>1. NumServers \in Nat \ {0} /\ NumRetries \in Nat \ {0}
        BY RetriesAssumption
      <3>2. NumServers * NumRetries \in Nat /\ NumServers * NumRetries >= 1
        BY <3>1
      <3>. QED
        BY <3>1, <3>2 DEF MaxAttempts, Ids
    <2>. QED
      BY <2>1 DEF TypeOK, Pcs
  <1>2. InCall = {} /\ Registrants = {}
    BY DEF InCall, Registrants, Registered
  <1>3. Located /\ RingInv /\ OneReader
    BY <1>2 DEF Located, RingInv, YoungIds, UniqueIds, SocketInUse, OneReader
  <1>4. PendingIsOpen /\ WaitersHavePoints
    BY <1>2 DEF PendingIsOpen, WaitersHavePoints
  <1>5. WaitersCounted
    <2>1. {i \in Ids : m_readSyncPointIndices[i] # None} = {}
      OBVIOUS
    <2>. QED
      BY <2>1, FS_EmptySet DEF WaitersCounted
  <1>. QED
    BY <1>1, <1>3, <1>4, <1>5 DEF IInv

LEMMA NextShape ==
    ASSUME IInv, [Next]_vars
    PROVE  Shaped /\ Located'
  <1>1. Outside \/ \E t \in Threads : Request(t)
    BY DEF Next, Outside
  <1>. QED
    BY <1>1, OutsideShape, RequestShape, LocatedRequest

LEMMA StepIInv ==
    ASSUME IdsOutlive, IInv, [Next]_vars
    PROVE  IInv'
  <1>1. TypeOK'
    BY TypeStep DEF IInv
  <1>2. RingInv'
    BY RingStep DEF IInv
  <1>3. Shaped /\ Located'
    BY NextShape
  <1>. QED
    BY <1>1, <1>2, <1>3, OneReaderStep, PendingStep, PointsStep, CountStep
    DEF IInv

LEMMA Invariance == IdsOutlive => (Spec => []IInv)
  <1>. SUFFICES ASSUME IdsOutlive PROVE Spec => []IInv
    OBVIOUS
  <1>1. IInv /\ [Next]_vars => IInv'
    BY StepIInv
  <1>. QED
    BY <1>1, InitIInv, PTL DEF Spec

(***************************************************************************)
(* The theorems.  All are about sockets whose identifiers outlive a call   *)
(* (m_idCacheTimeout against the retries), as the configuration must see   *)
(* to; without it GenerateNewId hands out identifiers that are in use.     *)
(***************************************************************************)

\* The types are kept, and m_nestedCount never goes below zero.
THEOREM Types == IdsOutlive => (Spec => []TypeOK)
  <1>1. IInv => TypeOK
    BY DEF IInv
  <1>. QED
    BY <1>1, Invariance, PTL

\* GenerateNewId: no two calls in progress have the same identifier,
\* for any size of the identifier space.
THEOREM IdsAreUnique == IdsOutlive => (Spec => []UniqueIds)
  <1>1. IInv => UniqueIds
    BY DEF IInv, RingInv
  <1>. QED
    BY <1>1, Invariance, PTL

\* GetSocket never deletes the socket under a call in progress.
THEOREM SocketStays == IdsOutlive => (Spec => []SocketInUse)
  <1>1. IInv => SocketInUse
    BY DEF IInv, RingInv
  <1>. QED
    BY <1>1, Invariance, PTL

\* m_isReading is set exactly while one thread reads, whoever waits has a sync
\* point of its own, m_nestedCount counts them and m_pendingRequests holds
\* exactly the open requests.
THEOREM TableIsExact == IdsOutlive => (Spec => []SharedStateExact)
  <1>1. IInv => SharedStateExact
    BY DEF IInv, SharedStateExact
  <1>. QED
    BY <1>1, Invariance, PTL

-----------------------------------------------------------------------------
(* The refinement of RadiusRequests.                                       *)

LEMMA InitRefines == Init => Abstract!Init
  BY DEF Init, Abstract!Init, Registrants, Registered

absReaders == {t \in Threads : shouldRead[t]}
absOpen == {t \in Registrants : response[t] = None}
absAnswered == {t \in Threads : response[t] # None}

\* A step of each shape is one of the abstract actions, or none.
LEMMA ShapeRefines ==
    ASSUME IInv, Shaped
    PROVE  \/ \E t \in Threads : \/ Abstract!Open(t) \/ Abstract!TakeOver(t)
                                  \/ Abstract!Return(t)
                                  \/ \E r \in Threads : Abstract!Store(r, t)
           \/ UNCHANGED <<absReaders, absOpen, absAnswered>>
  <1>0. /\ TypeOK /\ OneReader
        /\ \A t \in Registrants : t \in Threads
        /\ \A t \in Threads : shouldRead[t] => response[t] = None
    BY DEF IInv, Registrants, Located
  <1> USE <1>0 DEF absReaders, absOpen, absAnswered
  <1>1. CASE Stutters
    <2>1. CASE response' = response
      BY <1>1, <2>1 DEF Stutters
    <2>2. ASSUME NEW t \in Threads \ Registrants,
                 response' = [response EXCEPT ![t] = None]
          PROVE  Abstract!Return(t) \/ UNCHANGED response
      <3>1. CASE response[t] = None
        BY <2>2, <3>1 DEF TypeOK
      <3>2. CASE response[t] # None
        <4>1. ~shouldRead[t]
          BY <2>2 DEF OneReader
        <4>2. absReaders' = absReaders \ {t}
          BY <4>1, <1>1 DEF Stutters
        <4>3. absOpen' = absOpen \ {t}
          BY <1>1, <2>2 DEF Stutters, TypeOK
        <4>4. absAnswered' = absAnswered \ {t} /\ t \in absAnswered
          BY <2>2, <3>2 DEF TypeOK
        <4>. QED
          BY <4>2, <4>3, <4>4 DEF Abstract!Return
      <3>. QED
        BY <3>1, <3>2
    <2>. QED
      BY <1>1, <2>1, <2>2 DEF Stutters
  <1>2. ASSUME NEW t \in Threads, Enters(t)
        PROVE  Abstract!Open(t)
    <2>1. t \notin absOpen \cup absAnswered
      BY <1>2 DEF Enters
    <2>2. absOpen' = absOpen \cup {t} /\ absAnswered' = absAnswered
      BY <1>2 DEF Enters, TypeOK
    <2>3. CASE ~m_isReading
      <3>1. absReaders = {} /\ absReaders' = {t}
        BY <1>2, <2>3 DEF Enters, OneReader, TypeOK
      <3>. QED
        BY <2>1, <2>2, <3>1 DEF Abstract!Open
    <2>4. CASE m_isReading
      <3>1. absReaders # {} /\ absReaders' = absReaders
        BY <1>2, <2>4 DEF Enters, OneReader
      <3>. QED
        BY <2>1, <2>2, <3>1 DEF Abstract!Open
    <2>. QED
      BY <2>3, <2>4
  <1>3. ASSUME NEW t \in Threads, Leaves(t)
        PROVE  \/ Abstract!Return(t) \/ Abstract!Store(t, t)
               \/ UNCHANGED <<absReaders, absOpen, absAnswered>>
    <2>1. absReaders' = absReaders \ {t} /\ t \in Registrants
      BY <1>3 DEF Leaves, TypeOK
    <2>2. CASE response' = [response EXCEPT ![t] = None]
      <3>1. absOpen' = absOpen \ {t} /\ absAnswered' = absAnswered \ {t}
        BY <1>3, <2>2 DEF Leaves, TypeOK
      <3>2. t \in absOpen \cup absAnswered
        BY <2>1
      <3>. QED
        BY <2>1, <3>1, <3>2 DEF Abstract!Return
    <2>3. CASE response[t] # None /\ ~shouldRead[t] /\ UNCHANGED response
      BY <1>3, <2>1, <2>3 DEF Leaves
    <2>4. CASE /\ response[t] = None /\ shouldRead[t]
               /\ \E m \in PDU : response' = [response EXCEPT ![t] = m]
      <3>1. t \in absReaders /\ t \in absOpen
        BY <2>1, <2>4
      <3>2. absOpen' = absOpen \ {t} /\ absAnswered' = absAnswered \cup {t}
        BY <1>3, <2>4 DEF Leaves, TypeOK
      <3>. QED
        BY <2>1, <3>1, <3>2 DEF Abstract!Store
    <2>. QED
      BY <1>3, <2>2, <2>3, <2>4 DEF Leaves
  <1>4. ASSUME NEW t \in Threads, TakesOver(t)
        PROVE  Abstract!TakeOver(t)
    <2>1. t \in absOpen /\ absReaders = {} /\ absReaders' = {t}
      BY <1>4 DEF TakesOver, OneReader, TypeOK
    <2>2. UNCHANGED <<absOpen, absAnswered>>
      BY <1>4 DEF TakesOver
    <2>. QED
      BY <2>1, <2>2 DEF Abstract!TakeOver
  <1>5. ASSUME NEW r \in Threads, NEW t \in Threads, Stores(r, t)
        PROVE  Abstract!Store(r, t)
    <2>1. r \in absReaders /\ t \in absOpen /\ t # r
      BY <1>5 DEF Stores
    <2>2. absOpen' = absOpen \ {t} /\ absAnswered' = absAnswered \cup {t}
      BY <1>5 DEF Stores, TypeOK
    <2>3. absReaders' = absReaders
      BY <1>5 DEF Stores
    <2>. QED
      BY <2>1, <2>2, <2>3 DEF Abstract!Store
  <1>. QED
    BY <1>1, <1>2, <1>3, <1>4, <1>5 DEF Shaped

LEMMA StepRefines ==
    ASSUME IInv, [Next]_vars
    PROVE  [Abstract!Next]_<<absReaders, absOpen, absAnswered>>
  BY NextShape, ShapeRefines DEF Abstract!Next

\* RadiusSocket::MakeRequest does what RadiusRequests promises, whatever the
\* number of threads and identifiers and however responses are lost, delayed
\* and reordered.
THEOREM Refinement == IdsOutlive => (Spec => ImplementsRequests)
  <1>. SUFFICES ASSUME IdsOutlive PROVE Spec => ImplementsRequests
    OBVIOUS
  <1>1. IInv /\ [Next]_vars => [Abstract!Next]_(Abstract!absVars)
    BY StepRefines DEF absReaders, absOpen, absAnswered, Abstract!absVars
  <1>. QED
    BY <1>1, InitRefines, Invariance, PTL
    DEF Spec, ImplementsRequests, Abstract!Spec
=============================================================================
