----------------------------- MODULE Eapd_proofs ----------------------------
(***************************************************************************)
(* Proofs about Eapd: the molestor process, the frames retransmitted, and  *)
(* that the daemon runs its engine as the engine's specification says, for *)
(* any number of processes, addresses and identifiers and whatever the     *)
(* authenticators send.                                                    *)
(***************************************************************************)
EXTENDS Eapd, TLAPS

USE PidsAssumption

-----------------------------------------------------------------------------
(* The daemon's part of the types; the engine's is not needed here.        *)
DaemonTypes ==
    /\ pc \in Pcs /\ state \in States
    /\ molestor \in Pids \cup {-1}
    /\ children \in [Pids -> {"none", "runs", "killed", "zombie"}]
    /\ copy \in [Pids -> States]
    /\ out \in [type : {"none", "start", "pckt", "logoff"},
                id : Ids \cup {-1}]

\* What the locations say of the state and the molestor.
Located ==
    /\ pc \in {"pae_abort", "do_auth", "send"} => state = "DO_AUTH"
    /\ pc = "abort" => state = "INIT"
    /\ pc = "do_auth" => molestor = -1
    /\ state = "DID_AUTH" => molestor = -1

MolestorInv ==
    DaemonTypes /\ Located /\ OneMolestor /\ MolestorNeverLogsOff

\* What of it a step can change is changed by nothing else.
Quiet == UNCHANGED <<state, procs>>

LEMMA RestartKeeps ==
    ASSUME MolestorInv, state # "DID_AUTH", pc # "exited",
           NEW next \in Pcs \ {"exited"}, RestartMolestor(next)
    PROVE  /\ pc' \in {next, "catch"}
           /\ molestor' \in Pids \cup {-1}
           /\ children' \in [Pids -> {"none", "runs", "killed", "zombie"}]
           /\ copy' \in [Pids -> States]
           /\ out' \in [type : {"none", "start", "pckt", "logoff"},
                        id : Ids \cup {-1}]
           /\ \A p \in Pids : children'[p] = "runs" => p = molestor'
           /\ \A p \in Pids : copy'[p] # "DID_AUTH"
  <1> USE DEF MolestorInv, DaemonTypes, OneMolestor, MolestorNeverLogsOff
  <1>1. CASE UNCHANGED <<procs, out>> /\ pc' = next
    BY <1>1 DEF procs
  <1>2. CASE Fork /\ pc' = next /\ molestor = -1
    BY <1>2 DEF Fork
  <1>3. CASE /\ out' = [out EXCEPT !.type = "start"]
             /\ pc' \in {next, "catch"} /\ UNCHANGED procs
    BY <1>3 DEF procs
  <1>. QED
    BY <1>1, <1>2, <1>3 DEF RestartMolestor, StartMolestor

LEMMA StopKeeps ==
    ASSUME MolestorInv, StopMolestor
    PROVE  /\ molestor' = -1 /\ copy' = copy
           /\ children' \in [Pids -> {"none", "runs", "killed", "zombie"}]
           /\ \A p \in Pids : children'[p] # "runs"
  <1> USE DEF MolestorInv, DaemonTypes, OneMolestor
  <1>1. CASE molestor = -1
    BY <1>1 DEF StopMolestor
  <1>2. CASE molestor # -1
    BY <1>2 DEF StopMolestor, Term
  <1>. QED
    BY <1>1, <1>2

LEMMA MolestorInit == Init => MolestorInv
  BY DEF Init, MolestorInv, DaemonTypes, Located, OneMolestor,
         MolestorNeverLogsOff, Pcs, States

LEMMA MolestorStep ==
    ASSUME MolestorInv, [Next]_vars
    PROVE  MolestorInv'
  <1> USE DEF MolestorInv, DaemonTypes, Located, OneMolestor,
              MolestorNeverLogsOff, Pcs, States
  <1>1. CASE UNCHANGED vars
    BY <1>1 DEF vars, procs, link
  <1>2. ASSUME NEW a \in Paes,
               RejectFrame(a) \/ IgnoreEapol(a) \/ ReceivePacket(a)
        PROVE  MolestorInv'
    BY <1>2 DEF RejectFrame, IgnoreEapol, ReceivePacket, At, procs
  <1>3. CASE SamePae
    BY <1>3 DEF SamePae, At, procs
  <1>4. CASE PaeAbort
    <2>1. state # "DID_AUTH" /\ pc # "exited" /\ RestartMolestor("process")
      BY <1>4 DEF PaeAbort, do_abort, At
    <2>. QED
      BY <1>4, <2>1, RestartKeeps DEF PaeAbort
  <1>5. CASE Process
    <2>1. out' \in [type : {"none", "start", "pckt", "logoff"},
                    id : Ids \cup {-1}]
      <3>1. rc' = "cont" => last_request' \in Ids
        BY <1>5 DEF Process, auth!ProcessSuccess, auth!ProcessFailure,
           auth!ProcessInvalid, auth!Request, auth!ProcessOld,
           auth!ProcessIdentity, auth!ProcessNotification, auth!ProcessNak,
           auth!ProcessMd5, auth!ProcessTls, auth!Answer, auth!InvalidResult,
           auth!LastResult
      <3>. QED
        BY <1>5, <3>1 DEF Process
    <2>2. pc' \in {"catch", "switch"} /\ Quiet /\ pc = "process"
      BY <1>5 DEF Process, At, Quiet
    <2>. QED
      BY <2>1, <2>2 DEF Quiet, procs
  <1>6. CASE Retransmit \/ InitAbort \/ Continue
    BY <1>6 DEF Retransmit, InitAbort, Continue, At, procs, link
  <1>7. CASE BeginAuth \/ AuthGoesOn
    BY <1>7 DEF BeginAuth, AuthGoesOn, At, procs, link
  <1>8. CASE InitOk \/ StopInAuth
    BY <1>8, StopKeeps DEF InitOk, StopInAuth, At, link
  <1>9. CASE InitFail
    <2>1. state # "DID_AUTH" /\ pc # "exited" /\ RestartMolestor("receive")
      BY <1>9 DEF InitFail, At
    <2>. QED
      BY <1>9, <2>1, RestartKeeps DEF InitFail
  <1>10. CASE AuthOk \/ AuthFails \/ Revoked
    BY <1>10 DEF AuthOk, AuthFails, Revoked, At, procs, link
  <1>11. CASE DoAbort
    <2>1. state # "DID_AUTH" /\ pc # "exited" /\ RestartMolestor("receive")
      BY <1>11 DEF DoAbort, do_abort, At
    <2>. QED
      BY <1>11, <2>1, RestartKeeps DEF DoAbort
  <1>12. CASE Send
    BY <1>12 DEF Send, At, procs
  <1>13. CASE Exit
    BY <1>13, StopKeeps DEF Exit, LogOff
  <1>14. CASE terminate
    <2>1. \A p \in Pids : children'[p] # "runs"
      BY <1>14 DEF terminate, Term
    <2>2. children' \in [Pids -> {"none", "runs", "killed", "zombie"}]
      BY <1>14 DEF terminate, Term
    <2>. QED
      BY <1>14, <2>1, <2>2 DEF terminate, LogOff
  <1>15. ASSUME NEW p \in Pids, ChildEnds(p) \/ RipChild(p)
         PROVE  MolestorInv'
    BY <1>15 DEF ChildEnds, RipChild, link
  <1>16. CASE EnterRipper \/ LeaveRipper
    BY <1>16 DEF EnterRipper, LeaveRipper, procs, link
  <1>17. CASE ReceiveFails
    BY <1>17 DEF ReceiveFails, At, procs, link
  <1>. QED
    BY <1>1, <1>2, <1>3, <1>4, <1>5, <1>6, <1>7, <1>8, <1>9, <1>10, <1>11,
       <1>12, <1>13, <1>14, <1>15, <1>16, <1>17
    DEF Next, Receiving, MainLoop, Handler, Gone

LEMMA MolestorInvariance == Spec => []MolestorInv
  BY MolestorInit, MolestorStep, PTL DEF Spec

\* At most one molestor runs, it can be stopped and does not outlive the
\* daemon, stopping it never logs the daemon off, and no start frames are sent
\* in DID_AUTH (802.1x-linux/src/main.cc).
THEOREM MolestorIsUnique == Spec => []MolestorInHand
  <1>1. MolestorInv => NoStartsWhenAuthenticated
    BY DEF MolestorInv, Located, OneMolestor, NoStartsWhenAuthenticated
  <1>2. MolestorInv => MolestorInHand
    BY <1>1 DEF MolestorInv, MolestorInHand
  <1>. QED
    BY <1>2, MolestorInvariance, PTL

-----------------------------------------------------------------------------
(* Retransmission.                                                         *)

\* The answer remembered is the one in the output frame, and nothing is
\* remembered outside an authentication.
Remembers ==
    answered # auth!NoRequest =>
        /\ answered.id = last_request /\ out.id = last_request
        /\ \/ out.type = "pckt"
           \/ pc \in {"switch", "do_auth"} /\ rc = "cont"
           \/ pc \in {"send", "catch", "out", "exited"}
        /\ \/ state = "DO_AUTH"
           \/ pc = "switch" /\ rc = "cont"
           \/ pc \in {"abort", "out", "catch", "exited"}
        /\ ~(pc \in {"switch", "do_auth"} /\ rc = "ok")

RetransmitInv == MolestorInv /\ Remembers

\* What a packet does to the memory of the last answer.
LEMMA EngineStep ==
    ASSUME Process
    PROVE  \/ /\ rc' = "cont" /\ last_request' \in Ids
              /\ answered'.id = last_request'
           \/ /\ rc' \notin {"cont", "ok"}
              /\ UNCHANGED <<last_request, answered>>
           \/ rc' \notin {"cont", "old"} /\ answered' = auth!NoRequest
  BY DEF Process, auth!ProcessSuccess, auth!ProcessFailure,
     auth!ProcessInvalid, auth!Request, auth!ProcessOld,
     auth!ProcessIdentity, auth!ProcessNotification, auth!ProcessNak,
     auth!ProcessMd5, auth!ProcessTls, auth!Answer, auth!InvalidResult,
     auth!LastResult

\* Aborting the engine forgets it.
LEMMA AbortForgets == auth!Abort => answered' = auth!NoRequest
  BY DEF auth!Abort

LEMMA RemembersStep ==
    ASSUME RetransmitInv, [Next]_vars
    PROVE  Remembers'
  <1> USE DEF RetransmitInv, Remembers
  <1>0. /\ out \in [type : {"none", "start", "pckt", "logoff"},
                    id : Ids \cup {-1}]
        /\ pc \in Pcs /\ state \in States
    BY DEF MolestorInv, DaemonTypes
  <1>1. CASE UNCHANGED vars
    BY <1>1 DEF vars, engine, link
  <1>2. ASSUME NEW a \in Paes,
               RejectFrame(a) \/ IgnoreEapol(a) \/ ReceivePacket(a)
        PROVE  Remembers'
    BY <1>2 DEF RejectFrame, IgnoreEapol, ReceivePacket, At, engine
  <1>3. CASE SamePae
    BY <1>3 DEF SamePae, At, engine
  <1>4. CASE PaeAbort \/ DoAbort \/ InitAbort
    BY <1>4, AbortForgets DEF PaeAbort, DoAbort, InitAbort, do_abort
  <1>5. CASE Process
    <2>1. /\ pc = "process" /\ state' = state
          /\ pc' = IF rc' = "raise" THEN "catch" ELSE "switch"
          /\ out' = IF rc' = "cont"
                    THEN [out EXCEPT !.id = last_request'] ELSE out
      BY <1>5 DEF Process, At
    <2>2. CASE /\ rc' = "cont" /\ last_request' \in Ids
               /\ answered'.id = last_request'
      <3>1. out'.id = last_request' /\ pc' = "switch"
        BY <1>0, <2>1, <2>2
      <3>. QED
        BY <2>2, <3>1
    <2>3. CASE /\ rc' \notin {"cont", "ok"}
               /\ UNCHANGED <<last_request, answered>>
      BY <2>1, <2>3
    <2>4. CASE answered' = auth!NoRequest
      BY <2>4
    <2>. QED
      BY <1>5, <2>2, <2>3, <2>4, EngineStep
  <1>6. CASE Retransmit \/ Continue
    BY <1>6 DEF Retransmit, Continue, At, engine, link
  <1>7. CASE BeginAuth \/ AuthGoesOn
    BY <1>7 DEF BeginAuth, AuthGoesOn, At, engine, link, MolestorInv, Located
  <1>8. CASE InitOk \/ StopInAuth
    BY <1>8 DEF InitOk, StopInAuth, At, engine, link
  <1>9. CASE InitFail
    <2>1. answered = auth!NoRequest /\ answered' = answered
      BY <1>9 DEF InitFail, At, engine
    <2>. QED
      BY <2>1
  <1>10. CASE AuthOk
    <2>1. answered = auth!NoRequest /\ answered' = answered
      BY <1>10 DEF AuthOk, At, engine
    <2>. QED
      BY <2>1
  <1>11. CASE AuthFails \/ Revoked
    BY <1>11 DEF AuthFails, Revoked, At, engine, link, MolestorInv, Located
  <1>12. CASE Send
    <2>1. out'.type = "pckt" /\ out'.id = out.id
      BY <1>12, <1>0 DEF Send
    <2>. QED
      BY <1>12, <2>1 DEF Send, At, engine, MolestorInv, Located
  <1>13. CASE Exit \/ terminate
    <2>1. out'.id = out.id
      BY <1>13, <1>0 DEF Exit, terminate, LogOff
    <2>. QED
      BY <1>13, <2>1 DEF Exit, terminate, engine
  <1>14. ASSUME NEW p \in Pids, ChildEnds(p) \/ RipChild(p)
         PROVE  Remembers'
    BY <1>14 DEF ChildEnds, RipChild, engine, link
  <1>15. CASE EnterRipper \/ LeaveRipper
    BY <1>15 DEF EnterRipper, LeaveRipper, engine, link
  <1>16. CASE ReceiveFails
    BY <1>16 DEF ReceiveFails, At, engine, link
  <1>. QED
    BY <1>1, <1>2, <1>3, <1>4, <1>5, <1>6, <1>7, <1>8, <1>9, <1>10, <1>11,
       <1>12, <1>13, <1>14, <1>15, <1>16
    DEF Next, Receiving, MainLoop, Handler, Gone

\* retransmit_last sends the answer to the request that is repeated.
THEOREM RetransmissionIsAnswer == Spec => []RetransmitsAnswer
  <1>1. Init => RetransmitInv
    BY MolestorInit DEF Init, auth!Init, RetransmitInv, Remembers
  <1>2. RetransmitInv /\ [Next]_vars => RetransmitInv'
    BY MolestorStep, RemembersStep DEF RetransmitInv
  <1>3. RetransmitInv => RetransmitsAnswer
    BY DEF RetransmitInv, Remembers, RetransmitsAnswer
  <1>. QED
    BY <1>1, <1>2, <1>3, PTL DEF Spec

-----------------------------------------------------------------------------
(* The daemon and its engine: whatever the main loop, the signals and the  *)
(* addresses do, the engine sees packets and aborts, one at a time, and    *)
(* never after it has raised an exception.                                 *)

\* The engine's theorems, for the engine of the daemon.
eng == INSTANCE EapEngine_proofs

USE EngineAssumption

LEMMA SameTypes == auth!TypeOK <=> eng!TypeOK
  BY DEF auth!TypeOK, eng!TypeOK, auth!TlsRecord, eng!TlsRecord,
     auth!Kinds, eng!Kinds, auth!NoRequest, eng!NoRequest

LEMMA SameTls ==
    /\ auth!TlsBodies = eng!TlsBodies
    /\ \A b : auth!classify_packet(b) = eng!classify_packet(b)
    /\ \A t : auth!TlsAbort(t) = eng!TlsAbort(t)
    /\ \A h : auth!TlsFor(h) = eng!TlsFor(h)
  BY DEF auth!TlsBodies, eng!TlsBodies, auth!classify_packet,
     eng!classify_packet, auth!TlsAbort, eng!TlsAbort, auth!TlsFor,
     eng!TlsFor, auth!Handler, eng!Handler

LEMMA SameOutcomes ==
    ASSUME NEW t, NEW b
    PROVE  auth!TlsOutcomes(t, b) = eng!TlsOutcomes(t, b)
  BY DEF auth!frame_next, eng!frame_next, auth!TlsOutput, eng!TlsOutput,
     auth!Handler, eng!Handler, auth!Outcome, eng!Outcome, auth!TlsResult,
     eng!TlsResult, auth!TlsMessage, eng!TlsMessage, auth!process_msg,
     eng!process_msg, auth!classify_packet, eng!classify_packet,
     auth!Invalid, eng!Invalid, auth!TlsInStart, eng!TlsInStart,
     auth!TlsInRecv, eng!TlsInRecv, auth!TlsInFragRecv, eng!TlsInFragRecv,
     auth!TlsInFragSend, eng!TlsInFragSend, auth!TlsOutcomes,
     eng!TlsOutcomes

LEMMA SameResults ==
    /\ auth!Alive <=> eng!Alive
    /\ \A i : auth!Fresh(i) <=> eng!Fresh(i)
    /\ \A i, k : auth!Answer(i, k) <=> eng!Answer(i, k)
    /\ \A h : auth!InvalidResult(h) <=> eng!InvalidResult(h)
    /\ \A h, r : auth!LastResult(h, r) <=> eng!LastResult(h, r)
  BY DEF auth!Alive, eng!Alive, auth!Fresh, eng!Fresh, auth!Answer,
     eng!Answer, auth!InvalidResult, eng!InvalidResult, auth!LastResult,
     eng!LastResult, auth!Changes, eng!Changes, auth!NoRequest, eng!NoRequest

LEMMA SamePackets ==
    /\ auth!ProcessSuccess <=> eng!ProcessSuccess
    /\ auth!ProcessFailure <=> eng!ProcessFailure
    /\ auth!ProcessInvalid <=> eng!ProcessInvalid
    /\ auth!Abort <=> eng!Abort
  BY SameResults, SameTls
  DEF auth!ProcessSuccess, eng!ProcessSuccess, auth!ProcessFailure,
      eng!ProcessFailure, auth!ProcessInvalid, eng!ProcessInvalid,
      auth!Abort, eng!Abort, auth!NoRequest, eng!NoRequest

LEMMA SameRequests ==
    ASSUME NEW i
    PROVE  auth!Request(i) <=> eng!Request(i)
  <1>1. /\ auth!ProcessOld(i) <=> eng!ProcessOld(i)
        /\ auth!ProcessIdentity(i) <=> eng!ProcessIdentity(i)
        /\ auth!ProcessNotification(i) <=> eng!ProcessNotification(i)
        /\ auth!ProcessNak(i) <=> eng!ProcessNak(i)
    BY SameResults, SameTls
    DEF auth!ProcessOld, eng!ProcessOld, auth!ProcessIdentity,
        eng!ProcessIdentity, auth!ProcessNotification,
        eng!ProcessNotification, auth!ProcessNak, eng!ProcessNak
  <1>2. \A n : auth!ProcessMd5(i, n) <=> eng!ProcessMd5(i, n)
    BY SameResults, SameTls
    DEF auth!ProcessMd5, eng!ProcessMd5, auth!Need, eng!Need
  <1>3. \A b : auth!ProcessTls(i, b) <=> eng!ProcessTls(i, b)
    BY SameResults, SameTls, SameOutcomes
    DEF auth!ProcessTls, eng!ProcessTls
  <1>. QED
    BY <1>1, <1>2, <1>3, SameTls DEF auth!Request, eng!Request

\* A piece of the main loop is at most one call of the engine.
LEMMA EngineCalled ==
    ASSUME [Next]_vars
    PROVE  [eng!Next]_(eng!vars)
  <1>1. CASE UNCHANGED engine
    BY <1>1 DEF engine, eng!vars
  <1>2. CASE Process
    BY <1>2, SamePackets, SameRequests DEF Process, eng!Next
  <1>3. CASE PaeAbort \/ DoAbort \/ InitAbort
    BY <1>3, SamePackets DEF PaeAbort, DoAbort, InitAbort, do_abort, eng!Next
  <1>4. ASSUME NEW a \in Paes,
               RejectFrame(a) \/ IgnoreEapol(a) \/ ReceivePacket(a)
        PROVE  UNCHANGED engine
    BY <1>4 DEF RejectFrame, IgnoreEapol, ReceivePacket
  <1>5. CASE \/ SamePae \/ Retransmit \/ BeginAuth \/ InitOk \/ InitFail
             \/ Continue \/ StopInAuth
    BY <1>1, <1>5 DEF SamePae, Retransmit, BeginAuth, InitOk, InitFail,
       Continue, StopInAuth
  <1>6. CASE \/ AuthOk \/ AuthFails \/ AuthGoesOn \/ Revoked \/ Send
             \/ Exit \/ terminate \/ EnterRipper \/ LeaveRipper
    BY <1>1, <1>6 DEF AuthOk, AuthFails, AuthGoesOn, Revoked, Send, Exit,
       terminate, EnterRipper, LeaveRipper
  <1>7. ASSUME NEW p \in Pids, ChildEnds(p) \/ RipChild(p)
        PROVE  UNCHANGED engine
    BY <1>7 DEF ChildEnds, RipChild
  <1>8. CASE UNCHANGED vars
    BY <1>1, <1>8 DEF vars
  <1>9. CASE ReceiveFails
    BY <1>1, <1>9 DEF ReceiveFails
  <1>. QED
    BY <1>1, <1>2, <1>3, <1>4, <1>5, <1>6, <1>7, <1>8, <1>9
    DEF Next, Receiving, MainLoop, Handler, Gone

\* The daemon implements the engine's specification: its calls of process and
\* abort are a run of the engine, whatever happens between them
\* (802.1x-linux/src/main.cc:556-678).
THEOREM DrivesEngine == Spec => eng!Spec
  <1>1. Init => eng!Init
    BY DEF Init, auth!Init, eng!Init, auth!Handler, eng!Handler,
       auth!NoRequest, eng!NoRequest
  <1>. QED
    BY <1>1, EngineCalled, PTL DEF Spec, eng!Spec

\* What the engine promises holds in the daemon: no message is processed on a
\* freed SSL object, every fragment has data, and a peer out of step is given
\* up after NINVALID_MAX invalid packets (eap.cc:134-149, type_tls.cc:208-213).
THEOREM EngineIsSafe ==
    Spec => [](eng!SslLive /\ eng!FragSendHasData /\ eng!InvalidsBounded)
  BY DrivesEngine, eng!TlsHandlerSafe, eng!FragmentsHaveData,
     eng!OutOfStepEnds, PTL

\* The engine of the daemon, which is built with the check for
\* retransmissions, never processes a request a second time that it has
\* answered last (eap.cc:68-73).
THEOREM RetransmissionsHarmless ==
    ASSUME CheckOld
    PROVE  Spec => eng!RetransmissionHarmless
  BY DrivesEngine, eng!RetransmissionIsHarmless, PTL

\* The types MolestorInv says nothing of: the options, signals and addresses.
OtherTypes ==
    /\ send_eapol_start \in BOOLEAN /\ single_shot \in BOOLEAN
    /\ sigchld \in BOOLEAN /\ ripping \in BOOLEAN
    /\ ether_dst \in Addresses /\ pae_changed \in BOOLEAN
    /\ auth_pae \in Addresses

LEMMA OtherTypesStep == OtherTypes /\ [Next]_vars => OtherTypes'
  <1> SUFFICES ASSUME OtherTypes, [Next]_vars PROVE OtherTypes'
    OBVIOUS
  <1> USE DEF OtherTypes, options, signals, link
  <1>1. CASE UNCHANGED vars
    BY <1>1 DEF vars
  <1>2. ASSUME NEW a \in Paes,
               RejectFrame(a) \/ IgnoreEapol(a) \/ ReceivePacket(a)
        PROVE  OtherTypes'
    BY <1>2 DEF RejectFrame, IgnoreEapol, ReceivePacket, recv_hook, Addresses
  <1>3. CASE SamePae \/ PaeAbort \/ Process \/ Retransmit \/ BeginAuth
             \/ InitOk \/ InitFail \/ InitAbort
    BY <1>3 DEF SamePae, PaeAbort, Process, Retransmit, BeginAuth, InitOk,
       InitFail, InitAbort
  <1>4. CASE Continue \/ StopInAuth \/ AuthOk \/ AuthFails \/ AuthGoesOn
             \/ Revoked \/ DoAbort \/ Send \/ Exit \/ terminate
    BY <1>4 DEF Continue, StopInAuth, AuthOk, AuthFails, AuthGoesOn, Revoked,
       DoAbort, Send, Exit, terminate
  <1>5. ASSUME NEW p \in Pids, ChildEnds(p) \/ RipChild(p)
        PROVE  OtherTypes'
    BY <1>5 DEF ChildEnds, RipChild
  <1>6. CASE EnterRipper \/ LeaveRipper
    BY <1>6 DEF EnterRipper, LeaveRipper
  <1>7. CASE ReceiveFails
    BY <1>7 DEF ReceiveFails
  <1>. QED
    BY <1>1, <1>2, <1>3, <1>4, <1>5, <1>6, <1>7
    DEF Next, Receiving, MainLoop, Handler, Gone

\* The variables of the daemon and of its engine keep their types: the
\* locations of the main loop, the processes and the output frame.
THEOREM Types == Spec => []TypeOK
  <1>1. Init => OtherTypes
    BY DEF Init, OtherTypes, Addresses
  <1>2. Spec => []OtherTypes
    BY <1>1, OtherTypesStep, PTL DEF Spec
  <1>3. Spec => []eng!TypeOK
    BY DrivesEngine, eng!EngineTypes, PTL
  <1>4. OtherTypes /\ MolestorInv /\ eng!TypeOK => TypeOK
    BY SameTypes DEF OtherTypes, MolestorInv, DaemonTypes, TypeOK
  <1>. QED
    BY <1>2, <1>3, <1>4, MolestorInvariance, PTL

=============================================================================
