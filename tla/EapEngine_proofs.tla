-------------------------- MODULE EapEngine_proofs --------------------------
(***************************************************************************)
(* Proofs about EapEngine: the TLS handler never runs on a freed SSL       *)
(* object, never frames a fragment it has no byte for, and an out-of-step  *)
(* peer is given up in time, whatever the authenticator sends.             *)
(***************************************************************************)
EXTENDS EapEngine, TLAPS

\* What the TLS handler maintains: SslLive and FragSendHasData, and that the
\* part of a message received and the part still missing fit together.
TlsOK(t) ==
    /\ t \in TlsRecord
    /\ t.state # "start" => t.ssl = "live"
    /\ t.state = "frag_send" => t.remain > 0
    /\ t.state = "frag_recv" => t.got + t.remain <= MaxMsg

Results == {"cont", "inv", "abort", "raise"}

USE EngineAssumption

LEMMA FrameNext ==
    ASSUME NEW t \in TlsRecord
    PROVE  /\ frame_next(t) \in TlsRecord
           /\ frame_next(t).state = t.state
           /\ frame_next(t).ssl = t.ssl
           /\ frame_next(t).got = t.got
  BY DEF frame_next, TlsRecord

\* The output of SSL_connect is sent whole or leaves a byte for frag_send.
LEMMA OutputOK ==
    ASSUME NEW t \in TlsRecord, t.state = "recv", t.ssl = "live",
           NEW n \in 0 .. MaxMsg
    PROVE  TlsOK(TlsOutput(t, n))
<1> DEFINE u == [t EXCEPT !.remain = n]
           s == frame_next(u)
<1>1. u \in TlsRecord /\ u.state = "recv" /\ u.ssl = "live"
  BY DEF TlsRecord
<1>2. s \in TlsRecord /\ s.state = "recv" /\ s.ssl = "live"
  BY <1>1, FrameNext
<1>3. CASE n = 0
  BY <1>3 DEF TlsOutput, TlsOK
<1>4. CASE n # 0 /\ s.remain = 0
  BY <1>2, <1>4 DEF TlsOutput, TlsOK
<1>5. CASE n # 0 /\ s.remain # 0
  <2>1. TlsOutput(t, n) = [s EXCEPT !.state = "frag_send"]
    BY <1>5 DEF TlsOutput
  <2> QED
    BY <1>2, <1>5, <2>1 DEF TlsOK, TlsRecord
<1> QED
  BY <1>3, <1>4, <1>5

\* Whatever SSL_connect answers, the handler is left in a good state.
LEMMA MessageOK ==
    ASSUME NEW t \in TlsRecord, TlsOK(t), t.ssl = "live",
           NEW o \in TlsMessage(t)
    PROVE  TlsOK(o.tls) /\ o.ret \in Results
<1>1. PICK r \in process_msg(t) : o = TlsResult(t, r)
  BY DEF TlsMessage
<1>2. CASE o = Outcome(t, "raise") \/ o = Outcome(t, "abort")
  BY <1>2 DEF Outcome, Results
<1>3. CASE o = Outcome([t EXCEPT !.state = "start"], "cont")
  BY <1>3 DEF Outcome, Results, TlsOK, TlsRecord
<1> DEFINE failed == IF r.rc = "failed" THEN 1 ELSE t.failed_once
           u      == Handler("recv", t.got, t.remain, failed, t.ssl)
<1>4. CASE o = Outcome(TlsOutput(u, r.out), "cont")
  <2>1. u \in TlsRecord /\ u.state = "recv" /\ u.ssl = "live"
    BY DEF TlsRecord, Handler
  <2>2. r.out \in 0 .. MaxMsg
    BY DEF process_msg
  <2>3. TlsOK(TlsOutput(u, r.out))
    <3> HIDE DEF u
    <3> QED
      BY <2>1, <2>2, OutputOK
  <2> QED
    BY <1>4, <2>3 DEF Outcome, Results
<1> QED
  BY <1>1, <1>2, <1>3, <1>4 DEF TlsResult

LEMMA BodyTypes ==
    ASSUME NEW b \in TlsBodies
    PROVE  /\ b.len \in 0 .. MaxMsg /\ b.total \in 0 .. MaxMsg
           /\ b.flags = "LM" => b.len <= b.total
  BY DEF TlsBodies

\* One packet, in any state of the handler.
LEMMA OutcomesOK ==
    ASSUME TlsOK(tls), NEW b \in TlsBodies, NEW o \in TlsOutcomes(tls, b)
    PROVE  TlsOK(o.tls) /\ o.ret \in Results
<1> USE BodyTypes
<1>1. CASE o \in Invalid(tls)
  BY <1>1 DEF Invalid, Outcome, Results
<1>2. CASE tls.state = "start" /\ o \notin Invalid(tls)
  <2> DEFINE t == Handler("start", 0, 0, 0, "live")
  <2>1. o \in TlsMessage(t)
    BY <1>2 DEF TlsOutcomes, TlsInStart
  <2>2. t \in TlsRecord /\ TlsOK(t) /\ t.ssl = "live"
    BY <1>2 DEF TlsOK, TlsRecord, Handler
  <2> QED
    BY <2>1, <2>2, MessageOK
<1>3. CASE tls.state = "frag_send" /\ o \notin Invalid(tls)
  <2> DEFINE s == frame_next(tls)
  <2>1. s \in TlsRecord /\ s.state = "frag_send" /\ s.ssl = "live"
    BY <1>3, FrameNext DEF TlsOK
  <2>2. o = Outcome(IF s.remain = 0 THEN [s EXCEPT !.state = "recv"] ELSE s,
                    "cont")
    BY <1>3 DEF TlsOutcomes, TlsInFragSend
  <2> QED
    BY <2>1, <2>2 DEF Outcome, Results, TlsOK, TlsRecord
<1>4. CASE tls.state = "frag_recv" /\ o \notin Invalid(tls)
  <2> DEFINE s == Handler("frag_recv", tls.got + b.len, tls.remain - b.len,
                          tls.failed_once, tls.ssl)
  <2>1. b.len <= tls.remain /\ (o = Outcome(s, "cont") \/ o \in TlsMessage(s))
    BY <1>4 DEF TlsOutcomes, TlsInFragRecv, TlsOK, TlsRecord
  <2>2. s \in TlsRecord /\ TlsOK(s) /\ s.ssl = "live"
    BY <1>4, <2>1 DEF TlsOK, TlsRecord, Handler
  <2> QED
    BY <2>1, <2>2, MessageOK DEF Outcome, Results
<1>5. CASE tls.state = "recv" /\ o \notin Invalid(tls)
  <2>1. CASE classify_packet(b) = "data"
    <3> DEFINE t == Handler("recv", b.len, 0, tls.failed_once, tls.ssl)
    <3>1. o \in TlsMessage(t)
      BY <1>5, <2>1 DEF TlsOutcomes, TlsInRecv
    <3>2. t \in TlsRecord /\ TlsOK(t) /\ t.ssl = "live"
      BY <1>5 DEF TlsOK, TlsRecord, Handler
    <3> QED
      BY <3>1, <3>2, MessageOK
  <2>2. CASE classify_packet(b) # "data"
    <3> DEFINE t == Handler("frag_recv", b.len, b.total - b.len,
                            tls.failed_once, tls.ssl)
    <3>1. b.flags = "LM" /\ o = Outcome(t, "cont")
      BY <1>5, <2>2 DEF TlsOutcomes, TlsInRecv
    <3>2. TlsOK(t)
      BY <1>5, <3>1 DEF TlsOK, TlsRecord, Handler
    <3> QED
      BY <3>1, <3>2 DEF Outcome, Results
  <2> QED
    BY <2>1, <2>2
<1> QED
  BY <1>1, <1>2, <1>3, <1>4, <1>5 DEF TlsOK, TlsRecord

LEMMA AbortOK == ASSUME TlsOK(tls) PROVE TlsOK(TlsAbort(tls))
  BY DEF TlsAbort, TlsOK, TlsRecord, Handler

-----------------------------------------------------------------------------
(* Invariants of the engine                                                 *)

\* The history of invalid results never runs ahead of the counter, which
\* success and abort do not reset.
Counted == run \in Nat /\ ninvalid \in 0 .. NINVALID_MAX /\ run <= ninvalid

EInv == TlsOK(tls) /\ Counted

LEMMA EInvInit == Init => EInv
  BY DEF Init, EInv, TlsOK, TlsRecord, Counted, Handler

LEMMA EInvStep == EInv /\ [Next]_vars => EInv'
<1> SUFFICES ASSUME EInv, [Next]_vars PROVE EInv'
  OBVIOUS
<1> USE DEF EInv, Counted
<1>1. CASE ProcessSuccess \/ ProcessFailure \/ ProcessInvalid
  BY <1>1 DEF ProcessSuccess, ProcessFailure, ProcessInvalid
<1>2. ASSUME NEW id \in Ids, ProcessOld(id) \/ ProcessNotification(id)
                             \/ ProcessNak(id)
      PROVE  EInv'
  BY <1>2 DEF ProcessOld, ProcessNotification, ProcessNak, Answer
<1>3. ASSUME NEW id \in Ids, ProcessIdentity(id)
      PROVE  EInv'
  <2>1. tls' \in {tls, TlsAbort(tls)} /\ run' = 0 /\ ninvalid' = 0
    BY <1>3 DEF ProcessIdentity, TlsFor, Answer
  <2> QED
    BY <2>1, AbortOK
<1>4. ASSUME NEW id \in Ids, NEW n \in Challenges, ProcessMd5(id, n)
      PROVE  EInv'
  <2>1. tls' \in {tls, TlsAbort(tls)} /\ run' = 0 /\ ninvalid' = 0
    BY <1>4 DEF ProcessMd5, TlsFor, Answer
  <2> QED
    BY <2>1, AbortOK
<1>5. ASSUME NEW id \in Ids, NEW b \in TlsBodies, ProcessTls(id, b)
      PROVE  EInv'
  <2>1. PICK o \in TlsOutcomes(tls, b) :
          /\ tls' = o.tls
          /\ \/ o.ret = "cont" /\ Answer(id, classify_packet(b))
             \/ o.ret = "inv" /\ InvalidResult("tls")
             \/ o.ret \in {"abort", "raise"} /\ LastResult("tls", o.ret)
    BY <1>5 DEF ProcessTls
  <2>2. TlsOK(tls')
    BY <2>1, OutcomesOK
  <2>3. Counted'
    BY <2>1 DEF Answer, InvalidResult, LastResult
  <2> QED
    BY <2>2, <2>3
<1>6. CASE Abort
  <2>1. tls' \in {tls, TlsAbort(tls)} /\ run' = 0 /\ ninvalid' = ninvalid
    BY <1>6 DEF Abort
  <2> QED
    BY <2>1, AbortOK
<1>7. CASE UNCHANGED vars
  BY <1>7 DEF vars
<1> QED
  BY <1>1, <1>2, <1>3, <1>4, <1>5, <1>6, <1>7 DEF Next, Request, Ended

\* Every answered request brings the counter back and is remembered.
LEMMA AnswerTypes ==
    ASSUME TypeOK, NEW id \in Ids, NEW kind \in Kinds, Answer(id, kind)
    PROVE  /\ last_request' \in Ids \cup {0, -1} /\ ninvalid' \in 0 .. NINVALID_MAX
           /\ rc' \in {"none", "cont", "inv", "ok", "fail", "abort", "old", "raise"}
           /\ run' \in Nat
           /\ answered' \in [id : Ids, kind : Kinds] \cup {NoRequest}
  BY DEF Answer

LEMMA TypeStep == TypeOK /\ EInv /\ [Next]_vars => TypeOK'
<1> SUFFICES ASSUME TypeOK, EInv, [Next]_vars PROVE TypeOK'
  OBVIOUS
<1>1. tls' \in TlsRecord
  BY EInvStep DEF EInv, TlsOK
<1>2. CASE ProcessSuccess \/ ProcessFailure \/ ProcessInvalid \/ Abort
  BY <1>1, <1>2 DEF TypeOK, ProcessSuccess, ProcessFailure, ProcessInvalid, Abort
<1>3. ASSUME NEW id \in Ids,
             ProcessOld(id) \/ ProcessNotification(id) \/ ProcessNak(id)
                \/ ProcessIdentity(id)
      PROVE  TypeOK'
  <2>1. CASE ProcessOld(id)
    BY <2>1 DEF TypeOK, ProcessOld
  <2>2. CASE ProcessNotification(id)
    <3>1. Answer(id, "notification") /\ UNCHANGED <<auth_handler, chap>>
      BY <2>2 DEF ProcessNotification
    <3> QED
      BY <1>1, <3>1, AnswerTypes DEF TypeOK, Kinds
  <2>3. CASE ProcessNak(id)
    <3>1. Answer(id, "nak") /\ UNCHANGED <<auth_handler, chap>>
      BY <2>3 DEF ProcessNak
    <3> QED
      BY <1>1, <3>1, AnswerTypes DEF TypeOK, Kinds
  <2>4. CASE ProcessIdentity(id)
    <3>1. Answer(id, "identity") /\ UNCHANGED chap /\ auth_handler' = "identity"
      BY <2>4 DEF ProcessIdentity
    <3> QED
      BY <1>1, <3>1, AnswerTypes DEF TypeOK, Kinds
  <2> QED
    BY <1>3, <2>1, <2>2, <2>3, <2>4
<1>4. ASSUME NEW id \in Ids, NEW n \in Challenges, ProcessMd5(id, n)
      PROVE  TypeOK'
  <2>1. Answer(id, "md5") /\ auth_handler' = "md5" /\ "md5" \in Enabled
        /\ chap' = Need(chap, n)
    BY <1>4 DEF ProcessMd5
  <2>2. chap' \in [room : Nat, secret : {"kept", "lost"}]
    BY <2>1 DEF Need, TypeOK
  <2> QED
    BY <1>1, <2>1, <2>2, AnswerTypes DEF TypeOK, Kinds
<1>5. ASSUME NEW id \in Ids, NEW b \in TlsBodies, ProcessTls(id, b)
      PROVE  TypeOK'
  <2>1. /\ auth_handler' = "tls" /\ "tls" \in Enabled /\ chap' = chap
        /\ \/ Answer(id, classify_packet(b))
           \/ InvalidResult("tls")
           \/ \E ret \in {"abort", "raise"} : LastResult("tls", ret)
    BY <1>5 DEF ProcessTls
  <2>2. CASE Answer(id, classify_packet(b)) /\ classify_packet(b) \in Kinds
    BY <1>1, <2>1, <2>2, AnswerTypes DEF TypeOK
  <2>3. CASE Answer(id, classify_packet(b)) /\ classify_packet(b) \notin Kinds
    <3>1. classify_packet(b) = "invalid"
      BY <2>3 DEF classify_packet, Kinds
    <3>2. \A o \in TlsOutcomes(tls, b) : o.ret = "inv"
      BY <3>1 DEF TlsOutcomes, TlsInStart, TlsInFragSend, TlsInFragRecv,
                  TlsInRecv, Invalid, Outcome
    <3>3. rc' = "inv" \/ rc' = "abort"
      BY <1>5, <3>2 DEF ProcessTls, InvalidResult
    <3> QED
      BY <2>3, <3>3 DEF Answer
  <2>4. CASE InvalidResult("tls")
    BY <1>1, <2>1, <2>4 DEF TypeOK, InvalidResult
  <2>5. CASE \E ret \in {"abort", "raise"} : LastResult("tls", ret)
    BY <1>1, <2>1, <2>5 DEF TypeOK, LastResult
  <2> QED
    BY <2>1, <2>2, <2>3, <2>4, <2>5
<1>6. CASE UNCHANGED vars
  BY <1>6 DEF vars, TypeOK
<1> QED
  BY <1>2, <1>3, <1>4, <1>5, <1>6 DEF Next, Request, Ended

\* The variables of the engine keep their types; the counter of invalid
\* packets stays within its limit (eap.cc:145).
THEOREM EngineTypes == Spec => []TypeOK
<1>1. Init => TypeOK /\ EInv
  BY EInvInit DEF Init, TypeOK, TlsRecord, Handler
<1> QED
  BY <1>1, EInvStep, TypeStep, PTL DEF Spec

\* process_msg never runs on a freed SSL object, whatever packets arrive and
\* whenever the caller aborts.
THEOREM TlsHandlerSafe == Spec => []SslLive
<1>1. EInv => SslLive
  BY DEF EInv, TlsOK, SslLive
<1> QED
  BY EInvInit, EInvStep, <1>1, PTL DEF Spec

\* frame_next is called only with bytes left to send, for every fragment size
\* and every length of the messages of the TLS library.
THEOREM FragmentsHaveData == Spec => []FragSendHasData
<1>1. EInv => FragSendHasData
  BY DEF EInv, TlsOK, FragSendHasData
<1> QED
  BY EInvInit, EInvStep, <1>1, PTL DEF Spec

\* An out-of-step peer is given up after NINVALID_MAX invalid packets in a
\* row, for every limit.
THEOREM OutOfStepEnds == Spec => []InvalidsBounded
<1>1. EInv => InvalidsBounded
  BY DEF EInv, Counted, InvalidsBounded
<1> QED
  BY EInvInit, EInvStep, <1>1, PTL DEF Spec

-----------------------------------------------------------------------------
(* The engine built with the check for retransmissions                      *)

\* The identifier the check compares with is the one of the last request
\* answered, and a conversation that has answered nothing is not TLS's.
AInv ==
    /\ answered = NoRequest \/ answered.id = last_request
    /\ answered = NoRequest /\ rc = "cont" => auth_handler # "tls"

LEMMA AInvInit == Init => AInv
  BY DEF Init, AInv

\* A request that is answered is remembered, whichever handler answers it.
LEMMA AnswerRemembered ==
    ASSUME NEW id \in Ids, NEW kind, Answer(id, kind)
    PROVE  AInv' /\ answered'.id = id /\ answered' # NoRequest
  BY DEF Answer, AInv, NoRequest

LEMMA AInvStep == AInv /\ [Next]_vars => AInv'
<1> SUFFICES ASSUME AInv, [Next]_vars PROVE AInv'
  OBVIOUS
<1>1. CASE ProcessSuccess \/ ProcessFailure \/ ProcessInvalid
  BY <1>1 DEF ProcessSuccess, ProcessFailure, ProcessInvalid, AInv
<1>2. ASSUME NEW id \in Ids, ProcessOld(id)
      PROVE  AInv'
  BY <1>2 DEF ProcessOld, AInv
<1>3. ASSUME NEW id \in Ids, NEW kind, Answer(id, kind)
      PROVE  AInv'
  BY <1>3, AnswerRemembered
<1>4. ASSUME NEW id \in Ids,
             \/ ProcessIdentity(id) \/ ProcessNotification(id)
             \/ ProcessNak(id) \/ \E n \in Challenges : ProcessMd5(id, n)
      PROVE  AInv'
  BY <1>3, <1>4 DEF ProcessIdentity, ProcessNotification, ProcessNak,
                     ProcessMd5
<1>5. ASSUME NEW id \in Ids, NEW b \in TlsBodies, ProcessTls(id, b)
      PROVE  AInv'
  <2>1. PICK o \in TlsOutcomes(tls, b) :
          \/ Answer(id, classify_packet(b))
          \/ InvalidResult("tls")
          \/ o.ret \in {"abort", "raise"} /\ LastResult("tls", o.ret)
    BY <1>5 DEF ProcessTls
  <2>2. CASE Answer(id, classify_packet(b))
    BY <1>3, <2>2
  <2>3. CASE InvalidResult("tls")
    BY <2>3 DEF InvalidResult, AInv
  <2>4. CASE o.ret \in {"abort", "raise"} /\ LastResult("tls", o.ret)
    BY <2>4 DEF LastResult, AInv
  <2> QED
    BY <2>1, <2>2, <2>3, <2>4
<1>6. CASE Abort
  BY <1>6 DEF Abort, AInv
<1>7. CASE UNCHANGED vars
  BY <1>7 DEF vars, AInv
<1> QED
  BY <1>1, <1>2, <1>4, <1>5, <1>6, <1>7 DEF Next, Request, Ended

\* With the check for retransmissions an answered request is never processed a
\* second time: a step that answers the request answered last leaves the TLS
\* handler alone.
LEMMA RetransmissionStep ==
    ASSUME CheckOld, AInv, [Next]_vars
    PROVE  [rc' = "cont" /\ answered' = answered => UNCHANGED tls]_vars
<1> SUFFICES ASSUME rc' = "cont", answered' = answered, Next
             PROVE  UNCHANGED tls
  BY DEF vars
<1>1. CASE ProcessSuccess \/ ProcessFailure \/ ProcessInvalid
  BY <1>1 DEF ProcessSuccess, ProcessFailure, ProcessInvalid
<1>2. ASSUME NEW id \in Ids, ProcessOld(id)
      PROVE  FALSE
  BY <1>2 DEF ProcessOld
<1>3. ASSUME NEW id \in Ids, NEW kind, Fresh(id), Answer(id, kind)
      PROVE  FALSE
  BY <1>3, AnswerRemembered DEF Fresh, AInv
<1>4. ASSUME NEW id \in Ids,
             \/ ProcessIdentity(id) \/ ProcessNotification(id)
             \/ ProcessNak(id) \/ \E n \in Challenges : ProcessMd5(id, n)
      PROVE  FALSE
  BY <1>3, <1>4 DEF ProcessIdentity, ProcessNotification, ProcessNak,
                     ProcessMd5
<1>5. ASSUME NEW id \in Ids, NEW b \in TlsBodies, ProcessTls(id, b)
      PROVE  FALSE
  <2>1. CASE Answer(id, classify_packet(b))
    BY <1>3, <1>5, <2>1 DEF ProcessTls
  <2>2. CASE ~Answer(id, classify_packet(b))
    BY <1>5, <2>2 DEF ProcessTls, InvalidResult, LastResult
  <2> QED
    BY <2>1, <2>2
<1>6. CASE Abort
  BY <1>6 DEF Abort, AInv
<1>7. CASE Ended
  BY <1>7 DEF Ended, vars
<1> QED
  BY <1>1, <1>2, <1>4, <1>5, <1>6, <1>7 DEF Next, Request

\* Every run of an engine built with the check (eapd) answers a request that
\* it has answered already with the response it has, not by processing it
\* again.
THEOREM RetransmissionIsHarmless ==
    ASSUME CheckOld
    PROVE  Spec => RetransmissionHarmless
<1>1. AInv /\ [Next]_vars
      => [rc' = "cont" /\ answered' = answered => UNCHANGED tls]_vars
  BY RetransmissionStep
<1> QED
  BY AInvInit, AInvStep, <1>1, PTL DEF Spec, RetransmissionHarmless
=============================================================================
