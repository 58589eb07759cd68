----------------------------- MODULE EapEngine ------------------------------
(***************************************************************************)
(* class eap: the EAP engine and its type handlers (notification, identity,*)
(* MD5 challenge, TLS), as the DLL, eaps and eapd drive them: one call of   *)
(* process per EAP packet received, and abort between two packets whenever *)
(* the caller wants a fresh start.  The authenticator may send anything.   *)
(*                                                                         *)
(* The bytes of a packet are abstracted to its code, identifier, type and  *)
(* the lengths and flags the handlers look at.  What SSL_connect answers   *)
(* is external: any result and any amount of output.  Packets are taken to *)
(* be well formed: their length fields agree and cover their headers.      *)
(***************************************************************************)
EXTENDS Integers

CONSTANTS
    Enabled,        \* the authentication handlers configured: md5, tls
    CheckOld,       \* the engine is built with the check for retransmissions
    Ids,            \* the identifiers the authenticator uses
    NINVALID_MAX,
    INITIAL,        \* challenge length the MD5 buffer is created for
    Challenges,     \* lengths of MD5 challenges
    fragment_size,  \* largest TLS fragment sent
    MaxMsg          \* bound on the length of a TLS message

ASSUME EngineAssumption ==
    /\ Enabled \subseteq {"md5", "tls"}
    /\ CheckOld \in BOOLEAN
    /\ Ids \subseteq Nat
    /\ NINVALID_MAX \in Nat
    /\ INITIAL \in Nat
    /\ Challenges \subseteq Nat
    /\ fragment_size \in Nat \ {0}
    /\ MaxMsg \in Nat

VARIABLES
    auth_handler,   \* the handler of the authentication under way; auth_type
                    \* is always its type
    last_request,   \* identifier of the last request answered; -1: none
    ninvalid,
    chap,           \* type_md5::chap_buf: [room, secret]
    tls,            \* type_tls: [state, got, remain, failed_once, ssl]
    rc,             \* what process returned last
    run,            \* history: handler results ret_inv in a row
    answered        \* history: the last request answered since the last
                    \* success or abort

vars == <<auth_handler, last_request, ninvalid, chap, tls, rc, run, answered>>

\* What the history keeps of a request: for TLS the kind of packet.
NoRequest == [id |-> -1, kind |-> "none"]
Kinds == {"identity", "notification", "nak", "md5",
          "start", "ack", "frag", "data"}

\* got: bytes of the incoming message in recv_buffer; remain: end - cur.
TlsRecord ==
    [state : {"start", "frag_send", "frag_recv", "recv"},
     got : 0 .. MaxMsg, remain : 0 .. MaxMsg, failed_once : 0 .. 1,
     ssl : {"none", "live"}]

Handler(state, got, remain, failed_once, ssl) ==
    [state |-> state, got |-> got, remain |-> remain,
     failed_once |-> failed_once, ssl |-> ssl]

TypeOK ==
    /\ auth_handler \in {"none", "identity"} \cup Enabled
    /\ last_request \in Ids \cup {0, -1}
    /\ ninvalid \in 0 .. NINVALID_MAX
    /\ chap \in [room : Nat, secret : {"kept", "lost"}]
    /\ tls \in TlsRecord
    /\ rc \in {"none", "cont", "inv", "ok", "fail", "abort", "old", "raise"}
    /\ run \in Nat
    /\ answered \in [id : Ids, kind : Kinds] \cup {NoRequest}

Init ==
    /\ auth_handler = "none"
    /\ last_request = 0
    /\ ninvalid = 0
    /\ chap = [room |-> INITIAL, secret |-> "kept"]
    /\ tls = Handler("start", 0, 0, 0, "none")
    /\ rc = "none"
    /\ run = 0
    /\ answered = NoRequest

-----------------------------------------------------------------------------
(* The packets of the authenticator                                         *)

\* len: bytes of TLS data in the packet; total: the TLS length field.
TlsBodies ==
    [flags : {"none", "L", "M", "S", "other"}, len : 0 .. MaxMsg, total : {0}]
    \cup {b \in [flags : {"LM"}, len : 0 .. MaxMsg, total : 0 .. MaxMsg] :
             b.len <= b.total}

-----------------------------------------------------------------------------
(* growable::need, type_md5                                                 *)

\* growable::_need allocates a new block and does not copy the old one.
Need(c, what) ==
    IF c.room < what THEN [room |-> what, secret |-> "lost"] ELSE c

-----------------------------------------------------------------------------
(* type_tls.  An outcome of a handler is the TLS state it leaves and its    *)
(* return code.                                                             *)

Outcome(t, ret) == [tls |-> t, ret |-> ret]

Invalid(t) == {Outcome(t, "inv")}

classify_packet(b) ==
    IF b.flags = "none" /\ b.len = 0 THEN "ack"
    ELSE IF b.flags \in {"none", "L"} THEN "data"
    ELSE IF b.flags = "S" /\ b.len = 0 THEN "start"
    ELSE IF b.flags \in {"M", "LM"} THEN "frag"
    ELSE "invalid"

\* frame_next: one fragment of the t.remain bytes at cur is sent.
frame_next(t) ==
    [t EXCEPT !.remain = IF @ <= fragment_size THEN 0 ELSE @ - fragment_size]

\* A TLS message of n bytes, from SSL_connect, is framed.
TlsOutput(t, n) ==
    LET s == frame_next([t EXCEPT !.remain = n]) IN
    IF n = 0 THEN t
    ELSE IF s.remain = 0 THEN s ELSE [s EXCEPT !.state = "frag_send"]

\* tls::process_msg: SSL_connect fails with an unknown error, which is thrown,
\* is done (which takes a message of the server), needs more data, or fails;
\* out: the bytes it has for the server.
process_msg(t) ==
    [rc : {"raise", "more_data", "failed"}
          \cup (IF t.got = 0 THEN {} ELSE {"success"}),
     out : 0 .. MaxMsg]

\* What type_tls::process makes of the result r of process_msg.
TlsResult(t, r) ==
    LET failed == IF r.rc = "failed" THEN 1 ELSE t.failed_once IN
    IF r.rc = "raise" THEN Outcome(t, "raise")
    ELSE IF r.rc = "success" THEN Outcome([t EXCEPT !.state = "start"], "cont")
    ELSE IF r.rc = "failed" /\ t.failed_once = 1 THEN Outcome(t, "abort")
    ELSE Outcome(TlsOutput(Handler("recv", t.got, t.remain, failed, t.ssl),
                           r.out),
                 "cont")

TlsMessage(t) == {TlsResult(t, r) : r \in process_msg(t)}

TlsInStart(t, b) ==
    IF classify_packet(b) # "start" THEN Invalid(t)
    ELSE TlsMessage(Handler("start", 0, 0, 0, "live"))

\* Mutant of TlsInFragSend: after the last fragment the handler still sends.
TlsInFragSendStays(t, b) ==
    IF classify_packet(b) # "ack" THEN Invalid(t)
    ELSE {Outcome(frame_next(t), "cont")}

TlsInFragSend(t, b) ==
    LET s == frame_next(t) IN
    IF classify_packet(b) # "ack" THEN Invalid(t)
    ELSE {Outcome(IF s.remain = 0 THEN [s EXCEPT !.state = "recv"] ELSE s,
                  "cont")}

TlsInFragRecv(t, b) ==
    LET kind == classify_packet(b)
        s    == Handler("frag_recv", t.got + b.len, t.remain - b.len,
                        t.failed_once, t.ssl) IN
    IF kind \notin {"frag", "data"} \/ t.remain < b.len THEN Invalid(t)
    ELSE IF kind = "frag" THEN {Outcome(s, "cont")}
    ELSE TlsMessage(s)

TlsInRecv(t, b) ==
    LET kind == classify_packet(b) IN
    IF kind = "data"
    THEN TlsMessage(Handler("recv", b.len, 0, t.failed_once, t.ssl))
    ELSE IF kind = "frag" /\ b.flags = "LM"
    THEN {Outcome(Handler("frag_recv", b.len, b.total - b.len, t.failed_once,
                          t.ssl), "cont")}
    ELSE Invalid(t)

TlsOutcomes(t, b) ==
    IF t.state = "start" THEN TlsInStart(t, b)
    ELSE IF t.state = "frag_send" THEN TlsInFragSend(t, b)
    ELSE IF t.state = "frag_recv" THEN TlsInFragRecv(t, b)
    ELSE TlsInRecv(t, b)

\* Mutant of TlsAbort: the connection is freed, the conversation goes on.
TlsAbortKeepsState(t) == Handler(t.state, t.got, t.remain, 0, "none")

\* type_tls::abort
TlsAbort(t) == Handler("start", t.got, t.remain, 0, "none")

-----------------------------------------------------------------------------
(* eap::process                                                             *)

\* After TlsError ("raise") the program has left its main loop.
Alive == rc # "raise"

\* EAP-Success
ProcessSuccess ==
    /\ Alive
    /\ auth_handler' = "none" /\ last_request' = -1
    /\ rc' = "ok" /\ run' = 0 /\ answered' = NoRequest
    /\ UNCHANGED <<ninvalid, chap, tls>>

\* EAP-Failure
ProcessFailure ==
    /\ Alive
    /\ rc' = "fail" /\ run' = 0
    /\ UNCHANGED <<auth_handler, last_request, ninvalid, chap, tls, answered>>

\* A response or an unknown code, or a request of a type without handler when
\* no handler offers a NAK.
ProcessInvalid ==
    /\ Alive
    /\ rc' = "inv"
    /\ UNCHANGED <<auth_handler, last_request, ninvalid, chap, tls, run, answered>>

\* The check for stray retransmissions sends the last response again.
ProcessOld(id) ==
    /\ Alive
    /\ CheckOld /\ id = last_request
    /\ rc' = "old"
    /\ UNCHANGED <<auth_handler, last_request, ninvalid, chap, tls, run, answered>>

\* Mutant of Fresh: the identifier is not looked at.
FreshUnchecked(id) == Alive

\* A request that is not taken for a retransmission.
Fresh(id) == Alive /\ ~(CheckOld /\ id = last_request)

\* straight_return: the request id is answered.
Answer(id, kind) ==
    /\ ninvalid' = 0 /\ last_request' = id
    /\ rc' = "cont" /\ run' = 0 /\ answered' = [id |-> id, kind |-> kind]

\* Handler h takes the request over from the handler of a different type.
Changes(h) == auth_handler \notin {"none", h}

\* Mutant of InvalidResult: the limit is off by one.
InvalidResultLate(h) ==
    /\ IF ninvalid + 1 > NINVALID_MAX + 1
       THEN rc' = "abort" /\ ninvalid' = 0 /\ run' = 0
       ELSE rc' = "inv" /\ ninvalid' = ninvalid + 1 /\ run' = run + 1
    /\ IF Changes(h) THEN last_request' = -1 /\ answered' = NoRequest
                     ELSE UNCHANGED <<last_request, answered>>

\* The handler could not make sense of the packet.
InvalidResult(h) ==
    /\ IF ninvalid + 1 > NINVALID_MAX
       THEN rc' = "abort" /\ ninvalid' = 0 /\ run' = 0
       ELSE rc' = "inv" /\ ninvalid' = ninvalid + 1 /\ run' = run + 1
    /\ IF Changes(h) THEN last_request' = -1 /\ answered' = NoRequest
                     ELSE UNCHANGED <<last_request, answered>>

\* The handler gives up or an exception leaves the program's main loop.
LastResult(h, ret) ==
    /\ rc' = ret /\ run' = 0
    /\ IF Changes(h) THEN last_request' = -1 /\ answered' = NoRequest
                     ELSE UNCHANGED <<last_request, answered>>
    /\ UNCHANGED ninvalid

\* The TLS handler's state as a request finds it: aborted first if the
\* request is for another authentication type.
TlsFor(h) == IF auth_handler = "tls" /\ h # "tls" THEN TlsAbort(tls) ELSE tls

ProcessIdentity(id) ==
    /\ Fresh(id)
    /\ auth_handler' = "identity"
    /\ tls' = TlsFor("identity")
    /\ Answer(id, "identity")
    /\ UNCHANGED chap

ProcessNotification(id) ==
    /\ Fresh(id)
    /\ Answer(id, "notification")
    /\ UNCHANGED <<auth_handler, chap, tls>>

ProcessMd5(id, vsize) ==
    /\ Fresh(id) /\ "md5" \in Enabled
    /\ auth_handler' = "md5"
    /\ tls' = TlsFor("md5")
    /\ chap' = Need(chap, vsize)
    /\ Answer(id, "md5")

ProcessTls(id, b) ==
    /\ Fresh(id) /\ "tls" \in Enabled
    /\ auth_handler' = "tls"
    /\ \E o \in TlsOutcomes(tls, b) :
          /\ tls' = o.tls
          /\ \/ o.ret = "cont" /\ Answer(id, classify_packet(b))
             \/ o.ret = "inv" /\ InvalidResult("tls")
             \/ o.ret \in {"abort", "raise"} /\ LastResult("tls", o.ret)
    /\ UNCHANGED chap

\* A type without a handler is answered with a NAK that proposes MD5 or TLS.
ProcessNak(id) ==
    /\ Fresh(id) /\ Enabled # {}
    /\ Answer(id, "nak")
    /\ UNCHANGED <<auth_handler, chap, tls>>

\* eap::abort
Abort ==
    /\ Alive
    /\ tls' = IF auth_handler = "tls" THEN TlsAbort(tls) ELSE tls
    /\ auth_handler' = "none" /\ last_request' = -1
    /\ run' = 0 /\ answered' = NoRequest
    /\ UNCHANGED <<ninvalid, chap, rc>>

Ended == ~Alive /\ UNCHANGED vars

Request(id) ==
    \/ ProcessOld(id) \/ ProcessIdentity(id) \/ ProcessNotification(id)
    \/ ProcessNak(id)
    \/ \E n \in Challenges : ProcessMd5(id, n)
    \/ \E b \in TlsBodies : ProcessTls(id, b)

Next ==
    \/ ProcessSuccess \/ ProcessFailure \/ ProcessInvalid
    \/ \E id \in Ids : Request(id)
    \/ Abort \/ Ended

Spec == Init /\ [][Next]_vars

-----------------------------------------------------------------------------
(* Properties                                                               *)

\* SSL_connect is called only on a live SSL object: wherever a packet makes
\* process_msg run without a start packet (type_tls.cc:208-213), no abort, by
\* the caller or by a change of authentication type, has freed it.
SslLive == tls.state # "start" => tls.ssl = "live"

\* An acknowledgement is answered with a fragment only while there is a byte
\* left to send: frame_next's copy loop runs at least once and stops only at
\* the end it has been given (type_tls.cc:37-41).
FragSendHasData == tls.state = "frag_send" => tls.remain > 0

\* A peer that is out of step is given up ("abort") after NINVALID_MAX
\* invalid packets in a row at the latest (eap.cc:134-149).
InvalidsBounded == run <= NINVALID_MAX

\* The digest is made of the user's password and the challenge
\* (type_md5.cc:49, 54): the password is still in the buffer.
DigestUsesSecret == chap.secret = "kept"

\* Answering the same request a second time, because the first response was
\* lost, leaves the TLS handler where it is: no fragment is skipped, no
\* message is fed to the TLS library twice (eap.cc:68-73, eaps/main.cc:648).
RetransmissionHarmless ==
    [][rc' = "cont" /\ answered' = answered => UNCHANGED tls]_vars

=============================================================================
