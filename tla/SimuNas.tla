------------------------------- MODULE SimuNas -------------------------------
(***************************************************************************)
(* SimuNAS, the test NAS, between the supplicants on one Ethernet segment  *)
(* and a RADIUS server (FreeRADIUS with rlm_eap and EAP-MD5).              *)
(*                                                                         *)
(* The NAS is a single loop: it takes one frame, makes at most two RADIUS  *)
(* requests for it, sends at most one frame and takes the next; what the   *)
(* stations send in the meantime waits in the capture buffer.  It sends    *)
(* every frame to the PAE group address, so each station hears the answers *)
(* meant for the others.  A challenge is a number, which stands for the    *)
(* MD5 challenge and for the State attribute that comes with it.  Frames   *)
(* and datagrams may be lost; a RADIUS request is then made again.         *)
(***************************************************************************)
EXTENDS Integers, Sequences, FiniteSets

CONSTANTS
    Stations,       \* the supplicants, each with the name of its own user
    CheckOld,       \* they are built with the check for retransmissions
    InitialIds,     \* what malloc leaves in the NAS's output buffer
    Tries,          \* m_numRetries
    MaxChallenges,  \* bound on the challenges the server issues
    MaxQueue,       \* frames the capture buffer holds
    MaxInbox,       \* frames a station's capture buffer holds
    None

ASSUME StationsAssumption == None \notin Stations
ASSUME NumbersAssumption ==
    /\ CheckOld \in BOOLEAN /\ InitialIds \subseteq Nat
    /\ Tries \in Nat \ {0} /\ MaxChallenges \in Nat
    /\ MaxQueue \in Nat /\ MaxInbox \in Nat

VARIABLES
    pc,             \* "receive", or the request being made for `frame'
    frame,          \* io->input()
    out_id,         \* the identifier the output buffer holds
    tmpState, tmpUserName,
    tries,          \* requests radclient->MakeRequest may still send
    response,       \* what the RADIUS server answered
    queue,          \* frames captured and not yet received
    echolist,       \* rlm_eap's conversations
    issued,         \* challenges issued
    inbox,          \* station -> frames it has captured
    last_request,   \* station -> identifier of the request last answered
    answer,         \* station -> the response last sent, for last_request
    asked,          \* history: the challenge last put on the wire
    issuedTo,       \* history: challenge -> the user that asked for it
    accepted,       \* history: challenge -> how often it led to an accept
    used,           \* history: challenges answered once already
    cause,          \* history: what the server has against this request
    starts          \* history: calls of SendAccountStart

nas == <<pc, frame, out_id, tmpState, tmpUserName, tries, response>>
server == <<echolist, issued>>
stations == <<inbox, last_request, answer>>
history == <<asked, issuedTo, accepted, used, cause, starts>>
vars == <<nas, queue, server, stations, history>>

Challenges == 1 .. MaxChallenges
Calls == {"identity", "md5", "account_start", "account_stop"}

\* Frames from the stations and from the NAS.
EapolIn(s, kind) == [from |-> s, kind |-> kind, id |-> -1, chal |-> 0]
EapIn(s, kind, id, chal) ==
    [from |-> s, kind |-> kind, id |-> id, chal |-> chal]
EapOut(kind, id, chal) == [kind |-> kind, id |-> id, chal |-> chal]

NoResponse == [code |-> "none", id |-> -1, chal |-> 0]
Response(code) == [NoResponse EXCEPT !.code = code]

-----------------------------------------------------------------------------
(* The RADIUS server: rad_authenticate, rlm_eap and rlm_eap_md5.           *)

\* What may be held against a request: the User-Name it comes with, no
\* password configured for the user challenged, a challenge used before.
Causes == {"name", "password", "replay"}

\* authorize refuses the User-Name, before rlm_eap has seen the request.  It
\* goes by the check items of that user, which may look at the time and at
\* attributes that the request for MD5 does not have.
RejectName ==
    /\ response' = Response("reject") /\ cause' = {"name"}
    /\ UNCHANGED <<server, issuedTo, accepted, used>>

\* rlm_eap has spoken; what it lets pass may still exceed the user's limits
\* (Simultaneous-Use, Login-Time) or be refused after authentication.
Verdict(r, why) ==
    \/ response' = r /\ cause' = why
    \/ /\ r.code # "reject"
       /\ response' = Response("reject") /\ cause' = why \cup {"name"}

\* A conversation is found by the State and the identifier of the challenge;
\* it holds what is configured for the user, perhaps no password.
Conversation(chal, id, user, configured) ==
    [chal |-> chal, id |-> id, user |-> user, configured |-> configured]

\* Mutant of eaplist_isreply: the conversation stays in the list.
eaplist_isreplyKeeps(list, h) == list

\* The conversation is taken out of the list when its response comes.
eaplist_isreply(list, h) == list \ {h}

\* The digest is that of the user's password and of this challenge.
eapmd5_verify(h, f) == f.from = h.user /\ f.chal = h.chal

\* eap_compose: the next identifier.
MD5Id(id) == (id + 1) % 256

\* A conversation begins: a challenge is issued to the user named, whether or
\* not a password is configured.
Initiate ==
    LET c == issued + 1
        id == MD5Id(frame.id) IN
    /\ c \in Challenges
    /\ issued' = c
    /\ \E p \in BOOLEAN :
           echolist' = echolist \cup {Conversation(c, id, tmpUserName, p)}
    /\ issuedTo' = [issuedTo EXCEPT ![c] = tmpUserName]
    /\ Verdict([code |-> "challenge", id |-> id, chal |-> c], {})
    /\ UNCHANGED <<accepted, used>>

\* The response to a challenge, with the State the NAS has put beside it.
Authenticate ==
    LET late == IF tmpState \in used THEN {"replay"} ELSE {} IN
    /\ used' = used \cup {tmpState}
    /\ \/ \E h \in echolist :
            /\ h.chal = tmpState /\ h.id = frame.id
            /\ echolist' = eaplist_isreply(echolist, h)
            /\ \/ ~h.configured
                  /\ Verdict(Response("reject"), late \cup {"password"})
               \/ h.configured /\ eapmd5_verify(h, frame)
                  /\ Verdict(Response("accept"), late)
               \/ h.configured /\ ~eapmd5_verify(h, frame)
                  /\ Verdict(Response("reject"), late)
       \/ /\ \A h \in echolist : ~(h.chal = tmpState /\ h.id = frame.id)
          /\ Verdict(Response("reject"), late)
          /\ UNCHANGED echolist
    /\ accepted' = IF response'.code = "accept"
                   THEN [accepted EXCEPT ![tmpState] = @ + 1] ELSE accepted
    /\ UNCHANGED <<issued, issuedTo>>

\* Accounting records are written and acknowledged.
Account ==
    /\ response' = Response("accounting")
    /\ UNCHANGED <<server, issuedTo, accepted, used, cause>>

\* eaplist_clean: a conversation is forgotten when it is too old.
Expire(h) ==
    /\ h \in echolist
    /\ echolist' = echolist \ {h}
    /\ used' = used \cup {h.chal}
    /\ UNCHANGED <<nas, queue, issued, stations, asked, issuedTo, accepted,
                   cause, starts>>

-----------------------------------------------------------------------------
(* radclient->MakeRequest: the request, or its response, may be lost.      *)

Calling == pc \in Calls /\ response = NoResponse /\ tries > 0

\* The request reaches the server.
Serve ==
    /\ Calling
    /\ \/ pc = "identity" /\ Initiate
       \/ pc = "md5" /\ Authenticate
       \/ pc \in {"identity", "md5"} /\ RejectName
       \/ pc \in {"account_start", "account_stop"} /\ Account
    /\ UNCHANGED <<pc, frame, out_id, tmpState, tmpUserName, tries, queue,
                   stations, asked, starts>>

\* Mutant of TimeOut: the number of attempts is not looked at.
TimeOutUnchecked ==
    /\ pc \in Calls
    /\ response' = NoResponse
    /\ tries' = tries - 1
    /\ UNCHANGED <<pc, frame, out_id, tmpState, tmpUserName, queue, server,
                   stations, history>>

\* No response comes in time, whether or not the server has done its work.
\* The request is sent again, with a new authenticator: the server takes it
\* for a new one.
TimeOut ==
    /\ pc \in Calls /\ tries > 0
    /\ response' = NoResponse
    /\ tries' = tries - 1
    /\ UNCHANGED <<pc, frame, out_id, tmpState, tmpUserName, queue, server,
                   stations, history>>

\* MakeRequest has returned, with a response or without one.
Returned == pc \in Calls /\ (response # NoResponse \/ tries = 0)

-----------------------------------------------------------------------------
(* The NAS.                                                                *)

\* io->send: to the group address; each station may miss it.
Send(f) ==
    \E missed \in SUBSET Stations :
        /\ \A s \in Stations \ missed : Len(inbox[s]) < MaxInbox
        /\ inbox' = [s \in Stations |->
                        IF s \in missed THEN inbox[s] ELSE Append(inbox[s], f)]

Receive(kind) ==
    /\ pc = "receive" /\ queue # <<>> /\ Head(queue).kind = kind
    /\ queue' = Tail(queue)

\* The NAS turns to a frame for which it needs the server.
Call(kind) ==
    /\ pc' = kind
    /\ tries' = Tries /\ response' = NoResponse

\* The frame has been dealt with.
Done ==
    /\ pc' = "receive"
    /\ frame' = None /\ tries' = 0 /\ response' = NoResponse
    /\ cause' = {}

\* EAPOL-Start: SendEapRequestID, with whatever identifier is in the buffer.
ReceiveStart ==
    /\ Receive("start")
    /\ Send(EapOut("identity", out_id, 0))
    /\ UNCHANGED <<nas, server, last_request, answer, history>>

\* EAPOL-Logoff: SendAccountStop, always.
ReceiveLogoff ==
    /\ Receive("logoff")
    /\ frame' = Head(queue)
    /\ Call("account_stop")
    /\ UNCHANGED <<out_id, tmpState, tmpUserName, server, stations, history>>

\* SendAccessRequestID stores the user name ...
ReceiveIdentity ==
    /\ Receive("identity")
    /\ frame' = Head(queue)
    /\ tmpUserName' = Head(queue).from
    /\ Call("identity")
    /\ UNCHANGED <<out_id, tmpState, server, stations, history>>

\* ... and SendAccessRequestMD5 sends it, and the State, whoever answers.
ReceiveMD5 ==
    /\ Receive("md5")
    /\ frame' = Head(queue)
    /\ Call("md5")
    /\ UNCHANGED <<out_id, tmpState, tmpUserName, server, stations, history>>

\* Mutant of SendEapRequestMD5: a State that is there already is kept.
SendEapRequestMD5Keeps ==
    /\ tmpState' = IF tmpState = 0 THEN response.chal ELSE tmpState
    /\ out_id' = response.id /\ asked' = response.chal
    /\ Send(EapOut("md5", response.id, response.chal))

\* The challenge, as the server has written it, and its State.
SendEapRequestMD5 ==
    /\ tmpState' = response.chal
    /\ out_id' = response.id /\ asked' = response.chal
    /\ Send(EapOut("md5", response.id, response.chal))

IdentityReturned ==
    /\ pc = "identity" /\ Returned
    /\ IF response.code = "challenge"
       THEN SendEapRequestMD5
       ELSE /\ Send(EapOut("failure", out_id, 0))
            /\ UNCHANGED <<tmpState, out_id, asked>>
    /\ Done
    /\ UNCHANGED <<tmpUserName, queue, server, last_request, answer, issuedTo,
                   accepted, used, starts>>

\* Mutant of MD5Accepted: any response will do.
MD5AcceptedAny ==
    /\ pc = "md5" /\ response # NoResponse
    /\ Send(EapOut("success", out_id, 0))
    /\ Call("account_start")
    /\ starts' = starts + 1
    /\ UNCHANGED <<frame, out_id, tmpState, tmpUserName, queue, server,
                   last_request, answer, asked, issuedTo, accepted, used,
                   cause>>

\* SendEapSuccess, SendAccountStart
MD5Accepted ==
    /\ pc = "md5" /\ response.code = "accept"
    /\ Send(EapOut("success", out_id, 0))
    /\ Call("account_start")
    /\ starts' = starts + 1
    /\ UNCHANGED <<frame, out_id, tmpState, tmpUserName, queue, server,
                   last_request, answer, asked, issuedTo, accepted, used,
                   cause>>

MD5Rejected ==
    /\ pc = "md5" /\ Returned /\ response.code # "accept"
    /\ Send(EapOut("failure", out_id, 0))
    /\ Done
    /\ UNCHANGED <<out_id, tmpState, tmpUserName, queue, server, last_request,
                   answer, asked, issuedTo, accepted, used, starts>>

\* Nobody looks at the responses to accounting requests.
AccountReturned ==
    /\ pc \in {"account_start", "account_stop"} /\ Returned
    /\ Done
    /\ UNCHANGED <<out_id, tmpState, tmpUserName, queue, server, stations,
                   asked, issuedTo, accepted, used, starts>>

-----------------------------------------------------------------------------
(* The supplicants.                                                        *)

\* A frame is captured, or lost when the buffer is full or on the way.
Capture(f) == queue' = queue \/ (Len(queue) < MaxQueue /\ queue' = Append(queue, f))

\* success, eap::abort: no request passes for an old one any more.
Forgets(s) ==
    /\ last_request' = [last_request EXCEPT ![s] = -1]
    /\ answer' = [answer EXCEPT ![s] = None]

\* The user logs in, or the molestor of the daemon runs.
StationStarts(s) ==
    /\ Len(queue) < MaxQueue
    /\ queue' = Append(queue, EapolIn(s, "start"))
    /\ UNCHANGED <<nas, server, stations, history>>

StationLogsOff(s) ==
    /\ Capture(EapolIn(s, "logoff"))
    /\ Forgets(s)
    /\ UNCHANGED <<nas, server, inbox, history>>

Hears(s) ==
    /\ inbox[s] # <<>>
    /\ inbox' = [inbox EXCEPT ![s] = Tail(@)]
    /\ UNCHANGED <<nas, server, history>>

\* eap::process, type_identity and type_md5: the request is answered.
StationAnswers(s) ==
    LET f == Head(inbox[s])
        a == EapIn(s, f.kind, f.id, f.chal) IN
    /\ Hears(s)
    /\ f.kind \in {"identity", "md5"}
    /\ ~(CheckOld /\ f.id = last_request[s])
    /\ last_request' = [last_request EXCEPT ![s] = f.id]
    /\ answer' = [answer EXCEPT ![s] = a]
    /\ Capture(a)

\* ret_old: the last response is sent again, if there is one.
StationRetransmits(s) ==
    /\ Hears(s)
    /\ Head(inbox[s]).kind \in {"identity", "md5"}
    /\ CheckOld /\ Head(inbox[s]).id = last_request[s]
    /\ IF answer[s] = None THEN UNCHANGED queue ELSE Capture(answer[s])
    /\ UNCHANGED <<last_request, answer>>

\* Success, or failure: after a failure in INIT the engine is not aborted.
StationResult(s) ==
    /\ Hears(s)
    /\ Head(inbox[s]).kind \in {"success", "failure"}
    /\ \/ Forgets(s)
       \/ /\ Head(inbox[s]).kind = "failure"
          /\ UNCHANGED <<last_request, answer>>
    /\ UNCHANGED queue

-----------------------------------------------------------------------------
Init ==
    /\ pc = "receive" /\ frame = None
    /\ out_id \in InitialIds
    /\ tmpState = 0 /\ tmpUserName = None
    /\ tries = 0 /\ response = NoResponse
    /\ queue = <<>>
    /\ echolist = {} /\ issued = 0
    /\ inbox = [s \in Stations |-> <<>>]
    /\ last_request = [s \in Stations |-> 0]
    /\ answer = [s \in Stations |-> None]
    /\ asked = 0
    /\ issuedTo = [c \in Challenges |-> None]
    /\ accepted = [c \in Challenges |-> 0]
    /\ used = {} /\ cause = {}
    /\ starts = 0

NAS ==
    \/ ReceiveStart \/ ReceiveLogoff \/ ReceiveIdentity \/ ReceiveMD5
    \/ IdentityReturned \/ MD5Accepted \/ MD5Rejected \/ AccountReturned
    \/ TimeOut

Station(s) ==
    \/ StationStarts(s) \/ StationLogsOff(s)
    \/ StationAnswers(s) \/ StationRetransmits(s) \/ StationResult(s)

Next ==
    \/ NAS \/ Serve \/ (\E h \in echolist : Expire(h))
    \/ (\E s \in Stations : Station(s))

Spec == Init /\ [][Next]_vars

-----------------------------------------------------------------------------
InFrames == [from : Stations, kind : {"start", "logoff", "identity", "md5"},
             id : Nat \cup {-1}, chal : 0 .. MaxChallenges]
OutFrames == [kind : {"identity", "md5", "success", "failure"},
              id : Nat, chal : 0 .. MaxChallenges]

TypeOK ==
    /\ pc \in {"receive"} \cup Calls
    /\ frame \in InFrames \cup {None}
    /\ out_id \in Nat
    /\ tmpState \in 0 .. MaxChallenges /\ tmpUserName \in Stations \cup {None}
    /\ tries \in 0 .. Tries
    /\ response \in [code : {"none", "challenge", "accept", "reject",
                             "accounting"},
                     id : Nat \cup {-1}, chal : 0 .. MaxChallenges]
    /\ queue \in Seq(InFrames)
    /\ echolist \subseteq [chal : Challenges, id : Nat, user : Stations,
                            configured : BOOLEAN]
    /\ issued \in 0 .. MaxChallenges
    /\ inbox \in [Stations -> Seq(OutFrames)]
    /\ last_request \in [Stations -> Nat \cup {-1}]
    /\ answer \in [Stations -> InFrames \cup {None}]
    /\ asked \in 0 .. MaxChallenges
    /\ issuedTo \in [Challenges -> Stations \cup {None}]
    /\ accepted \in [Challenges -> Nat]
    /\ used \subseteq 0 .. MaxChallenges /\ cause \subseteq Causes
    /\ starts \in Nat

(***************************************************************************)
(* Properties.                                                             *)
(***************************************************************************)

\* A challenge leads to one Access-Accept at most, although the NAS repeats a
\* request whose response is lost, stations send a response again, and other
\* stations answer challenges that were not meant for them.
AcceptedOnce == \A c \in Challenges : accepted[c] <= 1

\* Sessions that are accounted for have been accepted by the server: there
\* are no more calls of SendAccountStart than challenges that were met.
StartsAreEarned ==
    starts <= Cardinality({c \in Challenges : accepted[c] > 0})

\* A station that answers its own challenge, before the NAS has sent another,
\* is turned down only for a cause: the User-Name sent along (which may be that
\* of another station), no password configured for the station, or a challenge
\* that has been answered before (a repeated frame or request) or has expired.
\* The answer itself is never found wrong, nor its conversation missing: State,
\* identifier and challenge agree from the server to the station and back.
FailureHasCause ==
    pc = "md5" /\ response.code = "reject"
    /\ frame.chal = asked /\ issuedTo[asked] = frame.from
        => cause # {}
=============================================================================
