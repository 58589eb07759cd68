-------------------------------- MODULE Eapd --------------------------------
(***************************************************************************)
(* eapd, the supplicant daemon (802.1x-linux/src/main.cc): its main loop   *)
(* around the EAP engine (EapEngine), the addresses the link layer keeps,  *)
(* the molestor, a child process that repeats EAPOL-Start frames, and the  *)
(* signals: SIGCHLD at any time, the fatal ones while the daemon waits for *)
(* a frame.                                                                *)
(*                                                                         *)
(* A step is a piece of the main loop between two points at which a signal *)
(* or another process can be seen.  A child process that has been sent     *)
(* SIGTERM is "killed" until it dies, then a "zombie" until it is waited   *)
(* for.                                                                    *)
(***************************************************************************)
EXTENDS Integers

CONSTANTS
    \* those of EapEngine
    Enabled, CheckOld, Ids, NINVALID_MAX, INITIAL, Challenges, fragment_size,
    MaxMsg,
    Paes,           \* addresses frames come from
    PAE_GROUP_ADDR, \* the address output goes to, and initially ether_dst
    Pids            \* process identifiers for molestors

ASSUME AddressesAssumption == PAE_GROUP_ADDR \notin Paes
ASSUME PidsAssumption == -1 \notin Pids

VARIABLES
    auth_handler, last_request, ninvalid, chap, tls, rc, run, answered,
    send_eapol_start, single_shot,  \* the options
    pc,             \* where the main loop is
    state,          \* INIT, DO_AUTH, DID_AUTH
    molestor,       \* pid of the molestor; -1: none
    children,       \* pid -> what has become of the child process
    copy,           \* pid -> the child's own copy of `state'
    sigchld,        \* SIGCHLD is pending
    ripping,        \* its handler, rip_child, is running
    ether_dst, pae_changed,
    out,            \* the output frame: EAPOL type and EAP identifier
    auth_pae        \* history: whose request began the authentication

engine == <<auth_handler, last_request, ninvalid, chap, tls, rc, run, answered>>
options == <<send_eapol_start, single_shot>>
procs == <<molestor, children, copy>>
signals == <<sigchld, ripping>>
link == <<ether_dst, pae_changed, out>>
vars == <<engine, options, pc, state, procs, signals, link, auth_pae>>

auth == INSTANCE EapEngine

\* The engine's constants are what EapEngine takes them to be.
ASSUME EngineAssumption == auth!EngineAssumption

Addresses == Paes \cup {PAE_GROUP_ADDR}
States == {"INIT", "DO_AUTH", "DID_AUTH"}
Pcs == {"receive", "same_pae", "pae_abort", "process", "switch", "do_auth",
        "abort", "send", "out", "catch", "exited"}

\* Steps of the main loop: not while a signal handler runs.
At(l) == pc = l /\ ~ripping

-----------------------------------------------------------------------------
(* The molestor.                                                           *)

\* A signal to a process that has ended does nothing.
Term(p) == [children EXCEPT ![p] = IF @ = "runs" THEN "killed" ELSE @]

\* `if (molestor != -1) stop_molestor()'
StopMolestor ==
    /\ molestor' = -1
    /\ children' = IF molestor # -1 THEN Term(molestor) ELSE children
    /\ UNCHANGED copy

\* start_molestor: fork, which may fail; then one EAPOL-Start is sent, from the
\* daemon's own output frame, and if that fails too an exception is thrown.
Fork ==
    \E p \in Pids :
        /\ children[p] = "none"
        /\ molestor' = p
        /\ children' = [children EXCEPT ![p] = "runs"]
        /\ copy' = [copy EXCEPT ![p] = state]
        /\ UNCHANGED out

StartMolestor(next) ==
    \/ Fork /\ pc' = next
    \/ /\ out' = [out EXCEPT !.type = "start"]
       /\ pc' \in {next, "catch"}
       /\ UNCHANGED procs

\* `if (send_eapol_start && molestor == -1)'
RestartMolestor(next) ==
    IF send_eapol_start /\ molestor = -1
    THEN StartMolestor(next)
    ELSE pc' = next /\ UNCHANGED <<procs, out>>

\* Mutant of do_abort: the engine is not aborted.
do_abortOnlyRestarts(next) ==
    UNCHANGED engine /\ RestartMolestor(next)

\* do_abort
do_abort(next) == auth!Abort /\ RestartMolestor(next)

-----------------------------------------------------------------------------
(* Receiving.                                                              *)

\* ll_ether::recv_hook, for every frame.
recv_hook(a) ==
    /\ ether_dst' = a
    /\ pae_changed' = (pae_changed \/ a # ether_dst)

\* A frame for another station: ll_802_3::recv_hook rejects it.
RejectFrame(a) ==
    /\ At("receive")
    /\ recv_hook(a)
    /\ UNCHANGED <<engine, options, pc, state, procs, signals, out, auth_pae>>

\* A frame that holds no EAP packet: start, logoff, key.  The next call of
\* receive forgets that the address has changed.
IgnoreEapol(a) ==
    /\ At("receive")
    /\ ether_dst' = a
    /\ pae_changed' = FALSE
    /\ UNCHANGED <<engine, options, pc, state, procs, signals, out, auth_pae>>

ReceivePacket(a) ==
    /\ At("receive")
    /\ recv_hook(a)
    /\ pc' = "same_pae"
    /\ UNCHANGED <<engine, options, state, procs, signals, out, auth_pae>>

\* The frame cannot be read: etherlink::rx throws.  Fatal signals are not
\* blocked then; one does what it would have done just before.
ReceiveFails ==
    /\ At("receive")
    /\ pc' = "catch"
    /\ UNCHANGED <<engine, options, state, procs, signals, link, auth_pae>>

\* `if (!io->same_pae())'; nobody asks again before the next receive.
SamePae ==
    /\ At("same_pae")
    /\ pae_changed' = FALSE
    /\ pc' = IF pae_changed /\ state = "DO_AUTH" THEN "pae_abort" ELSE "process"
    /\ state' = IF pae_changed /\ state = "DID_AUTH" THEN "INIT" ELSE state
    /\ UNCHANGED <<engine, options, procs, signals, ether_dst, out, auth_pae>>

\* Case DO_AUTH: do_abort, and then state = INIT.
PaeAbort ==
    /\ At("pae_abort")
    /\ do_abort("process")
    /\ state' = "INIT"
    /\ UNCHANGED <<options, signals, ether_dst, pae_changed, auth_pae>>

-----------------------------------------------------------------------------
(* Processing.                                                             *)

\* rc = auth.process(...), for any packet; an answer is written to the output
\* frame's EAP part.
Process ==
    /\ At("process")
    /\ \/ auth!ProcessSuccess \/ auth!ProcessFailure \/ auth!ProcessInvalid
       \/ \E i \in Ids : auth!Request(i)
    /\ pc' = IF rc' = "raise" THEN "catch" ELSE "switch"
    /\ out' = IF rc' = "cont"
              THEN [out EXCEPT !.id = last_request'] ELSE out
    /\ UNCHANGED <<options, state, procs, signals, ether_dst, pae_changed,
                   auth_pae>>

\* ret_old: retransmit_last sends the output frame as it is.
Retransmit ==
    /\ At("switch") /\ rc = "old"
    /\ pc' \in {"receive", "catch"}
    /\ UNCHANGED <<engine, options, state, procs, signals, link, auth_pae>>

\* An answer begins an authentication, from INIT or DID_AUTH, ...
BeginAuth ==
    /\ At("switch") /\ state \in {"INIT", "DID_AUTH"} /\ rc = "cont"
    /\ state' = "DO_AUTH"
    /\ auth_pae' = ether_dst
    /\ pc' = "send"
    /\ UNCHANGED <<engine, options, procs, signals, link>>

\* ... and in INIT nothing else does: "Catalyst 3550 pecularities".
InitOk ==
    /\ At("switch") /\ state = "INIT" /\ rc = "ok"
    /\ StopMolestor
    /\ pc' = "receive"
    /\ UNCHANGED <<engine, options, state, signals, link, auth_pae>>

InitFail ==
    /\ At("switch") /\ state = "INIT" /\ rc = "fail"
    /\ RestartMolestor("receive")
    /\ UNCHANGED <<engine, options, state, signals, ether_dst, pae_changed,
                   auth_pae>>

InitAbort ==
    /\ At("switch") /\ state = "INIT" /\ rc = "abort"
    /\ auth!Abort
    /\ pc' = "receive"
    /\ UNCHANGED <<options, state, procs, signals, link, auth_pae>>

\* ret_inv, and a success in DID_AUTH, change nothing.
Continue ==
    /\ At("switch") /\ state \in {"INIT", "DID_AUTH"}
    /\ rc = "inv" \/ (rc = "ok" /\ state = "DID_AUTH")
    /\ pc' = "receive"
    /\ UNCHANGED <<engine, options, state, procs, signals, link, auth_pae>>

\* DO_AUTH: first of all the molestor is stopped.
StopInAuth ==
    /\ At("switch") /\ state = "DO_AUTH" /\ rc # "old"
    /\ StopMolestor
    /\ pc' = "do_auth"
    /\ UNCHANGED <<engine, options, state, signals, link, auth_pae>>

\* The end of an authentication, good ...
AuthOk ==
    /\ At("do_auth") /\ rc = "ok"
    /\ state' = "DID_AUTH"
    /\ pc' = IF single_shot THEN "out" ELSE "receive"
    /\ UNCHANGED <<engine, options, procs, signals, link, auth_pae>>

\* ... or bad: ret_fail, ret_abort.
AuthFails ==
    /\ At("do_auth") /\ rc \in {"fail", "abort"}
    /\ IF rc = "fail" /\ single_shot
       THEN pc' = "out" /\ UNCHANGED state
       ELSE pc' = "abort" /\ state' = "INIT"
    /\ UNCHANGED <<engine, options, procs, signals, link, auth_pae>>

AuthGoesOn ==
    /\ At("do_auth") /\ rc \in {"inv", "cont"}
    /\ pc' = IF rc = "inv" THEN "receive" ELSE "send"
    /\ UNCHANGED <<engine, options, state, procs, signals, link, auth_pae>>

\* DID_AUTH: the authenticator takes its success back.
Revoked ==
    /\ At("switch") /\ state = "DID_AUTH" /\ rc \in {"fail", "abort"}
    /\ state' = "INIT"
    /\ pc' = "abort"
    /\ UNCHANGED <<engine, options, procs, signals, link, auth_pae>>

DoAbort ==
    /\ At("abort")
    /\ do_abort("receive")
    /\ UNCHANGED <<options, state, signals, ether_dst, pae_changed, auth_pae>>

\* The output part of the loop.
Send ==
    /\ At("send")
    /\ out' = [out EXCEPT !.type = "pckt"]
    /\ pc' \in {"receive", "catch"}
    /\ UNCHANGED <<engine, options, state, procs, signals, ether_dst,
                   pae_changed, auth_pae>>

\* `if (state == DID_AUTH && do_logoff)': the option is looked at only once, at
\* the end, so it is chosen there.
LogOff ==
    \/ state = "DID_AUTH" /\ out' = [out EXCEPT !.type = "logoff"]
    \/ UNCHANGED out

\* The end of main, after -exit or an exception.
Exit ==
    /\ At("out") \/ At("catch")
    /\ IF pc = "out" THEN LogOff ELSE UNCHANGED out
    /\ StopMolestor
    /\ pc' = "exited"
    /\ UNCHANGED <<engine, options, state, signals, ether_dst, pae_changed,
                   auth_pae>>

-----------------------------------------------------------------------------
(* Signals and processes.                                                  *)

\* Mutant of terminate: the molestor is left running.
terminateAlone ==
    /\ pc = "receive"
    /\ LogOff
    /\ pc' = "exited"
    /\ UNCHANGED <<engine, options, state, procs, signals, ether_dst,
                   pae_changed, auth_pae>>

\* A fatal signal, which also interrupts rip_child.
terminate ==
    /\ pc = "receive"
    /\ children' = IF molestor # -1 THEN Term(molestor) ELSE children
    /\ LogOff
    /\ pc' = "exited"
    /\ UNCHANGED <<engine, options, state, molestor, copy, signals, ether_dst,
                   pae_changed, auth_pae>>

\* A child ends: the signal has reached it, or it could not send its frame.
ChildEnds(p) ==
    /\ children[p] \in {"runs", "killed"}
    /\ children' = [children EXCEPT ![p] = "zombie"]
    /\ sigchld' = TRUE
    /\ UNCHANGED <<engine, options, pc, state, molestor, copy, ripping, link,
                   auth_pae>>

EnterRipper ==
    /\ sigchld /\ ~ripping /\ pc # "exited"
    /\ ripping' = TRUE /\ sigchld' = FALSE
    /\ UNCHANGED <<engine, options, pc, state, procs, link, auth_pae>>

\* waitpid returns the pid of an ended child, ...
RipChild(p) ==
    /\ ripping /\ pc # "exited"
    /\ children[p] = "zombie"
    /\ children' = [children EXCEPT ![p] = "none"]
    /\ UNCHANGED <<engine, options, pc, state, molestor, copy, signals, link,
                   auth_pae>>

\* ... and -1 if there are no children at all.  If there are some and none has
\* ended it returns 0, and rip_child calls it again: no step.
LeaveRipper ==
    /\ ripping /\ pc # "exited"
    /\ \A p \in Pids : children[p] = "none"
    /\ ripping' = FALSE
    /\ UNCHANGED <<engine, options, pc, state, procs, sigchld, link, auth_pae>>

Gone == pc = "exited" /\ UNCHANGED vars

-----------------------------------------------------------------------------
Init ==
    /\ auth!Init
    /\ send_eapol_start \in BOOLEAN /\ single_shot \in BOOLEAN
    /\ state = "INIT"
    /\ copy = [p \in Pids |-> "INIT"]
    /\ sigchld = FALSE /\ ripping = FALSE
    /\ ether_dst = PAE_GROUP_ADDR /\ pae_changed = FALSE
    /\ auth_pae = PAE_GROUP_ADDR
    /\ pc = "receive"
    \* `molestor = start_molestor(1)': fork succeeds, fails, or is not called
    /\ \/ /\ send_eapol_start
          /\ \E p \in Pids :
                /\ molestor = p
                /\ children = [q \in Pids |-> IF q = p THEN "runs" ELSE "none"]
          /\ out = [type |-> "none", id |-> -1]
       \/ /\ molestor = -1
          /\ children = [p \in Pids |-> "none"]
          /\ out = [type |-> IF send_eapol_start THEN "start" ELSE "none",
                    id |-> -1]

Receiving ==
    \/ \E a \in Paes : RejectFrame(a) \/ IgnoreEapol(a) \/ ReceivePacket(a)
    \/ ReceiveFails

MainLoop ==
    \/ SamePae \/ PaeAbort \/ Process \/ Retransmit
    \/ BeginAuth \/ InitOk \/ InitFail \/ InitAbort \/ Continue
    \/ StopInAuth \/ AuthOk \/ AuthFails \/ AuthGoesOn \/ Revoked
    \/ DoAbort \/ Send \/ Exit

Handler == EnterRipper \/ LeaveRipper \/ \E p \in Pids : RipChild(p)

Next == Receiving \/ MainLoop \/ Handler \/ terminate
        \/ (\E p \in Pids : ChildEnds(p)) \/ Gone

Spec == Init /\ [][Next]_vars

\* The daemon runs, its signal handlers run, and a process that has been sent
\* SIGTERM ends.  Frames need not come.
KilledEnds(p) == children[p] = "killed" /\ ChildEnds(p)

FairSpec == Spec /\ WF_vars(MainLoop) /\ WF_vars(Handler)
                 /\ \A p \in Pids : WF_vars(KilledEnds(p))

-----------------------------------------------------------------------------
TypeOK ==
    /\ auth!TypeOK
    /\ send_eapol_start \in BOOLEAN /\ single_shot \in BOOLEAN
    /\ pc \in Pcs /\ state \in States
    /\ molestor \in Pids \cup {-1}
    /\ children \in [Pids -> {"none", "runs", "killed", "zombie"}]
    /\ copy \in [Pids -> States]
    /\ sigchld \in BOOLEAN /\ ripping \in BOOLEAN
    /\ ether_dst \in Addresses /\ pae_changed \in BOOLEAN
    /\ out \in [type : {"none", "start", "pckt", "logoff"},
                id : Ids \cup {-1}]
    /\ auth_pae \in Addresses

(***************************************************************************)
(* Properties.                                                             *)
(***************************************************************************)

\* At most one process sends EAPOL-Start frames: a child that still runs is
\* the one `molestor' names, so that it can be stopped, and none runs on when
\* the daemon has ended in whatever way.
OneMolestor ==
    \A p \in Pids : children[p] = "runs" => p = molestor /\ pc # "exited"

\* terminate, which a molestor inherits, sends a logoff if its process thinks
\* that it did authenticate: stopping a molestor must never log the daemon off,
\* so none is forked with that state (in DID_AUTH, state = INIT comes before
\* do_abort).
MolestorNeverLogsOff == \A p \in Pids : copy[p] # "DID_AUTH"

\* No EAPOL-Start, which asks for a new authentication, is sent while the
\* port is open: there is no molestor in DID_AUTH.
NoStartsWhenAuthenticated ==
    state = "DID_AUTH" => \A p \in Pids : children[p] # "runs"

\* What there is to say of the molestor, through every fork, signal and exit
\* (start_molestor, stop_molestor, rip_child, terminate).
MolestorInHand ==
    OneMolestor /\ MolestorNeverLogsOff /\ NoStartsWhenAuthenticated

\* "retransmitting last frame": what retransmit_last sends is the answer to the
\* request repeated, whatever was written to the output frame since, a start
\* frame after a failed fork included.  Left out is a first request with
\* identifier 0, which passes for answered because last_request starts at 0.
RetransmitsAnswer ==
    pc = "switch" /\ rc = "old" /\ answered # auth!NoRequest
        => out.type = "pckt" /\ out.id = last_request /\ answered.id = out.id

\* "It then starts to process all EAP requests it receives" (README.txt):
\* whatever happens, the daemon comes back to receiving, until it exits.
KeepsReceiving == []<>(pc = "exited" \/ At("receive"))

\* "the client will detect if the PAE-adress changes and try to initiate a
\* fresh authentication" (README.802.11): a packet is processed as part of an
\* authentication only if it comes from the address that one began with.
RoamingIsDetected == pc = "process" /\ state = "DO_AUTH" => auth_pae = ether_dst
=============================================================================
