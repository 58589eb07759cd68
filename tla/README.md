# A TLA+ model of the 802.1x supplicant

The repository holds an 802.1x supplicant for Windows (an MFC program and its
`EAP.DLL`), the Linux daemon it was ported from (`802.1x-linux`, "eapd"), a
console port of that daemon (`Supplicant/eaps`), and a small network access
server used to test it (`SimuNAS`) together with the RADIUS server it talks to
(`freeradius-0.9.3`). This directory models their control logic, model-checks it
with TLC and proves its safety properties with TLAPS.

## The system

| Component | Source | State | Operations | Talks to |
|---|---|---|---|---|
| EAP session | `Supplicant/EAP/EAP-DLL.cpp` | globals `auth`, `io`, `hThread`, `state`, no lock | `Login`, `Logout`, `StopListener`, listener thread `ListenerLoop` | the GUI calls it; it calls the GUI back on the listener thread |
| Event callback | `Supplicant/EapEventHandler.cpp` | none of its own | `eap_evt_handler` | touches the GUI thread's windows from the listener thread |
| Login dialog | `Supplicant/LoginDlg.cpp`, `ConnectingDlg.cpp`, `ConnectionDlg.cpp`, `TrayIcon.*` | visible dialogs, modal loops, tray icon, registry settings | connect, disconnect, cancel, exit, idle timer, online update | the session, the registry |
| EAP engine | `Supplicant/EAP/eap.cc` (copies in `eaps`, `802.1x-linux`, `SimuNAS/eap`) | `auth_handler`, `last_request`, `ninvalid` | `process`, `abort` | the type handlers |
| Type handlers | `type_notification.cc`, `type_identity.cc`, `type_md5.cc`, `type_tls.cc`, `tls.cc` | MD5 buffer; TLS conversation and SSL object | `want_this`, `process`, `nak_it`, `abort` | OpenSSL |
| Link layers | `ll_eapol.cc`, `ll_ether.cc`, `ll_802_3.cc`, `etherlink.cc` | frame buffers, peer address | `receive`, `send`, `retransmit_last`, `same_pae` | WinPcap or a packet socket |
| Daemon | `802.1x-linux/src/main.cc` (port: `eaps/main.cc`) | `state` (INIT, DO_AUTH, DID_AUTH), `molestor` | main loop, signal handlers, molestor process | the engine and the link |
| Online update | `DownloadProgressDlg.cpp`, `LoginDlg.cpp` | a modal dialog, a download thread, the parameters they share | start, cancel, end, restart | the login dialog |
| Test NAS | `SimuNAS/SimuNas.cxx` | `tmpState`, `tmpUserName`, output buffer | EAPOL to RADIUS relay, accounting | supplicants, a RADIUS server |
| RADIUS client | `SimuNAS/radproto.cxx` | identifier ring, table of open requests, sync points, `m_isReading` | requests with retries, socket cache | a RADIUS server |
| RADIUS server, EAP module | `freeradius-0.9.3/src/modules/rlm_eap` | list of conversations | identity, challenge, response, expiry | the NAS |
| RADIUS server, core | `freeradius-0.9.3/src/main` (`radiusd.c`, `request_list.c`, `proxy.c`) | the list of REQUESTs, the place in it, the time to wake up | receive, answer, proxy, retry, reject, clean | NAS, home servers, its threads |
| RADIUS server, threads | `freeradius-0.9.3/src/main/threads.c` | the list of thread handles, a semaphore each | spawn, hand over, ask to exit, delete | the core |
| MAC guard | `Toolkit.cpp`, `Supplicant.cpp` | registry | start-up check | the registry |
| Settings | `PropertyPages.cpp` | registry | read, apply | the registry |

What is hard in it:

* two threads share four globals without a lock, one of them can be killed
  between any two statements (`TerminateThread`), and the one that is killed may
  be waiting for a window of the one that kills it;
* callbacks run, and sleep, before the state they announce is assigned;
* packets may be lost, repeated, reordered or unsolicited, and the engine is a
  state machine over several conversations that end in several ways;
* the daemon forks processes that inherit its signal handlers, and reaps them in
  a handler that may interrupt any statement;
* any number of threads elect one reader for a socket, hand the reading over, and
  time out at any point of it, while identifiers wrap and are reused;
* the main thread and the workers of the RADIUS server share every request and
  every thread handle without a lock, while either may decide that the other is
  through with it, and a home server's late answer starts a third party on it;
* a download thread works on parameters that belong to a dialog the user may
  close, and dialogs nest;
* boundaries: the invalid counter, the last-request identifier, the growth of the
  MD5 buffer, the framing of TLS fragments, the ring of 256 identifiers.

What makes each part correct: the session never touches an object that is freed
or not there, ends clean, can be ended by the user, is called connected only if
it was authenticated, and sends nothing after its logoff; the engine never runs a
handler on freed state, gives an out-of-step peer up in time, and answers a
retransmission without processing it twice; the daemon keeps exactly one molestor,
none while it is authenticated, and retransmits the right frame; every request on
a shared socket has its own identifier, is read by exactly one thread and is given
its own response; a request of the RADIUS server has one thread, is freed only
when that has left it, is answered in one way and leaves the list in the end; a
thread handle outlives its thread; a challenge is accepted once and accounting follows acceptance;
the program replaces itself only with a complete file. `PROJECT.json` lists the
hazards line by line with the properties aimed at them.

## Modules

| Module | Contents | Checked by | Proofs |
|---|---|---|---|
| `EapSession` | the GUI thread and the listener threads of one Supplicant process | `MCEapSession` | `EapSession_proofs` |
| `SessionLife` | abstract: what `EapSession` promises the program that logs in | by refinement | by refinement |
| `EapEngine` | class `eap` and its handlers, against an arbitrary authenticator | `MCEapEngine` | `EapEngine_proofs` |
| `Eapd` | the daemon around `EapEngine` (`INSTANCE`), its molestor, signals and peer address | `MCEapd` | `Eapd_proofs` |
| `RadiusSocket` | the threads that share a RADIUS socket | `MCRadiusSocket` | `RadiusSocket_proofs` |
| `RadiusRequests` | abstract: what `RadiusSocket` promises its threads | by refinement | by refinement |
| `SimuNas` | the NAS composed with the stations, the segment and the RADIUS server | `MCSimuNas` | `SimuNas_proofs` |
| `OnlineUpdate` | the update dialog, its download thread, nested updates | `MCOnlineUpdate` | `OnlineUpdate_proofs` |
| `RadiusServer` | the request list, main loop, worker threads and home server of the RADIUS server | `MCRadiusServer` | `RadiusServer_proofs` |
| `ThreadPool` | the thread pool of the RADIUS server | `MCThreadPool` | `ThreadPool_proofs` |

### EapSession

A *session* is one call of `Login`; session *n* allocates link object *n*, engine
*n* and listener thread *n*, so each global pointer holds a session number or
`Null`. `authMem` and `ioMem` are the objects that are allocated: using or
deleting anything else is undefined behaviour and leads to `proc = "corrupt"`,
a failing `TerminateThread` to `"aborted"` (the code's `exit(0)`), an exception
no one catches on the listener thread to `"crashed"`.

The grain is one action per access to a shared global or to a window of the other
thread: `Login` is `LoginOpen` ... `LoginHandle`, `Logout` is `StopListenerCheck`
... `LogoutIo`, the listener goes from `Receive` through the callback
(`SuccessText`, `SuccessTray`, `SuccessHide`; `FailBox` ... `FailTray`) to its exit
(`ExitDeleteAuth` ... `ExitNullThread`). `StopListenerKill` stops the listener
wherever it is. A listener in `Receive` may get a request, a success or a failure
at any time; together with never getting one this covers loss, duplication, delay
and reordering. Frames the loop drops do not change anything and are not steps.

Rules of Windows, outside the repository, that the model uses: a window call from
another thread completes only while the owner pumps messages; posted messages
come before user input and `WM_TIMER`; `TerminateThread` works at once; `ASSERT`
and `VERIFY` do nothing in a release build (`LoginFindsNoSession` says what the
debug build would check).

Four variables are history: `ret` (the last result of the engine), `authOk`,
`loggedOff`, and `raced`, the sessions in whose *exit window* `Login` or `Logout`
was called. The exit window is between the failure callback showing the login
dialog (`EapEventHandler.cpp:79`) and the listener's last assignment
(`EAP-DLL.cpp:255`): the code is not safe there (`LoginFindsNoSession` shows it), and the
other properties say what holds outside it.

`SessionLife` is the session without threads, pointers and windows: an adapter that is
*open*, for one session at a time, a session that is *leaving* once its end has come,
the *state* that `GetCurConState` reports of it, who was *accepted*. `EapSession`
implements it with the open adapters as *open*, `Ending` as *leaving* and the history as
*accepted*; *overtaken* is a race in the exit window, after which nothing is promised.

### EapEngine

A packet is its code, identifier, type and, for TLS, flags and lengths; for MD5,
the length of the challenge. `TlsOutcomes` is `type_tls::process`, one operator
per handler state; `process_msg` is what `SSL_connect` may answer (external):
any result with any amount of output, success only after a message of the server.
`tls` records the handler's state, the bytes received (`got`), the bytes between
`cur` and `end` (`remain`), `failed_once` and whether the SSL object exists.
`chap` records how long a challenge the MD5 buffer has room for and whether the
password is still in it. Length fields are taken to be consistent with the packet.

`CheckOld` distinguishes the two variants in the repository: the upstream engine
checks for retransmissions, in the port those lines are commented out. `Enabled`
is the set of authentication handlers configured (the DLL is built without TLS).

### Eapd

The daemon EXTENDS nothing of the engine; it takes it by `INSTANCE`, on variables of
the same names, and composes each of the engine's actions with what `main` does
about the result; `DrivesEngine` proves that the whole implements the engine's
specification. `EngineAssumption` is the engine's own, for the constants it is given. A
step is the piece of the main loop between two points at which
a signal handler or another process can be seen: `ReceivePacket`, `SamePae`,
`Process`, one action per case of the `switch`, `Send`, `Exit`. `At(l)` keeps the
main loop still while `rip_child` runs. A read of the link or a write to it may throw at any
time (`catch`).

`children` says what has become of each child process: it *runs*, is *killed* (has
been sent SIGTERM), is a *zombie* (has ended and not been waited for) or *none*.
`copy` is the child's own `state`, as the fork copied it. SIGCHLD may be handled
between any two steps; the fatal signals are blocked except while the daemon
receives, so `terminate` is enabled there only. `do_logoff` is read once, at the end,
and so chosen there. `out` keeps what `retransmit_last` needs: the EAPOL type and the
EAP identifier of the frame in the output buffer.

The peer address (`ll_ether::recv_hook`, `pae_changed`) is kept as the code keeps it:
noted for every frame, also for one that is rejected or that `main` ignores, and
forgotten by the next `receive`. `auth_pae`, the address the current authentication
began with, is history.

### RadiusSocket and RadiusRequests

One `RadiusSocket` and the threads inside `RadiusClient::MakeRequest` and
`SendRequest`. Each block under `m_readMutex` is one action, as is the client's part
between two transmissions; `signalled` is the set of sync points signalled. Time is
not counted: a wait may time out whenever a thread waits, and `Age` makes the oldest
identifier reusable. `IdsOutlive` is the condition under which that is safe:
`m_idCacheTimeout` is longer than all transmissions of a call together. It holds for
the defaults (2 s, 2 tries, 9 s) with one server, and with two as long as an attempt
takes no longer than its time-out; a thread that reads for the others, or begins to read
after it has waited, may take nearly twice as long. The network may lose a
request or its response, deliver responses in any order and deliver one long after
its call has ended; `by` and `try` of a PDU stand for the authenticator.

`RadiusRequests` is what a caller may rely on: one reader at most, at most one
response per request, nothing left behind by a return. `RadiusSocket` implements it
with *readers* as the threads whose `shouldRead` is set, *open* as the registered
threads without a response, *answered* as those with one. Not in the model: round robin over
the servers, secrets of their own per server, the attributes of a PDU.

### SimuNas

The NAS's loop takes one frame, makes at most two RADIUS requests for it and sends
at most one frame. `MakeRequest` is called by one thread here, so `RadiusSocket`
shrinks to `Serve` (the server does its work), `TimeOut` (nobody hears of it, and
the request is made again with a new authenticator, which the server takes for a new
request) and `Returned`. A challenge is a number that stands for the MD5 challenge and
for the State attribute that comes with it. `InitialIds` is what `malloc` leaves in
the buffer whose identifier the first request copies.

The stations are the engine reduced to what the NAS can tell apart: the identifier
last answered and the frame last sent. The server is `rlm_eap`'s list of
conversations. It refuses a request for what `cause` records: the User-Name that comes
with it, which `authorize` may refuse before `rlm_eap` sees the request, and the checks
after it whatever `rlm_eap` has said (`RejectName`, `Verdict`); a password that is not
configured, which `rlm_eap_md5` finds out at the response only; a challenge that has been
used before; and, with no cause at all, a State, an identifier or a digest that does not
fit. The name is judged anew for every request, since the check items of a user may go by
the time and by attributes that only the first request has. A frame on the segment reaches every station or is lost for some, as
the NAS sends to the group address only. `Initialise` has no return statement; its
result is whatever the register holds, and the model begins after a start that
was taken to have succeeded.

`issuedTo`, `accepted`, `asked`, `used`, `cause` and `starts` are history:
who asked for a challenge, how often it led to an accept, which was put on the wire
last, which had been answered or forgotten before, and what the server had against
the request.

### OnlineUpdate

`OnOnlineUpdate` is on the GUI thread's stack while its dialog is open, and the modal
loop dispatches the tray menu's commands too: `calls` is the stack of these calls,
the innermost of which is the only one that can return. Each has a dialog object
(`dlg`, destroyed when the call returns), a `CWinThread` object (`cwin`), a thread at
one of a few locations (`thread`) and the name of the file as the thread writes it
(`name`): empty, a file that is still arriving, a whole one. The thread's
`SendMessage` returns when the dialog has handled it or is gone. `fault` notes the use
of a dialog or thread object that no longer exists.

### RadiusServer

A step is the stretch of one thread between two places at which another one can see
or change what it works on. `rad_respond` becomes `Decode`, `Run` (the module's
assignment of the reply's code), `Check`, `Redo` and `Rerun` (the code is set back and
the user tried once more), `Decide`, `Prepare` and `Forward` (`proxy_send` up to its
pre-proxy modules and from there on), `Reply`, `Send`, and its end, the two
writes `Leave` (`child_pid`) and `Last` (`finished`). When the main thread gives up a
request that a thread may have, `rad_reject` is two steps, `Late` for the code and
`RejectEnds` for the rest; `rejecting` is the request in between. The main thread receives
(`Receive`, `Retransmit`, `Drop`, `HomeReply`), and then cleans: a few requests from
`last_request` on (`CleanSome`, `Some`), or the whole list (`CleanAll`, `Walk`,
`WalkEnd`). `refresh_request` is one operator, with the parts `Undelayed`, `Expired`,
`Late` and `Retry`.

A request is the part of `REQUEST` that the threads look at. It is an object that is
never allocated twice, so that a pointer to a freed one is seen: using one makes
`fault` "freed", a failing `rad_assert` makes it "assert". A *slot* is what `rl_find`
compares. What a module makes of a request is any outcome it can have (`Outcomes`),
for a user without a home server a reply of its own, for the others none but a reject
before the home server has answered. The modules read the code and then set it without a
lock (`auth.c:867`, `eap.c:557`), so `Outcomes` has the success whatever the code is at
the moment of the assignment. Each update of `options` is one step, and so are
`rad_send`, `rad_reject` where a worker or the end of a proxied request calls it, and
the changes of a reply's attributes, which are not modelled: two threads in these at
once (`options |=` twice, two encodings of one packet when `reject_delay` is 0) are not
seen. Time is the age of each request and stops at
`max_request_time`. `proxy_next_try` is not followed: a retry may come at any walk.
`Spawn` stands for `rad_spawn_child`, which `ThreadPool` models. History are `asked`
(copies sent to the home server), `sent` (replies sent to the NAS) and `refused`
(given up before any reply was encoded).

### ThreadPool

`pool` is the list of handles from head to tail and `pc` where each thread is in
`request_handler_thread`: it waits at its semaphore, serves, forgets the function and
then the request (two writes, between which the main thread may look), or exits.
The main thread's operations are `rad_spawn_child`, `SpawnForRequest` and `TooMany`,
by the result of its search, and the two halves of `thread_pool_clean`, between which
the threads run on: `CleanCount` deletes and spawns, `CleanTrim` asks threads to exit.
`Settle` is the passing of `cleanup_delay` since the last spawn. A thread and a request
are used once. `Only` is what a walk over the list leaves of it: the handles that are
not deleted, or the spare ones. The searches and the walk of `CleanTrim` see the list as
it is at one moment, where the code reads one handle after the other: of threads
that become free meanwhile, it may see some and not others, which the model's choice
of the moment does not show.

## Runs

| Run | Instance | Shows |
|---|---|---|
| `session` | 2 logins | every interleaving of the GUI thread with two listeners: no fault outside the race, nothing left behind once no listener is on its way out, a way to disconnect, no frame after the logoff; implements `SessionLife`; `Logout` returns, a failure brings the login dialog back |
| `engine` | upstream engine, MD5 and TLS; 2 identifiers, challenges 1-3 with room for 2, messages up to 4, fragments of 2, limit 5 | any packets in any order: the SSL object is live when used, fragments have data, an out-of-step peer is given up, a retransmission is harmless |
| `radius_socket` | 2 threads (one also sends accounting), 3 identifiers, 1 server, 2 tries, 4 calls | unique identifiers, one reader, exact table and counter; implements `RadiusRequests` |
| `eapd` | 2 addresses, 2 process ids, identifiers 0 and 1, TLS enabled without data, limit 0; symmetric in addresses and pids | at any SIGCHLD or fatal signal: one molestor, none in `DID_AUTH`, none that could log off; the right frame is retransmitted |
| `nas` | 2 stations with the check for retransmissions, 2 tries, 2 challenges, buffers of 1; symmetric in stations | a challenge is accepted once, accounting is earned, a refusal has a cause |
| `update` | 2 downloads | only a complete file replaces the program, no fault without a cancel; the wait ends, the end is seen |
| `radius_server` | 2 requests, 2 clients (one asks for access, one for accounting), 1 thread, delays of 1, limit of 2, no home server; fair | no assertion fails and nothing freed is used, the reply of a finished Access-Request is sent or due; every request leaves, every delayed reject is sent |
| `radius_proxy` | 1 request of either kind for a home server, 2 threads, 2 tries, at most 3 copies; fair | the home server gets as many packets as configured; the wait for it ends |
| `thread_pool` | 3 threads of which 2 at a time, 3 requests, 1 spare, exit after more than 1 request; fair | handles outlive threads; no request is given to a thread that exits, nor is a post lost; a thread serves what it was given, and everything that was handed over |
| `md5_digest` | as `engine`, without the check | *violated*: the password is lost when the buffer grows (`type_md5.cc:49`) |
| `eapd_ripper` | 1 address, 2 process ids, fair | *violated*: `rip_child` never returns (`main.cc:139`) |
| `radius_overtaken` | as `radius_proxy` | *violated*: two threads work on one request (`radiusd.c:1768`) |

A violated property is what a comment, a document, an assertion or a text of the
program says; `PROJECT.json` quotes it with the counterexample's course.

**Why the bounds are enough.** Two logins give an old listener and a new session,
the only way a stale thread can meet a newer object. Messages of up to 4 bytes with
fragments of 2 give messages of none, one, two exact and one-and-a-bit fragments, in
and out; challenges of 1 to 3 lie below, at and above the buffer's room; two
identifiers, one of them 0, are enough to repeat, to change and to hit the initial
value; the limit of invalid packets is the code's own. In `eapd` the contents of a
TLS conversation do not matter, only the result and whether the engine remembers; a
second process id is needed for a molestor that is forked while another one ends. In
`radius_socket` the fourth call needs an identifier of the ring of three again, with the
ring full after two if none has aged, and
two tries let a late response of the first meet the second. In `nas` a second challenge
and a second station are what can be confused, and a second try what can be done
twice; no run needs a queue of more than one, since a lost frame and one that arrives late look
alike to what follows. In `update` the second download is the one nested in
the first. In `radius_server` one thread is what a second request finds busy, and two
requests what a client's next packet replaces and what the list holds besides; the
list's place is moved on by a packet only if it holds three (`MCRadiusPlace.cfg`
has them), which the theorem `PlaceKept` covers for any number and with home servers. Requests are
independent of each other for a home server, so `radius_proxy` has one, with a second
thread that can overtake the first; `MaxAsked` is one more than what
`HomeSpared` allows. In `thread_pool` the third thread replaces a deleted one, and
a semaphore counts to two (`MaxPosts`) only for a thread that was asked to exit,
which it does at its next wake-up. The theorems hold for all values of these constants.

**Fairness.** `EapSession`: both threads are scheduled, posted messages are
dispatched and the user closes the failure box; nothing is assumed of the network,
of the other commands or of the idle timer. `Eapd`: the main loop and the signal
handler run, and a process that has been sent SIGTERM ends; frames need not come.
`OnlineUpdate`: the message loop runs, and a thread that is through with its download
posts the end and returns; a download need not end. `RadiusServer`: the main loop does what it has begun, time passes, a time-out of
`select` comes, the threads run and the modules return; nobody has to send.
`ThreadPool`: the threads run, what they call returns, and the pool is cleaned again
and again. The other modules state no
liveness: they wait for the network.

Deadlock is checked in every run but `radius_proxy` and `radius_overtaken`, where the
server stops after a fault; a process that is gone stutters (`Gone`, `Ended`).
Every module's type invariant is a theorem; `nas` and `thread_pool` check it as well,
for its bounds (the retries, the limit of threads).
Each property of a passing run has a mutant of the code, defined before the
definition it replaces, that breaks it.

### Further counterexamples

These configurations are kept beside the runs. TLC finds each of these properties
violated; the property is what the place named says.

| Configuration | Property | Course |
|---|---|---|
| `MCLoginAssert.cfg` | `LoginFindsNoSession`, the ASSERT at `EAP-DLL.cpp:322` | Connect is pressed while the failed session's listener is still on its way out; the two then free and overwrite the same pointers |
| `MCExit.cfg` | `ExitDisconnects`, `Supplicant.rc:369` | exit in RECONNECTING, without asking or logging off (`LoginDlg.cpp:210`) |
| `MCRadiusStranded.cfg` | `ResponsesAreRead`, `radproto.h:1245` | a leaving reader wakes a waiter that no longer waits; the third thread's response lies unread until its time-out |
| `MCEapdRoaming.cfg` | `RoamingIsDetected`, `README.802.11:16` | a frame that `main` ignores changes the peer address, and the next `receive` clears `pae_changed` (`ll_ether.cc:85`) |
| `MCRadiusAsleep.cfg` | `DelayedRejectsAreSent`, `radiusd.conf.in:322` | without proxying, `select` sleeps for ever after a walk that met only a request that a thread still has (`radiusd.c:1898`); its delayed reject goes out with somebody else's packet. With proxying the case was seen and is avoided (`radiusd.c:1921`), which `radius_server` checks |
| `MCRadiusHung.cfg` | `LateIsRejected`, `radiusd.conf.in:114` | a request that hangs in a module is marked as a delayed reject and not as finished (`radiusd.c:2713`), so nothing is sent |
| `MCRadiusRefused.cfg` | `RefusedIsRefused`, `radiusd.conf.in:114` | the thread finds no code, the main thread gives the request up and sets the reject, the thread sets the success (`auth.c:867`): what is marked as a delayed reject goes out as an Access-Accept |
| `MCRadiusSitting.cfg` | `NoFault`, `radiusd.c:2655` | the packet for the home server is allocated long before it is sent (`proxy.c:375`): a thread that is slow in between fails the main thread's assertion that no child sits on the request |
| `MCRadiusSync.cfg` | `ResentAtOnce`, `proxy.conf:17` | packets for unfinished requests are dropped (`radiusd.c:2014`) before the code that re-sends is reached; with `synchronous = yes` nothing retries |
| `MCRadiusMax.cfg` | `ListWithinMax`, `radiusd.conf.in:158` | the test counts the requests before the new one is added (`radiusd.c:2192`): the list holds one more |
| `MCThreadPoolDead.cfg` | `ExitedIsDeleted`, `threads.c:628` | a thread that has exited is asked to exit once more (`threads.c:747`); its handle counts as a spare thread for ever |
| `MCRadiusPlace.cfg` | `LastRequestListed` (holds) | the larger instance mentioned above |

### Seen on the model, without a configuration

* Session: after the first re-authentication `state` stays RECONNECTING, because
  `ret_ok` is handled in CONNECTING only (`EAP-DLL.cpp:214`); `ExitDisconnects` runs
  into this, and it turns the idle disconnect off. A listener killed between the tray
  icon and hiding the connecting dialog (`EapEventHandler.cpp:63-68`) leaves that
  dialog on screen. There is no login time-out: EAPOL-Start is sent once
  (`EAP-DLL.cpp:338`), the branch that would notice is commented out (`:177-180`),
  although `EAP-DLL.h:15` declares the result.
* Engine: a success, failure or abort does not reset the counter of invalid packets
  (`eap.cc:139-148`), so packets of earlier conversations count. A success in
  mid-handshake clears `auth_handler` without aborting it (`eap.cc:53`): the TLS
  handler refuses the next session's start packets until the limit is reached. A first
  request with identifier 0 passes for a retransmission (`eap.hh:152`,
  `802.1x-linux/src/eap.cc:75`). In the port the check is commented out
  (`eap.cc:70-73`) and a repeated request is processed twice.
* Daemon: a molestor that dies because its send fails leaves its pid in `molestor`,
  and no other is started. No logoff is sent when the daemon ends during a
  re-authentication, or after the bare success of a Catalyst in INIT; with `-exit`
  such a success does not end the daemon either. The molestor is stopped by the second
  packet of an authentication, not by the first.
* NAS: an access request names the user who identified himself last, whoever answers
  (`SimuNas.cxx:93`, `166-167`, `197`), and so does the accounting: a station with the
  right answer is refused if the server refuses that other user. Successes and
  failures, sent to the group address, are taken by all stations. A second Start
  makes the answer to the first challenge fail; so does a lost Access-Accept, whose
  repetition the server refuses. The identifier left in the buffer may equal a
  station's `last_request`, and then the identity request is answered with the old
  frame. Every logoff sends an Accounting-Stop.
* RADIUS client: with three servers and the default times, or with two and attempts
  that take longer than their time-out, `IdsOutlive` fails, and an identifier may be given out again in mid-call. A response that arrives while
  its thread times out is thrown away. A permanent sync point given back with a
  signal on it wakes its next owner for nothing.
* RADIUS server: when a home server answers while no thread is free, the request is
  rejected and finished; if the thread that asked has still to write its own
  `finished` (`radiusd.c:1770`), that undoes it, and the request stays in the list with
  its delayed reject. `EveryRequestLeaves`, `DelayedRejectsAreSent` and
  `ReplyIsSentOrDue` are about servers without home servers. The last of them fails
  with one: the main thread gives the request up while its code is set back
  (`radiusd.c:1579`), finds no code and marks it as rejected only; the thread's second
  try is then not proxied because it is a reject, and `rad_reject` does nothing for what
  is marked: the request is finished and nobody is answered.
* Update: `m_eventStop` is never set (`DownloadProgressDlg.cpp:256`). Cancel
  destroys the dialog while the thread goes on with its parameters: `FaultsNeedCancel`
  says that nothing else leads to a fault, not that a cancel does not.

## Proofs

All theorems hold for every value of the constants that meets the assumptions the
modules state on them (`MaxLoginsAssumption`, `EngineAssumption`,
`RetriesAssumption` and so on). Some have a hypothesis more:

* `IdsOutlive` for `RadiusSocket`, see above;
* `CheckOld` for `RetransmissionIsHarmless` and, of the daemon, for
  `RetransmissionsHarmless`: the engine has the check for retransmissions, as the
  daemon's has;
* `~proxy_synchronous` for `HomeIsSpared`: otherwise the NAS's retransmissions are the
  retries (`MCRadiusSync.cfg`), and `proxy_retry_count` counts nothing;
* `Homes = {}`, no user has a home server, for `Safe`, `Left`, `Alone` and `Answered`
  of `RadiusServer`. It is needed: with a home server `OneThread` and with it
  `NoFault` and `FinishedIsLeft` fail (`radius_overtaken`, `MCRadiusSitting.cfg`), and
  so does `ReplyIsSentOrDue` (see above, *RADIUS server*). What holds with home servers too is `Types`, `PlaceKept` and
  `HomeIsSpared`.

* **EapSession.** `TypeCorrect` is inductive with `LoginNumbered` (a login under way
  has a number). `NoFaultWithoutRace` rests on `IInv`, since `FaultsNeedRace` says
  nothing of which thread may touch what: for runs without a race `IInv` adds that only
  the last session's listener can be alive (`OneListener`), what it finds in the
  pointers and on the heap at each location (`ListenerOwns`), what the GUI thread
  finds when none is alive (`GuiOwns`), and that Connect can be pressed only over a
  session that is gone or going (`LoginMeansNoSession`). `StateIsEarned`,
  `NothingAfterLogoff` and `ConnectedOnlyFromConnecting` rest on `EarnedInv`: a
  listener that runs the success callback has been authenticated and finds CONNECTING
  (`ListenerEarned`), `Login`, the last part of `Logout` and an idle GUI thread without
  a session find UNCONNECTED (`GuiUnconnected`), and the listener of a session that
  has logged off rests (`LogoffDone`). `LoginAssertHolds` follows from `IInv` too: the
  ASSERT that `MCLoginAssert.cfg` breaks holds outside the exit window.
  `NoSessionIsClean` and `UserCanDisconnect` look at the message loop only, where
  neither is inductive: what the user sees there was decided by a callback some lines
  earlier. `ShowsInv` says what each location has done so far: `Login` starts clean
  (`LoginShows`), an idle GUI thread without a listener shows the login dialog, or the
  connecting dialog of a session whose thread could not be created (`RestShows`), the
  box about the cable is shown when everything is gone (`CableShows`), and a listener
  has a way out on the screen until its failure callback, after which the last result
  is a failure and the login dialog comes back before the exit window begins
  (`ListenerShows`). `LivesOneSession` is the refinement: where no race has happened
  each step is one of `SessionLife` or none that it can tell. It needs the two invariants
  and `Reported`: without an open adapter the state is UNCONNECTED, and a listener on
  its way to assign CONNECTING has met no later state.
* **EapEngine.** `EInv` is `TlsOK` (the received and missing parts of a message fit
  together in each handler state, and the SSL object exists where it is used) with
  `Counted` (a run of invalid results never exceeds `ninvalid`, which is reset less
  often). `OutcomesOK` proves the first for one packet, whatever `SSL_connect`
  answers. `RetransmissionIsHarmless` rests on `AInv`: the identifier compared is that
  of the request last answered.
* **RadiusSocket.** `IInv` has four parts. `RingInv`: the identifiers of calls in
  progress are young and allocated, so neither `GenerateNewId` nor `CanDestroy` touches
  them. `Located`: what a thread's local values are at each location. And the table's
  properties: a reader has no sync point, everyone else registered has one, the
  counter is the number of those. Every step has one of a few *shapes* (`NextShape`),
  and the table's properties, as well as the refinement, are proved once per shape and not
  per action.
* **Eapd.** `MolestorInv` is the conjunction of the three molestor properties with
  `Located` (what a location says of `state` and `molestor`). `RetransmitInv` adds that,
  while the engine remembers an answer, the frame in the buffer is that answer: every
  path that overwrites the buffer also makes the engine forget, or never meets a
  retransmission. `DrivesEngine` is the refinement: each of the daemon's steps is a
  step of the engine it is composed with, or leaves the engine's variables alone.
  The daemon takes the engine as an instance and the proof takes `EapEngine_proofs` as
  another one; `SameTls` to `SameRequests` show that the two say the same, one
  operator after the other. `EngineIsSafe` and `RetransmissionsHarmless` then carry the
  engine's theorems over, without a proof of their own.
* **SimuNas.** `SInv`: a challenge has at most one conversation, one with a
  conversation has not been accepted, and the starts, with an accept that is still to
  be looked at, are no more than the challenges met. `RejectsHaveCause` needs `NInv`:
  every frame in the queue, in an inbox, sent or about to be repeated by a station, and
  the response in the NAS's hand carry a challenge that was issued, with the identifier
  of its conversation if there still is one (`Circulating`); the NAS's State is
  that of the last challenge, and a challenge nobody has used still has its
  conversation (`Remembered`). The server can then find nothing wrong with the answer.
* **OnlineUpdate.** `DInv`: the types it needs (`Shapes`), what the thread's location
  says of the dialog, the file's name and the posted message (`Stages`), and that
  without a cancel a dialog ends only after its thread (`InTime`). `UpdateTypes` adds
  that the stack of calls stays a sequence of downloads (`Calls`).
* **RadiusServer.** What a step may do to a request is stated once, and an action
  needs only to name the requests it touches. `ListInv` is about the list alone: a slot
  is listed once, the walk goes over listed requests, the place kept is a listed request or
  none, an unused structure is blank. It holds whatever home servers there are, as
  whoever changes a request leaves its slot (`Modest`), and gives `PlaceKept`.
  `HomeIsSpared` counts: packets sent and
  tries left are together at most `proxy_retry_count` (`AllCounted`), one less while a
  thread is about to send the first (`FirstCounted`), nothing is counted before a
  request is proxied (`NotAsked`), and at most one thread has a request until then
  (`Solo`), so that the counter is not set a second time by a thread that comes late.
  Without home servers, `Shared` adds the three properties, and: the child of a
  request is a thread that works on it, nothing is proxied, an idle thread has no
  request. A request gets *milder* (`Milder`, for who works on it) and its replies are
  *kept* (`Kept`). `Answered` adds `RInv`: a reply that a request has when its thread is
  through, or the request finished, is sent or due (`Meets`), unless `rad_reject` is at
  it; and until the thread has looked for a reject, one that is marked has a reply, sent
  or due, or `rad_reject` is still to see to it (`Watched`).
* **ThreadPool.** `PInv` says for each location of a thread what its handle holds
  (`Located`): a thread that serves has its request and its function, one that has
  forgotten the function still has the request, so that the main thread, which looks
  at the request, does not find it free between the two writes; a thread asked to
  exit has no request, one that has exited is gone, and the semaphore of a running one
  is posted exactly while it has a request it has not taken up. The list is a sequence of handles;
  that walking it deletes exactly what it is meant to and adds none needs lemmas about
  `Only` (`RankGrows` and the ones after it).

Model-checked only: the liveness properties (`LogoutReturns`, `FailureReachesUser`,
`WaitReturns`, `EndIsSeen`, `EveryRequestLeaves`, `DelayedRejectsAreSent`,
`HomeWaitEnds`, `HandedIsServed`), which are out of the prover's reach, and the counterexamples. Every
safety property a passing run checks is a theorem, with the hypotheses above.

## Not modelled

* Bytes of frames, formatting, logging, the digest algorithm, SSL and the fields of a
  packet that contradict one another.
* Settings and property pages, the idle counter (the timer may fire at any time), the
  command line, the version check of the update and the MAC address guard, which are
  sequential and keep no state that other parts change.
* `eaps`' own main loop: it is `eapd`'s with the molestor and most signals taken
  out.
* Round robin and per-server secrets of the RADIUS client, the encoding of attributes.
* Of the RADIUS server: `kill_unresponsive_children` (off by default), replication to
  a realm, realms that are taken for dead (`realm_disable`), the numbers of proxied
  packets, signals, reading the configuration again, and the modules themselves but
  for `rlm_eap`. The second by which `rad_clean_list` sets its clock back is left out;
  ages are counted in whole seconds anyway.
* The exception that leaves the listener when the cable is pulled in `SendResponse`
  ends in `proc = "crashed"`; nothing more is said of it. The update's date, which the
  settings page reads when it opens and writes back when it is applied, and the output
  buffer that is sent again when the TLS library has nothing to say are not followed.
* The vendored trees: the rest of FreeRADIUS, WinPcap with libpcap, xsupplicant and
  others. They make up most of the repository's lines, and the programs here use them
  through their interfaces or not at all, so the mapped lines are a small share of
  the whole. `复件 Supplicant` is a copy of `Supplicant`.

## Plan

1. `RadiusServer` with `ThreadPool` in place of `Spawn`: `RequestsAreKept` and
   `ServesWhatItWasGiven` are what `Spawn` takes for granted.
2. What remains of `FinishedIsLeft` with home servers, for a request that has not
   been proxied.
3. `TlsExchange`: the engine and an authenticator over a lossy link, with the contents
   of the output buffer, as an implementation of an abstract reliable transfer.
4. `Dot1xNetwork`: `Eapd` in place of the reduced stations of `SimuNas`.
5. Round robin over several servers in `RadiusSocket`; settings with the update's
   date.
