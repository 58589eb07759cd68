----------------------------- MODULE EapSession -----------------------------
(***************************************************************************)
(* One Supplicant process: the GUI thread (LoginDlg and the dialogs it     *)
(* owns) and the listener threads of EAP.DLL, over the globals they share  *)
(* without a lock: auth, io, hThread and state.                            *)
(*                                                                         *)
(* A session is one call of Login.  Session n allocates the link object    *)
(* (io) n, the EAP engine (auth) n and the listener thread n, so a global  *)
(* pointer holds a session number or Null.  A listener waits in receive    *)
(* for whatever the network delivers: requests, successes and failures in  *)
(* any order and any number, which covers loss, duplication and delay.     *)
(*                                                                         *)
(* Windows rules used (external to the repository): a call that touches a  *)
(* window of another thread (ShowWindow, SetDlgItemText) completes only    *)
(* while the owning thread pumps messages; posted messages are handled     *)
(* before user input and before WM_TIMER; TerminateThread stops a thread   *)
(* wherever it is.  ASSERT and VERIFY do nothing in the release build.     *)
(***************************************************************************)
EXTENDS Naturals

CONSTANT MaxLogins      \* bound on the number of calls of Login

ASSUME MaxLoginsAssumption == MaxLogins \in Nat \ {0}

Sessions == 1 .. MaxLogins
Null == 0
Pointers == Sessions \cup {Null}

EAP_STATE == {"UNCONNECTED", "CONNECTING", "RECONNECTING", "CONNECTED"}

VARIABLES
    auth,       \* eap *auth
    io,         \* ll_eapol *io
    hThread,    \* HANDLE EapProcess::hThread
    state,      \* EAP_STATE EapProcess::state
    authMem,    \* the eap objects that are allocated
    ioMem,      \* the ll_802_3 objects that are allocated (open adapters)
    gui,        \* where the GUI thread is; "idle" = in its message loop
    task,       \* what the GUI thread does once Logout has returned
    modal,      \* the dialog or message box the GUI thread is showing
    posted,     \* WM_COMMANDs posted to the login dialog, not yet handled
    lis,        \* where each listener thread is
    shown,      \* which of the login and connecting dialogs are visible
    tray,       \* the tray icon: "reset" (no menu) or "connected"
    proc,       \* how the process is doing
    logins,     \* number of sessions opened so far
    ret,        \* history: the last result of auth->process in a session
    authOk,     \* history: the sessions where a success followed an answer
    loggedOff,  \* history: the sessions for which EAPOL-Logoff was sent
    raced       \* history: the sessions in whose exit window Login or Logout
                \* was called

ptrs  == <<auth, io, hThread>>
mem   == <<authMem, ioMem>>
guiVs == <<gui, task, modal, posted>>
wins  == <<shown, tray>>
hist  == <<logins, ret, authOk, loggedOff, raced>>
vars  == <<ptrs, state, mem, guiVs, lis, wins, proc, hist>>

LoginPcs  == {"login_open", "login_setup", "login_auth", "login_handlers",
              "login_start", "login_thread", "login_handle", "connect_ui"}
LogoutPcs == {"out_check", "out_kill", "out_logoff", "out_auth", "out_io",
              "out_ui"}
GuiPcs    == {"idle"} \cup LoginPcs \cup LogoutPcs

\* A failure has been shown to the user (the login dialog is enabled again)
\* and the listener is still on its way out: EapEventHandler.cpp 80 to
\* EAP-DLL.cpp 255.
ExitWindow == {"fail_tray", "set_unconnected", "del_auth", "del_io",
               "null_auth", "null_io", "null_thread"}
Resting    == {"none", "ended", "killed"}
ListenPcs  == Resting \cup ExitWindow \cup
              {"receive", "reqid_cb", "set_connecting", "send", "succ_text",
               "succ_tray", "succ_hide", "set_connected",
               "fail_box", "fail_hide", "fail_show"}

TypeOK ==
    /\ auth \in Pointers /\ io \in Pointers /\ hThread \in Pointers
    /\ state \in EAP_STATE
    /\ authMem \subseteq Sessions /\ ioMem \subseteq Sessions
    /\ gui \in GuiPcs
    /\ task \in {"none", "disconnect", "cancel", "cable", "exit"}
    /\ modal \in {"none", "dialog", "connection", "confirm", "cable", "update"}
    /\ posted \subseteq {"ID_DISCONNECT", "ID_ONLINE_UPDATE"}
    /\ lis \in [Sessions -> ListenPcs]
    /\ shown \subseteq {"login", "connecting"}
    /\ tray \in {"reset", "connected"}
    /\ proc \in {"running", "exited", "aborted", "crashed", "corrupt"}
    /\ logins \in 0 .. MaxLogins
    /\ ret \in [Sessions -> {"none", "cont", "ok", "fail"}]
    /\ authOk \subseteq Sessions /\ loggedOff \subseteq Sessions
    /\ raced \subseteq Sessions

Init ==
    /\ auth = Null /\ io = Null /\ hThread = Null
    /\ state = "UNCONNECTED"
    /\ authMem = {} /\ ioMem = {}
    /\ gui = "idle" /\ task = "none" /\ modal = "none" /\ posted = {}
    /\ lis = [s \in Sessions |-> "none"]
    /\ shown = {"login"} /\ tray = "reset"
    /\ proc = "running"
    /\ logins = 0
    /\ ret = [s \in Sessions |-> "none"]
    /\ authOk = {} /\ loggedOff = {} /\ raced = {}

-----------------------------------------------------------------------------
(* The heap.  Using a null or a freed object, or freeing one twice, is      *)
(* undefined behaviour: the process is "corrupt" and takes no more steps.   *)

Corrupt ==
    /\ proc' = "corrupt"
    /\ UNCHANGED <<ptrs, state, mem, guiVs, lis, wins, hist>>

AuthUsable == auth \in authMem
IoUsable   == io \in ioMem

\* delete p is a no-op on a null pointer.
Deletable(p, live) == p = Null \/ p \in live

\* The listeners in their exit window.
Exiting == {s \in Sessions : lis[s] \in ExitWindow}

Running == proc = "running"

\* The GUI thread is in a message loop, its own or that of a dialog or a
\* message box: other threads' window calls complete.
Pumping == Running /\ gui = "idle"

\* The GUI thread is at gui location pc.
GuiAt(pc) == Running /\ gui = pc

\* Input reaches the GUI thread once no posted message is left.
Input == Pumping /\ posted = {}

-----------------------------------------------------------------------------
(* GUI thread: commands                                                     *)

\* LoginDlg::OnConnect: the adapter is found and Login is called.
OnConnect ==
    /\ Input /\ modal = "none" /\ "login" \in shown
    /\ logins < MaxLogins
    /\ logins' = logins + 1
    /\ gui' = "login_open"
    /\ raced' = raced \cup Exiting
    /\ UNCHANGED <<ptrs, state, mem, task, modal, posted, lis, wins, proc,
                   ret, authOk, loggedOff>>

\* A modal dialog that leaves the session alone: OnProperties, OnAppAbout,
\* and OnConnect's early returns (no adapter information, adapter gone).
OpenDialog ==
    /\ Input /\ modal = "none"
    /\ "login" \in shown \/ tray = "connected"
    /\ modal' = "dialog"
    /\ UNCHANGED <<ptrs, state, mem, gui, task, posted, lis, wins, proc, hist>>

\* OnDisplayConnection: tray menu or double click.
OnDisplayConnection ==
    /\ Input /\ modal = "none" /\ tray = "connected"
    /\ modal' = "connection"
    /\ UNCHANGED <<ptrs, state, mem, gui, task, posted, lis, wins, proc, hist>>

CloseDialog ==
    /\ Input /\ modal \in {"dialog", "connection"}
    /\ modal' = "none"
    /\ UNCHANGED <<ptrs, state, mem, gui, task, posted, lis, wins, proc, hist>>

\* ConnectionDlg::OnDisconnect closes the dialog and posts ID_DISCONNECT.
ConnectionDlgDisconnect ==
    /\ Input /\ modal = "connection"
    /\ modal' = "none"
    /\ posted' = posted \cup {"ID_DISCONNECT"}
    /\ UNCHANGED <<ptrs, state, mem, gui, task, lis, wins, proc, hist>>

\* The call of Logout by the GUI thread; t is what follows it.
CallLogout(t) ==
    /\ gui' = "out_check"
    /\ task' = t
    /\ raced' = raced \cup Exiting
    /\ UNCHANGED <<ptrs, state, mem, lis, wins, proc, logins, ret, authOk,
                   loggedOff>>

\* OnDisconnect from the tray menu; the menu works over an open dialog too.
TrayDisconnect ==
    /\ Input /\ tray = "connected"
    /\ CallLogout("disconnect")
    /\ UNCHANGED <<modal, posted>>

\* OnDisconnect as the posted command.
PostedDisconnect ==
    /\ Pumping /\ "ID_DISCONNECT" \in posted
    /\ posted' = posted \ {"ID_DISCONNECT"}
    /\ CallLogout("disconnect")
    /\ UNCHANGED modal

\* ConnectingDlg::OnBnClickedCancel
CancelConnecting ==
    /\ Input /\ "connecting" \in shown
    /\ CallLogout("cancel")
    /\ UNCHANGED <<modal, posted>>

\* OnTimer: the idle time of a connected session has run out.
IdleTimeout ==
    /\ Input /\ state = "CONNECTED"
    /\ CallLogout("disconnect")
    /\ UNCHANGED <<modal, posted>>

ProcessExits ==
    /\ proc' = "exited"
    /\ UNCHANGED <<ptrs, state, mem, guiVs, lis, wins, hist>>

\* LoginDlg::OnCancel: the Exit button or the tray menu's Exit.  Only
\* CONNECTED is asked about and disconnected.
OnCancel ==
    /\ Input /\ modal = "none"
    /\ "login" \in shown \/ tray = "connected"
    /\ \/ /\ state # "CONNECTED"
          /\ ProcessExits
       \/ /\ state = "CONNECTED"
          /\ modal' = "confirm"
          /\ UNCHANGED <<ptrs, state, mem, gui, task, posted, lis, wins, proc,
                         hist>>

ConfirmExit ==
    /\ Input /\ modal = "confirm"
    /\ modal' = "none"
    /\ \/ UNCHANGED <<ptrs, state, mem, gui, task, posted, lis, wins, proc, hist>>
       \/ CallLogout("exit") /\ UNCHANGED posted

\* OnOnlineUpdate, from the tray menu or posted by the success callback: ask
\* the update server, ask the user, show the download dialog.
OnOnlineUpdate ==
    /\ modal = "none"
    /\ \/ /\ Input /\ tray = "connected" /\ UNCHANGED posted
       \/ /\ Pumping /\ "ID_ONLINE_UPDATE" \in posted
          /\ posted' = posted \ {"ID_ONLINE_UPDATE"}
    /\ modal' = "update"
    /\ UNCHANGED <<ptrs, state, mem, gui, task, lis, wins, proc, hist>>

\* The posted update command reaches the login dialog through the message
\* loop of another dialog: the update runs on top of it, to either end.
NestedOnlineUpdate ==
    /\ Pumping /\ modal # "none" /\ "ID_ONLINE_UPDATE" \in posted
    /\ posted' = posted \ {"ID_ONLINE_UPDATE"}
    /\ \/ UNCHANGED <<ptrs, state, mem, gui, task, lis, wins, proc, hist>>
       \/ CallLogout("exit")
    /\ UNCHANGED modal

\* Nothing to update, the user declines, or the download ends and the program
\* disconnects and makes way for the new version.
EndOnlineUpdate ==
    /\ Input /\ modal = "update"
    /\ modal' = "none"
    /\ \/ UNCHANGED <<ptrs, state, mem, gui, task, posted, lis, wins, proc, hist>>
       \/ CallLogout("exit") /\ UNCHANGED posted

\* The "check the cable" box of OnConnect's catch is answered: Logout.
CableBoxClosed ==
    /\ Input /\ modal = "cable"
    /\ modal' = "none"
    /\ CallLogout("cable")
    /\ UNCHANGED posted

-----------------------------------------------------------------------------
(* GUI thread: Login, one step per access to a shared global                *)

\* An exception out of Login: the catch of OnConnect shows a message box.
LoginThrows ==
    /\ gui' = "idle" /\ modal' = "cable"
    /\ UNCHANGED <<task, posted>>

GuiGoes(pc) ==
    /\ gui' = pc
    /\ UNCHANGED <<task, modal, posted>>

\* io = new ll_802_3(eth_if), which throws when the adapter does not open.
LoginOpen ==
    /\ GuiAt("login_open")
    /\ \/ /\ io' = logins /\ ioMem' = ioMem \cup {logins}
          /\ GuiGoes("login_setup")
       \/ LoginThrows /\ UNCHANGED <<io, ioMem>>
    /\ UNCHANGED <<auth, hThread, state, authMem, lis, wins, proc, hist>>

\* io->setup_output()
LoginSetup ==
    /\ GuiAt("login_setup")
    /\ \/ /\ IoUsable /\ GuiGoes("login_auth")
          /\ UNCHANGED <<ptrs, state, mem, lis, wins, proc, hist>>
       \/ ~IoUsable /\ Corrupt

\* auth = new eap()
LoginAuth ==
    /\ GuiAt("login_auth")
    /\ auth' = logins /\ authMem' = authMem \cup {logins}
    /\ GuiGoes("login_handlers")
    /\ UNCHANGED <<io, hThread, state, ioMem, lis, wins, proc, hist>>

\* auth->add_handler(...), three times
LoginHandlers ==
    /\ GuiAt("login_handlers")
    /\ \/ /\ AuthUsable /\ GuiGoes("login_start")
          /\ UNCHANGED <<ptrs, state, mem, lis, wins, proc, hist>>
       \/ ~AuthUsable /\ Corrupt

\* io->make_eapol(start); io->send(), which throws when the link is down.
LoginStart ==
    /\ GuiAt("login_start")
    /\ \/ /\ IoUsable /\ (GuiGoes("login_thread") \/ LoginThrows)
          /\ UNCHANGED <<ptrs, state, mem, lis, wins, proc, hist>>
       \/ ~IoUsable /\ Corrupt

\* StartListener: CreateThread, which can fail; VERIFY ignores that.
LoginThread ==
    /\ GuiAt("login_thread")
    /\ \/ lis' = [lis EXCEPT ![logins] = "receive"]
       \/ UNCHANGED lis
    /\ GuiGoes("login_handle")
    /\ UNCHANGED <<ptrs, state, mem, wins, proc, hist>>

\* hThread = the handle CreateThread returned
LoginHandle ==
    /\ GuiAt("login_handle")
    /\ hThread' = IF lis[logins] = "none" THEN Null ELSE logins
    /\ GuiGoes("connect_ui")
    /\ UNCHANGED <<auth, io, state, mem, lis, wins, proc, hist>>

\* The end of OnConnect: the connecting dialog replaces the login dialog.
ConnectUi ==
    /\ GuiAt("connect_ui")
    /\ shown' = {"connecting"} /\ UNCHANGED tray
    /\ GuiGoes("idle")
    /\ UNCHANGED <<ptrs, state, mem, lis, proc, hist>>

-----------------------------------------------------------------------------
(* GUI thread: Logout                                                       *)

\* Mutant of StopListenerCheck: the listener is not stopped before the logoff.
StopListenerSkip ==
    /\ GuiAt("out_check")
    /\ GuiGoes("out_logoff")
    /\ UNCHANGED <<ptrs, state, mem, lis, wins, proc, hist>>

\* StopListener: if (hThread)
StopListenerCheck ==
    /\ GuiAt("out_check")
    /\ GuiGoes(IF hThread = Null THEN "out_logoff" ELSE "out_kill")
    /\ UNCHANGED <<ptrs, state, mem, lis, wins, proc, hist>>

\* Mutant of StopListenerKill: the GUI thread polls until the listener has
\* ended by itself.
StopListenerPoll ==
    /\ GuiAt("out_kill")
    /\ GuiGoes(IF hThread = Null THEN "out_logoff" ELSE "out_check")
    /\ UNCHANGED <<ptrs, state, mem, lis, wins, proc, hist>>

\* TerminateThread(hThread) and the wait for its end.  A handle that became
\* NULL since the check makes it fail: fatal error box and exit(0).
StopListenerKill ==
    /\ GuiAt("out_kill")
    /\ \/ /\ hThread # Null
          /\ lis' = [lis EXCEPT ![hThread] = "killed"]
          /\ GuiGoes("out_logoff")
          /\ UNCHANGED <<ptrs, state, mem, wins, proc, hist>>
       \/ /\ hThread = Null
          /\ proc' = "aborted"
          /\ UNCHANGED <<ptrs, state, mem, guiVs, lis, wins, hist>>

\* if (io) send EAPOL-Logoff, errors swallowed; state = UNCONNECTED
StopListenerLogoff ==
    /\ GuiAt("out_logoff")
    /\ \/ /\ io = Null \/ IoUsable
          /\ \/ io # Null /\ loggedOff' = loggedOff \cup {io}
             \/ UNCHANGED loggedOff
          /\ state' = "UNCONNECTED"
          /\ GuiGoes("out_auth")
          /\ UNCHANGED <<ptrs, mem, lis, wins, proc, logins, ret, authOk, raced>>
       \/ ~(io = Null \/ IoUsable) /\ Corrupt

\* Mutant of LogoutAuth: the wrong object is deleted.
LogoutAuthDeletesIo ==
    /\ GuiAt("out_auth")
    /\ ioMem' = ioMem \ {io} /\ auth' = Null
    /\ GuiGoes("out_io")
    /\ UNCHANGED <<io, hThread, state, authMem, lis, wins, proc, hist>>

\* delete auth; auth = NULL
LogoutAuth ==
    /\ GuiAt("out_auth")
    /\ \/ /\ Deletable(auth, authMem)
          /\ authMem' = authMem \ {auth} /\ auth' = Null
          /\ GuiGoes("out_io")
          /\ UNCHANGED <<io, hThread, state, ioMem, lis, wins, proc, hist>>
       \/ ~Deletable(auth, authMem) /\ Corrupt

\* Mutant of LogoutIo: the handle of the dead thread is kept.
LogoutIoKeepsHandle ==
    /\ GuiAt("out_io")
    /\ \/ /\ Deletable(io, ioMem)
          /\ ioMem' = ioMem \ {io} /\ io' = Null
          /\ GuiGoes("out_ui")
          /\ UNCHANGED <<auth, hThread, state, authMem, lis, wins, proc, hist>>
       \/ ~Deletable(io, ioMem) /\ Corrupt

\* delete io; io = NULL; hThread = NULL
LogoutIo ==
    /\ GuiAt("out_io")
    /\ \/ /\ Deletable(io, ioMem)
          /\ ioMem' = ioMem \ {io} /\ io' = Null /\ hThread' = Null
          /\ GuiGoes("out_ui")
          /\ UNCHANGED <<auth, state, authMem, lis, wins, proc, hist>>
       \/ ~Deletable(io, ioMem) /\ Corrupt

\* What the caller of Logout does next: nothing in OnConnect's catch;
\* OnDisconnect resets the tray and shows the login dialog; the connecting
\* dialog's Cancel then hides that dialog; exit destroys the main window.
LogoutUi ==
    /\ GuiAt("out_ui")
    /\ \/ task = "cable" /\ UNCHANGED wins
       \/ /\ task # "cable"
          /\ tray' = "reset"
          /\ shown' = {"login"} \cup
                      (IF task = "cancel" THEN shown \ {"connecting"} ELSE shown)
    /\ proc' = IF task = "exit" THEN "exited" ELSE proc
    /\ gui' = "idle" /\ task' = "none"
    /\ UNCHANGED <<modal, posted, ptrs, state, mem, lis, hist>>

-----------------------------------------------------------------------------
(* Listener thread s                                                        *)

ListenerAt(s, pc) == Running /\ lis[s] = pc

ListenerGoes(s, pc) == lis' = [lis EXCEPT ![s] = pc]

\* The listener's step is a window call on the GUI thread's windows.
WindowCall(s, pc) == ListenerAt(s, pc) /\ Pumping

\* Mutant of RetCont: a re-authentication is taken for a first one.
RetContAfresh(s) ==
    /\ ret' = [ret EXCEPT ![s] = "cont"]
    /\ ListenerGoes(s, "reqid_cb")
    /\ UNCHANGED <<authOk, state>>

\* ret_cont: a request was answered.
RetCont(s) ==
    /\ ret' = [ret EXCEPT ![s] = "cont"]
    /\ \/ /\ state \in {"CONNECTED", "RECONNECTING"}
          /\ state' = "RECONNECTING"
          /\ ListenerGoes(s, "send")
       \/ /\ state \in {"UNCONNECTED", "CONNECTING"}
          /\ ListenerGoes(s, "reqid_cb")
          /\ UNCHANGED state
    /\ UNCHANGED authOk

\* Mutant of RetOk: the success callback runs in every state.
RetOkUnchecked(s) ==
    /\ ret' = [ret EXCEPT ![s] = "ok"]
    /\ authOk' = IF ret[s] = "cont" THEN authOk \cup {s} ELSE authOk
    /\ ListenerGoes(s, "succ_text")
    /\ UNCHANGED state

\* Mutant of RetOk: a re-authentication runs the success callback again.
RetOkReconnecting(s) ==
    /\ ret' = [ret EXCEPT ![s] = "ok"]
    /\ authOk' = IF ret[s] = "cont" THEN authOk \cup {s} ELSE authOk
    /\ \/ /\ state \in {"CONNECTING", "RECONNECTING"}
          /\ ListenerGoes(s, "succ_text")
       \/ /\ state \notin {"CONNECTING", "RECONNECTING"}
          /\ UNCHANGED lis
    /\ UNCHANGED state

\* ret_ok: only a CONNECTING session takes notice.
RetOk(s) ==
    /\ ret' = [ret EXCEPT ![s] = "ok"]
    /\ authOk' = IF ret[s] = "cont" THEN authOk \cup {s} ELSE authOk
    /\ \/ state = "CONNECTING" /\ ListenerGoes(s, "succ_text")
       \/ state # "CONNECTING" /\ UNCHANGED lis
    /\ UNCHANGED state

\* ret_fail: the failure callback begins, with a message box in two states.
RetFail(s) ==
    /\ ret' = [ret EXCEPT ![s] = "fail"]
    /\ ListenerGoes(s, IF state \in {"CONNECTING", "CONNECTED"}
                       THEN "fail_box" ELSE "fail_hide")
    /\ UNCHANGED <<authOk, state>>

\* io->receive, the EAPOL type switch and auth->process.  Frames that are
\* not EAP packets, EAP responses and unknown codes are dropped, and so is a
\* receive timeout: the listener stays in receive.
Receive(s) ==
    /\ ListenerAt(s, "receive")
    /\ \/ ~(IoUsable /\ AuthUsable) /\ Corrupt
       \/ /\ IoUsable /\ AuthUsable
          /\ RetCont(s) \/ RetOk(s) \/ RetFail(s)
          /\ UNCHANGED <<ptrs, mem, guiVs, wins, proc, logins, loggedOff, raced>>

\* EAP_REQUEST_ID: connDlg->SetDlgItemText
RequestIdCallback(s) ==
    /\ WindowCall(s, "reqid_cb")
    /\ ListenerGoes(s, "set_connecting")
    /\ UNCHANGED <<ptrs, state, mem, guiVs, wins, proc, hist>>

SetConnecting(s) ==
    /\ ListenerAt(s, "set_connecting")
    /\ state' = "CONNECTING"
    /\ ListenerGoes(s, "send")
    /\ UNCHANGED <<ptrs, mem, guiVs, wins, proc, hist>>

\* io->make_eapol(pckt); io->send().  No handler catches the exception a
\* failed send throws on this thread: the process ends.
SendResponse(s) ==
    /\ ListenerAt(s, "send")
    /\ \/ ~IoUsable /\ Corrupt
       \/ /\ IoUsable
          /\ \/ ListenerGoes(s, "receive") /\ UNCHANGED proc
             \/ proc' = "crashed" /\ UNCHANGED lis
          /\ UNCHANGED <<ptrs, state, mem, guiVs, wins, hist>>

\* EAP_SUCCESS: SetDlgItemText, DHCP, version check (which may post the
\* update command), Sleep(500)
SuccessText(s) ==
    /\ WindowCall(s, "succ_text")
    /\ \/ posted' = posted \cup {"ID_ONLINE_UPDATE"}
       \/ UNCHANGED posted
    /\ ListenerGoes(s, "succ_tray")
    /\ UNCHANGED <<ptrs, state, mem, gui, task, modal, wins, proc, hist>>

\* Mutant of SuccessTray: the tray icon gets no callback message.
SuccessTrayNoMsg(s) ==
    /\ ListenerAt(s, "succ_tray")
    /\ ListenerGoes(s, "succ_hide")
    /\ UNCHANGED <<ptrs, state, mem, guiVs, wins, proc, hist>>

\* m_wndTrayIcon.SetTrayMsg, SetTrayIcon, SetTrayText
SuccessTray(s) ==
    /\ ListenerAt(s, "succ_tray")
    /\ tray' = "connected"
    /\ ListenerGoes(s, "succ_hide")
    /\ UNCHANGED <<ptrs, state, mem, guiVs, shown, proc, hist>>

SuccessHide(s) ==
    /\ WindowCall(s, "succ_hide")
    /\ shown' = shown \ {"connecting"}
    /\ ListenerGoes(s, "set_connected")
    /\ UNCHANGED <<ptrs, state, mem, guiVs, tray, proc, hist>>

SetConnected(s) ==
    /\ ListenerAt(s, "set_connected")
    /\ state' = "CONNECTED"
    /\ ListenerGoes(s, "receive")
    /\ UNCHANGED <<ptrs, mem, guiVs, wins, proc, hist>>

\* EAP_FAIL: the user answers the listener's own message box.
FailBox(s) ==
    /\ ListenerAt(s, "fail_box")
    /\ ListenerGoes(s, "fail_hide")
    /\ UNCHANGED <<ptrs, state, mem, guiVs, wins, proc, hist>>

FailHide(s) ==
    /\ WindowCall(s, "fail_hide")
    /\ shown' = shown \ {"connecting"}
    /\ ListenerGoes(s, "fail_show")
    /\ UNCHANGED <<ptrs, state, mem, guiVs, tray, proc, hist>>

\* Mutant of FailShow: the connecting dialog is shown, not the login dialog.
FailShowWrongDlg(s) ==
    /\ WindowCall(s, "fail_show")
    /\ shown' = shown \cup {"connecting"}
    /\ ListenerGoes(s, "fail_tray")
    /\ UNCHANGED <<ptrs, state, mem, guiVs, tray, proc, hist>>

FailShow(s) ==
    /\ WindowCall(s, "fail_show")
    /\ shown' = shown \cup {"login"}
    /\ ListenerGoes(s, "fail_tray")
    /\ UNCHANGED <<ptrs, state, mem, guiVs, tray, proc, hist>>

FailTray(s) ==
    /\ ListenerAt(s, "fail_tray")
    /\ tray' = "reset"
    /\ ListenerGoes(s, "set_unconnected")
    /\ UNCHANGED <<ptrs, state, mem, guiVs, shown, proc, hist>>

SetUnconnected(s) ==
    /\ ListenerAt(s, "set_unconnected")
    /\ state' = "UNCONNECTED"
    /\ ListenerGoes(s, "del_auth")
    /\ UNCHANGED <<ptrs, mem, guiVs, wins, proc, hist>>

\* Exit: delete auth; delete io; auth = NULL; io = NULL; hThread = NULL
ExitDeleteAuth(s) ==
    /\ ListenerAt(s, "del_auth")
    /\ \/ /\ Deletable(auth, authMem)
          /\ authMem' = authMem \ {auth}
          /\ ListenerGoes(s, "del_io")
          /\ UNCHANGED <<ptrs, state, ioMem, guiVs, wins, proc, hist>>
       \/ ~Deletable(auth, authMem) /\ Corrupt

ExitDeleteIo(s) ==
    /\ ListenerAt(s, "del_io")
    /\ \/ /\ Deletable(io, ioMem)
          /\ ioMem' = ioMem \ {io}
          /\ ListenerGoes(s, "null_auth")
          /\ UNCHANGED <<ptrs, state, authMem, guiVs, wins, proc, hist>>
       \/ ~Deletable(io, ioMem) /\ Corrupt

ExitNullAuth(s) ==
    /\ ListenerAt(s, "null_auth")
    /\ auth' = Null
    /\ ListenerGoes(s, "null_io")
    /\ UNCHANGED <<io, hThread, state, mem, guiVs, wins, proc, hist>>

ExitNullIo(s) ==
    /\ ListenerAt(s, "null_io")
    /\ io' = Null
    /\ ListenerGoes(s, "null_thread")
    /\ UNCHANGED <<auth, hThread, state, mem, guiVs, wins, proc, hist>>

ExitNullThread(s) ==
    /\ ListenerAt(s, "null_thread")
    /\ hThread' = Null
    /\ ListenerGoes(s, "ended")
    /\ UNCHANGED <<auth, io, state, mem, guiVs, wins, proc, hist>>

-----------------------------------------------------------------------------

UserCommand ==
    \/ OnConnect \/ OpenDialog \/ OnDisplayConnection \/ CloseDialog
    \/ ConnectionDlgDisconnect \/ TrayDisconnect \/ CancelConnecting
    \/ IdleTimeout \/ OnCancel \/ ConfirmExit \/ EndOnlineUpdate
    \/ CableBoxClosed

PostedCommand == PostedDisconnect \/ OnOnlineUpdate \/ NestedOnlineUpdate

LoginStep ==
    \/ LoginOpen \/ LoginSetup \/ LoginAuth \/ LoginHandlers \/ LoginStart
    \/ LoginThread \/ LoginHandle \/ ConnectUi

LogoutStep ==
    \/ StopListenerCheck \/ StopListenerKill \/ StopListenerLogoff
    \/ LogoutAuth \/ LogoutIo \/ LogoutUi

\* What a listener does once a frame has arrived.
ListenerStep(s) ==
    \/ RequestIdCallback(s) \/ SetConnecting(s) \/ SendResponse(s)
    \/ SuccessText(s) \/ SuccessTray(s) \/ SuccessHide(s) \/ SetConnected(s)
    \/ FailBox(s) \/ FailHide(s) \/ FailShow(s) \/ FailTray(s)
    \/ SetUnconnected(s) \/ ExitDeleteAuth(s) \/ ExitDeleteIo(s)
    \/ ExitNullAuth(s) \/ ExitNullIo(s) \/ ExitNullThread(s)

\* The process is gone.
Gone == ~Running /\ UNCHANGED vars

Next ==
    \/ UserCommand \/ PostedCommand \/ LoginStep \/ LogoutStep
    \/ \E s \in Sessions : Receive(s) \/ ListenerStep(s)
    \/ Gone

Spec == Init /\ [][Next]_vars

-----------------------------------------------------------------------------
(* Fairness: both threads are scheduled, posted messages are dispatched and *)
(* the user answers the failure message box.  Nothing is assumed of the     *)
(* network, of the other user commands or of the idle timer.                *)

Fairness ==
    /\ WF_vars(LoginStep)
    /\ WF_vars(LogoutStep)
    /\ WF_vars(PostedCommand)
    /\ \A s \in Sessions : WF_vars(ListenerStep(s))

FairSpec == Spec /\ Fairness

-----------------------------------------------------------------------------
(* Properties                                                               *)

\* The unlocked globals auth, io and hThread (EAP-DLL.cpp 101-168) are used
\* after free, freed twice, dereferenced while NULL, or make TerminateThread
\* fail, only if Login or Logout began between the failure callback's
\* ShowWindow (EapEventHandler.cpp:79) and the listener's last assignment
\* (EAP-DLL.cpp:255).  Every other interleaving of the two threads, with
\* TerminateThread at any point of the listener, is safe.
FaultsNeedRace == proc \in {"corrupt", "aborted"} => raced # {}

\* Whenever the GUI is back in a message loop with no session (no io) and no
\* listener on its way out, the whole process agrees: no engine, no thread
\* handle, no leaked adapter, the state is UNCONNECTED, the tray is reset and
\* the login dialog shows (OnDisconnect, the catch of OnConnect and the failure
\* exit all lead here), whatever commands are posted and whatever dialog or
\* message box is open.
NoSessionIsClean ==
    Pumping /\ io = Null /\ Exiting = {} /\ raced = {}
    => /\ auth = Null /\ hThread = Null /\ authMem = {} /\ ioMem = {}
       /\ \A s \in Sessions : lis[s] \in Resting
       /\ state = "UNCONNECTED" /\ tray = "reset"
       /\ "login" \in shown

\* A session the server has not ended can always be ended by the user: the
\* connecting dialog with its Cancel or the tray menu is there, also in the
\* middle of the success callback that swaps one for the other.
UserCanDisconnect ==
    Pumping /\ io # Null /\ modal # "cable" /\ raced = {} /\ ret[io] # "fail"
    => "connecting" \in shown \/ tray = "connected"

\* GetCurConState reports a connection only for a session whose server sent
\* EAP success after a request of its was answered, although the listener
\* assigns the state after a callback of half a second and more
\* (EAP-DLL.cpp:215-216).
ConnectedIsAuthenticated ==
    state \in {"CONNECTED", "RECONNECTING"} /\ raced = {} => logins \in authOk

\* CONNECTED is entered from CONNECTING alone: a listener in the middle of the
\* success callback cannot bring back a session that Logout has just set to
\* UNCONNECTED, and a re-authentication does not run that callback (with its
\* DHCP request) again ("Do not handle reconnecting here", EAP-DLL.cpp:214).
ConnectedFromConnecting ==
    [][state' = "CONNECTED" /\ state # "CONNECTED" /\ raced = {}
       => state = "CONNECTING"]_vars

\* Once EAPOL-Logoff has been sent for a session, its listener does nothing
\* more: no late answer to a request re-opens the port after the logoff
\* (StopListener terminates the thread first, EAP-DLL.cpp:274-285).
LogoffIsLast ==
    \A s \in loggedOff : lis[s] \in Resting \/ raced # {}

\* Logout returns: the GUI thread's wait for the listener (EAP-DLL.cpp:279)
\* never deadlocks with a listener that waits for the GUI thread's windows.
LogoutReturns == gui \in LogoutPcs ~> (gui = "idle" \/ ~Running)

\* A failure the server sends brings the user back to the login dialog.
FailureReachesUser ==
    \A s \in Sessions :
        lis[s] \in {"fail_box", "fail_hide", "fail_show"}
        ~> ("login" \in shown \/ ~Running)

\* The session that has come to its end, until its adapter is closed: its
\* logoff is sent, or its listener has set the state and not yet deleted io.
Ending ==
    IF \/ gui \in {"out_auth", "out_io"}
       \/ \E s \in Sessions : lis[s] \in {"del_auth", "del_io"}
    THEN ioMem ELSE {}

life == INSTANCE SessionLife WITH
    open <- ioMem, leaving <- Ending, accepted <- authOk,
    overtaken <- raced # {}

\* Two threads over four unlocked globals implement the life of one session at
\* a time (SessionLife), as long as none is overtaken in its exit window: what
\* GetCurConState reports belongs to the session whose adapter is open, and no
\* late assignment of a listener outlives it (EAP-DLL.cpp 172-257, 313-361).
ImplementsLife == life!Spec

\* Login's ASSERT(!auth && !io), "Make sure they both NULL" (EAP-DLL.cpp:322).
LoginFindsNoSession == gui = "login_open" => auth = Null /\ io = Null

\* Exit on a connected network is "disconnect and exit" (Supplicant.rc:369):
\* no connected session, re-authenticating or not, is left without Logout
\* when the process is gone.
ExitDisconnects ==
    proc = "exited" /\ io # Null => state \notin {"CONNECTED", "RECONNECTING"}

-----------------------------------------------------------------------------
(* The inductive invariant behind FaultsNeedRace.  Without a race there is  *)
(* at most one listener, that of the last session, and who owns the two     *)
(* objects is determined by where the two threads are.                      *)

Empty  == auth = Null /\ io = Null /\ authMem = {} /\ ioMem = {}
IoOnly == auth = Null /\ io = logins /\ authMem = {} /\ ioMem = {logins}
Both   == auth = logins /\ io = logins /\ authMem = {logins} /\ ioMem = {logins}

AllResting == \A s \in Sessions : lis[s] \in Resting

\* Only the last session's thread can be alive.
OneListener ==
    /\ \A s \in Sessions : s # logins => lis[s] \in Resting
    /\ \A s \in Sessions : s > logins => lis[s] = "none"

\* A live listener finds its session, at every line it can be at.
ListenerOwns ==
    \A s \in Sessions : lis[s] \notin Resting =>
        /\ gui \in {"idle", "login_handle", "connect_ui", "out_check", "out_kill"}
        /\ hThread = s \/ (gui = "login_handle" /\ hThread = Null)
        /\ lis[s] \in ExitWindow => gui = "idle"
        /\ lis[s] = "del_io" =>
              auth = s /\ io = s /\ authMem = {} /\ ioMem = {s}
        /\ lis[s] = "null_auth" =>
              auth = s /\ io = s /\ authMem = {} /\ ioMem = {}
        /\ lis[s] = "null_io" =>
              auth = Null /\ io = s /\ authMem = {} /\ ioMem = {}
        /\ lis[s] = "null_thread" => Empty
        /\ lis[s] \notin {"del_io", "null_auth", "null_io", "null_thread"} =>
              Both

\* With no live listener the GUI thread owns everything.
GuiOwns ==
    AllResting =>
        /\ hThread # Null => gui \in {"out_logoff", "out_auth", "out_io"}
        /\ gui # "out_kill"
        /\ gui \in {"login_open", "out_ui"} => Empty
        /\ gui \in {"login_setup", "login_auth"} => IoOnly
        /\ gui \in {"login_handlers", "login_start", "login_thread",
                    "login_handle", "connect_ui"} => Both
        /\ gui = "out_io" => Empty \/ IoOnly
        /\ gui \in {"idle", "out_check", "out_logoff", "out_auth"} =>
              Empty \/ Both

\* During Login the new session has a number: what type correctness rests on.
LoginNumbered == gui \in LoginPcs => logins \in Sessions

\* During Login the new session's thread has not been stopped.
LoginFresh ==
    gui \in LoginPcs =>
        /\ lis[logins] \notin {"ended", "killed"}
        /\ gui \notin {"login_handle", "connect_ui"} => lis[logins] = "none"

\* The Connect button can be pressed only over a session that is gone or
\* going.
LoginMeansNoSession ==
    gui = "idle" /\ "login" \in shown /\ modal # "cable" =>
        Exiting # {} \/ (AllResting /\ Empty)

IInv ==
    /\ TypeOK /\ LoginNumbered
    /\ FaultsNeedRace
    /\ raced = {} => /\ OneListener
                 /\ ListenerOwns
                 /\ GuiOwns
                 /\ LoginFresh
                 /\ LoginMeansNoSession

=============================================================================
