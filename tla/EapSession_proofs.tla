------------------------- MODULE EapSession_proofs --------------------------
(***************************************************************************)
(* Proofs about EapSession, for every number of logins.                    *)
(***************************************************************************)
EXTENDS EapSession, TLAPS

\* The definitions every step about a single action expands.
USE DEF Running, Pumping, GuiAt, Input, GuiGoes, ListenerAt, ListenerGoes,
        WindowCall, Corrupt, CallLogout, LoginThrows, ProcessExits,
        AuthUsable, IoUsable, Deletable, ptrs, mem, guiVs, wins, hist

-----------------------------------------------------------------------------
(* Type correctness                                                         *)

\* Type correctness needs one fact that is not a type: during Login the
\* session number is not 0.
TInv == TypeOK /\ LoginNumbered

\* The locations the listener's steps lead to.
LEMMA ListenLocations ==
    {"none", "ended", "killed", "receive", "reqid_cb", "set_connecting",
     "send", "succ_text", "succ_tray", "succ_hide", "set_connected",
     "fail_box", "fail_hide", "fail_show", "fail_tray", "set_unconnected",
     "del_auth", "del_io", "null_auth", "null_io", "null_thread"}
    \subseteq ListenPcs
  BY DEF ListenPcs, Resting, ExitWindow

\* The locations the GUI thread's steps lead to, those in Login apart.
LEMMA GuiLocations ==
    /\ LoginPcs \subseteq GuiPcs
    /\ {"idle", "out_check", "out_kill", "out_logoff", "out_auth", "out_io",
        "out_ui"} \subseteq GuiPcs \ LoginPcs
  BY DEF GuiPcs, LoginPcs, LogoutPcs

LEMMA PointerValues ==
    Null \in Pointers /\ Null \notin Sessions /\ Sessions \subseteq Pointers
  BY DEF Pointers, Sessions, Null

LEMMA TypeInit == Init => TInv
  BY MaxLoginsAssumption, PointerValues, GuiLocations, ListenLocations
  DEF Init, TInv, TypeOK, LoginNumbered, EAP_STATE

LEMMA TypeStep == TInv /\ [Next]_vars => TInv'
<1> SUFFICES ASSUME TInv, [Next]_vars PROVE TInv'
  OBVIOUS
<1> USE GuiLocations DEF TInv, TypeOK, LoginNumbered
<1>1. CASE UserCommand
  <2>1. CASE OnConnect
    <3>1. Exiting \subseteq Sessions
      BY DEF Exiting
    <3>2. logins' \in 0 .. MaxLogins /\ logins' \in Sessions
      BY <2>1, MaxLoginsAssumption DEF OnConnect, Sessions
    <3> QED
      BY <2>1, <3>1, <3>2 DEF OnConnect, LoginPcs
  <2>2. CASE OpenDialog \/ OnDisplayConnection \/ CloseDialog
             \/ ConnectionDlgDisconnect
    BY <2>2 DEF OpenDialog, OnDisplayConnection, CloseDialog,
                ConnectionDlgDisconnect
  <2>3. CASE TrayDisconnect \/ CancelConnecting \/ IdleTimeout
    BY <2>3 DEF TrayDisconnect, CancelConnecting, IdleTimeout, Exiting
  <2>4. CASE OnCancel
    BY <2>4 DEF OnCancel
  <2>5. CASE ConfirmExit \/ EndOnlineUpdate \/ CableBoxClosed
    BY <2>5 DEF ConfirmExit, EndOnlineUpdate, CableBoxClosed, Exiting
  <2> QED
    BY <1>1, <2>1, <2>2, <2>3, <2>4, <2>5 DEF UserCommand
<1>2. CASE PostedCommand
  BY <1>2 DEF PostedCommand, PostedDisconnect, OnOnlineUpdate,
              NestedOnlineUpdate, Exiting
<1>3. CASE LoginStep
  <2> USE PointerValues
  <2>1. CASE LoginOpen \/ LoginAuth
    BY <2>1 DEF LoginOpen, LoginAuth, LoginPcs
  <2>2. CASE LoginSetup \/ LoginHandlers \/ LoginStart
    BY <2>2 DEF LoginSetup, LoginHandlers, LoginStart, LoginPcs
  <2>3. CASE LoginThread
    <3>1. lis' \in [Sessions -> ListenPcs]
      BY <2>3, ListenLocations DEF LoginThread
    <3> QED
      BY <2>3, <3>1 DEF LoginThread, LoginPcs
  <2>4. CASE LoginHandle
    <3>1. hThread' \in Pointers
      BY <2>4 DEF LoginHandle, LoginPcs
    <3> QED
      BY <2>4, <3>1 DEF LoginHandle, LoginPcs
  <2>5. CASE ConnectUi
    <3>1. shown' \subseteq {"login", "connecting"}
      BY <2>5 DEF ConnectUi
    <3> QED
      BY <2>5, <3>1 DEF ConnectUi
  <2> QED
    BY <1>3, <2>1, <2>2, <2>3, <2>4, <2>5 DEF LoginStep
<1>4. CASE LogoutStep
  <2> USE PointerValues
  <2>1. CASE StopListenerCheck
    BY <2>1 DEF StopListenerCheck
  <2>2. CASE StopListenerKill
    <3>1. lis' \in [Sessions -> ListenPcs]
      BY <2>2, ListenLocations DEF StopListenerKill, Pointers
    <3> QED
      BY <2>2, <3>1 DEF StopListenerKill
  <2>3. CASE StopListenerLogoff
    <3>1. loggedOff' \subseteq Sessions /\ state' \in EAP_STATE
      BY <2>3 DEF StopListenerLogoff, Pointers, EAP_STATE
    <3> QED
      BY <2>3, <3>1 DEF StopListenerLogoff
  <2>4. CASE LogoutAuth \/ LogoutIo
    BY <2>4 DEF LogoutAuth, LogoutIo
  <2>5. CASE LogoutUi
    BY <2>5 DEF LogoutUi
  <2> QED
    BY <1>4, <2>1, <2>2, <2>3, <2>4, <2>5 DEF LogoutStep
<1>5. ASSUME NEW s \in Sessions, Receive(s)
      PROVE  TInv'
  <2>1. CASE Corrupt
    BY <2>1
  <2>2. CASE ~Corrupt
    <3>1. UNCHANGED <<ptrs, mem, guiVs, wins, proc, logins, loggedOff, raced>>
          /\ (RetCont(s) \/ RetOk(s) \/ RetFail(s))
      BY <1>5, <2>2 DEF Receive
    <3>2. lis' \in [Sessions -> ListenPcs]
      BY <3>1, ListenLocations DEF RetCont, RetOk, RetFail
    <3>3. ret' \in [Sessions -> {"none", "cont", "ok", "fail"}]
      BY <3>1 DEF RetCont, RetOk, RetFail
    <3>4. authOk' \subseteq Sessions /\ state' \in EAP_STATE
      BY <3>1 DEF RetCont, RetOk, RetFail, EAP_STATE
    <3> QED
      BY <3>1, <3>2, <3>3, <3>4
  <2> QED
    BY <2>1, <2>2
<1>6. ASSUME NEW s \in Sessions, ListenerStep(s)
      PROVE  TInv'
  <2>1. lis' \in [Sessions -> ListenPcs]
    <3>1. PICK pc \in ListenPcs : ListenerGoes(s, pc) \/ UNCHANGED lis
      BY <1>6, ListenLocations
      DEF ListenerStep, RequestIdCallback, SetConnecting, SendResponse,
          SuccessText, SuccessTray, SuccessHide, SetConnected, FailBox,
          FailHide, FailShow, FailTray, SetUnconnected, ExitDeleteAuth,
          ExitDeleteIo, ExitNullAuth, ExitNullIo, ExitNullThread
    <3> QED
      BY <3>1
  <2>2. CASE RequestIdCallback(s)
    BY <2>1, <2>2 DEF RequestIdCallback
  <2>3. CASE SetConnecting(s)
    BY <2>1, <2>3 DEF SetConnecting, EAP_STATE
  <2>4. CASE SendResponse(s)
    BY <2>1, <2>4 DEF SendResponse
  <2>5. CASE SuccessText(s)
    BY <2>1, <2>5 DEF SuccessText
  <2>6. CASE SuccessTray(s)
    BY <2>1, <2>6 DEF SuccessTray
  <2>7. CASE SuccessHide(s)
    BY <2>1, <2>7 DEF SuccessHide
  <2>8. CASE SetConnected(s)
    BY <2>1, <2>8 DEF SetConnected, EAP_STATE
  <2>9. CASE FailBox(s)
    BY <2>1, <2>9 DEF FailBox
  <2>10. CASE FailHide(s)
    BY <2>1, <2>10 DEF FailHide
  <2>11. CASE FailShow(s)
    BY <2>1, <2>11 DEF FailShow
  <2>12. CASE FailTray(s)
    BY <2>1, <2>12 DEF FailTray
  <2>13. CASE SetUnconnected(s)
    BY <2>1, <2>13 DEF SetUnconnected, EAP_STATE
  <2>14. CASE ExitDeleteAuth(s)
    BY <2>1, <2>14 DEF ExitDeleteAuth
  <2>15. CASE ExitDeleteIo(s)
    BY <2>1, <2>15 DEF ExitDeleteIo
  <2>16. CASE ExitNullAuth(s)
    BY <2>1, <2>16, PointerValues DEF ExitNullAuth
  <2>17. CASE ExitNullIo(s)
    BY <2>1, <2>17, PointerValues DEF ExitNullIo
  <2>18. CASE ExitNullThread(s)
    BY <2>1, <2>18, PointerValues DEF ExitNullThread
  <2> QED
    BY <1>6, <2>2, <2>3, <2>4, <2>5, <2>6, <2>7, <2>8, <2>9,
       <2>10, <2>11, <2>12, <2>13, <2>14, <2>15, <2>16, <2>17, <2>18
    DEF ListenerStep
<1>7. CASE UNCHANGED vars
  BY <1>7 DEF vars
<1> QED
  BY <1>1, <1>2, <1>3, <1>4, <1>5, <1>6, <1>7 DEF Next, Gone

\* Every reachable state of EapSession is well typed, whatever MaxLogins is.
THEOREM TypeCorrect == Spec => []TypeOK
<1>1. TInv => TypeOK
  BY DEF TInv
<1> QED
  BY TypeInit, TypeStep, <1>1, PTL DEF Spec

-----------------------------------------------------------------------------
(* Memory safety without a race: FaultsNeedRace.                            *)
(*                                                                          *)
(* FaultsNeedRace is not inductive: that a pointer is usable depends on who *)
(* owns the session.  Owned says so; IInv is Owned wherever no race has     *)
(* happened, and is preserved action by action.                             *)

Owned ==
    /\ OneListener
    /\ ListenerOwns
    /\ GuiOwns
    /\ LoginFresh
    /\ LoginMeansNoSession

NoFault == proc \notin {"corrupt", "aborted"}

\* A live listener is the last session's, and the only live one.
LEMMA LoneListener ==
    ASSUME TypeOK, OneListener, NEW s \in Sessions, lis[s] \notin Resting
    PROVE  /\ s = logins
           /\ ~AllResting
           /\ \A t \in Sessions : t # s => lis[t] \in Resting
  BY DEF OneListener, AllResting, TypeOK

LEMMA Disjoint ==
    /\ Resting \cap ExitWindow = {}
    /\ {"receive", "reqid_cb", "set_connecting", "send", "succ_text",
        "succ_tray", "succ_hide", "set_connected", "fail_box", "fail_hide",
        "fail_show"} \cap (Resting \cup ExitWindow) = {}
    /\ {"fail_tray", "set_unconnected", "del_auth", "del_io", "null_auth",
        "null_io", "null_thread"} \subseteq ExitWindow
    /\ {"none", "ended", "killed"} = Resting
  BY DEF Resting, ExitWindow

\* A listener that is not yet in its exit window owns the session, finds both
\* objects usable, and the Connect button is out of reach.
LEMMA BusyListener ==
    ASSUME TypeOK, Owned, NEW s \in Sessions, lis[s] \notin Resting,
           lis[s] \notin ExitWindow
    PROVE  /\ Both /\ s = logins
           /\ AuthUsable /\ IoUsable
           /\ Exiting = {}
           /\ ~(gui = "idle" /\ "login" \in shown /\ modal # "cable")
<1>1. /\ s = logins /\ ~AllResting
      /\ \A t \in Sessions : t # s => lis[t] \in Resting
  BY LoneListener DEF Owned
<1>2. Both
  BY <1>1, Disjoint DEF Owned, ListenerOwns
<1>3. Exiting = {}
  BY <1>1, Disjoint DEF Exiting
<1> QED
  BY <1>1, <1>2, <1>3 DEF Owned, LoginMeansNoSession, Both

\* Such a listener moves on to another such place and leaves the objects, the
\* GUI thread and the login dialog alone.
LEMMA BusyListenerMoves ==
    ASSUME TypeOK, TypeOK', Owned, NEW s \in Sessions,
           lis[s] \notin Resting, lis[s] \notin ExitWindow,
           NEW pc \in ListenPcs \ (Resting \cup ExitWindow),
           lis' = [lis EXCEPT ![s] = pc] \/ UNCHANGED lis,
           UNCHANGED <<ptrs, mem, gui, modal, logins>>,
           "login" \in shown' => "login" \in shown
    PROVE  Owned'
<1>1. /\ Both /\ s = logins /\ Exiting = {}
      /\ ~(gui = "idle" /\ "login" \in shown /\ modal # "cable")
  BY BusyListener
<1>2. /\ lis'[s] \notin Resting /\ lis'[s] \notin ExitWindow
      /\ \A t \in Sessions : t # s => lis'[t] = lis[t] /\ lis[t] \in Resting
  BY LoneListener DEF Owned, TypeOK
<1>3. OneListener'
  BY <1>1, <1>2, MaxLoginsAssumption DEF Owned, OneListener, Sessions
<1>4. ListenerOwns'
  <2>1. Both'
    BY <1>1 DEF Both
  <2>2. /\ gui' \in {"idle", "login_handle", "connect_ui", "out_check", "out_kill"}
        /\ hThread' = s \/ (gui' = "login_handle" /\ hThread' = Null)
    BY DEF Owned, ListenerOwns
  <2> QED
    BY <1>2, <2>1, <2>2, Disjoint DEF ListenerOwns
<1>5. ~AllResting'
  BY <1>2 DEF AllResting
<1>6. LoginFresh'
  BY <1>1, <1>2, Disjoint DEF Owned, LoginFresh
<1>7. LoginMeansNoSession'
  BY <1>1 DEF LoginMeansNoSession
<1> QED
  BY <1>3, <1>4, <1>5, <1>6, <1>7 DEF Owned, GuiOwns

\* The GUI thread stays in its message loop and at most changes the dialog.
LEMMA DialogMoves ==
    ASSUME Owned, UNCHANGED <<ptrs, mem, gui, lis, logins, shown>>,
           modal = "cable" => modal' = "cable"
    PROVE  Owned'
  BY DEF Owned, OneListener, ListenerOwns, GuiOwns, LoginFresh,
         LoginMeansNoSession, AllResting, Exiting, Empty, IoOnly, Both

\* Logout is called while no listener is in its exit window.
LEMMA LogoutBegins ==
    ASSUME Owned, gui = "idle", gui' = "out_check", Exiting = {},
           UNCHANGED <<ptrs, mem, lis, logins>>
    PROVE  Owned'
<1>1. OneListener'
  BY DEF Owned, OneListener
<1>2. ListenerOwns'
  BY DEF Owned, ListenerOwns, Exiting, Empty, Both
<1>3. GuiOwns'
  BY DEF Owned, GuiOwns, AllResting, Empty, Both
<1>4. LoginFresh' /\ LoginMeansNoSession'
  BY DEF LoginFresh, LoginMeansNoSession, LoginPcs
<1> QED
  BY <1>1, <1>2, <1>3, <1>4 DEF Owned

\* The user's and the posted commands.
LEMMA OwnedCommand ==
    ASSUME TypeOK, Owned, raced = {}, raced' = {}, NoFault,
           UserCommand \/ PostedCommand
    PROVE  Owned' /\ NoFault'
<1> USE DEF NoFault
<1>1. CASE OnConnect
  <2>1. Exiting = {}
    BY <1>1 DEF OnConnect
  <2>2. AllResting /\ Empty /\ hThread = Null
    BY <1>1, <2>1 DEF OnConnect, Owned, LoginMeansNoSession, GuiOwns
  <2>3. \A s \in Sessions : s # logins' => lis[s] \in Resting
    BY <2>2 DEF AllResting
  <2>4. \A s \in Sessions : s >= logins' => lis[s] = "none"
    BY <1>1, MaxLoginsAssumption
    DEF Owned, OneListener, OnConnect, TypeOK, Sessions
  <2>5. OneListener'
    BY <1>1, <2>3, <2>4, MaxLoginsAssumption
    DEF OnConnect, OneListener, Sessions, TypeOK
  <2>6. ListenerOwns' /\ GuiOwns'
    BY <1>1, <2>2 DEF OnConnect, ListenerOwns, GuiOwns, AllResting, Empty
  <2>7. lis[logins'] = "none"
    BY <1>1, <2>4, MaxLoginsAssumption DEF OnConnect, Sessions, TypeOK
  <2>8. LoginFresh' /\ LoginMeansNoSession'
    BY <1>1, <2>7 DEF OnConnect, LoginFresh, LoginMeansNoSession
  <2> QED
    BY <1>1, <2>5, <2>6, <2>8 DEF OnConnect, Owned
<1>2. CASE /\ UNCHANGED <<ptrs, mem, gui, lis, logins, shown>>
           /\ modal = "cable" => modal' = "cable"
           /\ proc' \in {proc, "exited"}
  BY <1>2, DialogMoves
<1>3. CASE \E t : Pumping /\ CallLogout(t)
  <2>1. Exiting = {}
    BY <1>3
  <2> QED
    BY <1>3, <2>1, LogoutBegins
<1> QED
  BY <1>1, <1>2, <1>3
  DEF UserCommand, PostedCommand, OpenDialog, OnDisplayConnection, CloseDialog,
      ConnectionDlgDisconnect, TrayDisconnect, CancelConnecting, IdleTimeout,
      OnCancel, ConfirmExit, EndOnlineUpdate, CableBoxClosed,
      PostedDisconnect, OnOnlineUpdate, NestedOnlineUpdate

\* During Login, up to the creation of the thread, nobody else is alive.
LEMMA LoginAlone ==
    ASSUME TInv, Owned, gui \in LoginPcs \ {"login_handle", "connect_ui"}
    PROVE  AllResting /\ logins \in Sessions /\ lis[logins] = "none"
<1>1. logins \in Sessions /\ lis[logins] = "none"
  BY DEF TInv, LoginNumbered, Owned, LoginFresh
<1> QED
  BY <1>1, Disjoint DEF Owned, OneListener, AllResting

\* The steps of Login.
LEMMA OwnedLogin ==
    ASSUME TInv, TypeOK', Owned, NoFault, LoginStep
    PROVE  Owned' /\ NoFault'
<1> USE DEF NoFault, TInv
<1>1. CASE gui \in {"login_open", "login_setup", "login_auth",
                    "login_handlers", "login_start"}
  <2>1. AllResting /\ lis[logins] = "none"
    BY <1>1, LoginAlone DEF LoginPcs
  <2>2. hThread = Null
    BY <1>1, <2>1 DEF Owned, GuiOwns
  <2>3. UNCHANGED <<lis, logins, hThread>>
    BY <1>1 DEF LoginStep, LoginOpen, LoginSetup, LoginAuth, LoginHandlers,
                LoginStart, LoginThread, LoginHandle, ConnectUi
  <2>4. OneListener' /\ ListenerOwns' /\ AllResting'
    BY <2>1, <2>3 DEF Owned, OneListener, ListenerOwns, AllResting
  <2>5. CASE LoginOpen
    <3>1. Empty
      BY <2>1, <2>5 DEF Owned, GuiOwns, LoginOpen
    <3>2. GuiOwns'
      BY <2>2, <2>3, <2>5, <3>1 DEF LoginOpen, GuiOwns, Empty, IoOnly, Both
    <3>3. LoginFresh' /\ LoginMeansNoSession'
      BY <2>1, <2>3, <2>5 DEF LoginOpen, LoginFresh, LoginMeansNoSession, LoginPcs
    <3> QED
      BY <2>4, <2>5, <3>2, <3>3 DEF LoginOpen, Owned
  <2>6. CASE LoginSetup
    <3>1. IoOnly /\ IoUsable
      BY <2>1, <2>6 DEF Owned, GuiOwns, LoginSetup, IoOnly
    <3>2. GuiOwns'
      BY <2>2, <2>3, <2>6, <3>1 DEF LoginSetup, GuiOwns, IoOnly
    <3>3. LoginFresh' /\ LoginMeansNoSession'
      BY <2>1, <2>3, <2>6, <3>1 DEF LoginSetup, LoginFresh, LoginMeansNoSession
    <3> QED
      BY <2>4, <2>6, <3>1, <3>2, <3>3 DEF LoginSetup, Owned
  <2>7. CASE LoginAuth
    <3>1. IoOnly
      BY <2>1, <2>7 DEF Owned, GuiOwns, LoginAuth
    <3>2. GuiOwns'
      BY <2>2, <2>3, <2>7, <3>1 DEF LoginAuth, GuiOwns, IoOnly, Both
    <3>3. LoginFresh' /\ LoginMeansNoSession'
      BY <2>1, <2>3, <2>7 DEF LoginAuth, LoginFresh, LoginMeansNoSession
    <3> QED
      BY <2>4, <2>7, <3>2, <3>3 DEF LoginAuth, Owned
  <2>8. CASE LoginHandlers
    <3>1. Both /\ AuthUsable
      BY <2>1, <2>8 DEF Owned, GuiOwns, LoginHandlers, Both
    <3>2. GuiOwns'
      BY <2>2, <2>3, <2>8, <3>1 DEF LoginHandlers, GuiOwns, Both
    <3>3. LoginFresh' /\ LoginMeansNoSession'
      BY <2>1, <2>3, <2>8, <3>1 DEF LoginHandlers, LoginFresh, LoginMeansNoSession
    <3> QED
      BY <2>4, <2>8, <3>1, <3>2, <3>3 DEF LoginHandlers, Owned
  <2>9. CASE LoginStart
    <3>1. Both /\ IoUsable
      BY <2>1, <2>9 DEF Owned, GuiOwns, LoginStart, Both
    <3>2. GuiOwns'
      BY <2>2, <2>3, <2>9, <3>1 DEF LoginStart, GuiOwns, Both
    <3>3. LoginFresh' /\ LoginMeansNoSession'
      BY <2>1, <2>3, <2>9, <3>1
      DEF LoginStart, LoginFresh, LoginMeansNoSession, LoginPcs
    <3> QED
      BY <2>4, <2>9, <3>1, <3>2, <3>3 DEF LoginStart, Owned
  <2> QED
    BY <1>1, <2>5, <2>6, <2>7, <2>8, <2>9
    DEF LoginStep, LoginThread, LoginHandle, ConnectUi
<1>2. CASE LoginThread
  <2>1. AllResting /\ lis[logins] = "none" /\ logins \in Sessions
    BY <1>2, LoginAlone DEF LoginThread, LoginPcs
  <2>2. Both /\ hThread = Null
    BY <1>2, <2>1 DEF Owned, GuiOwns, LoginThread
  <2>3. /\ \A t \in Sessions : t # logins => lis'[t] = lis[t]
        /\ lis'[logins] \in {"none", "receive"}
    BY <1>2, <2>1 DEF LoginThread, TypeOK
  <2>4. OneListener'
    BY <1>2, <2>3, MaxLoginsAssumption
    DEF Owned, OneListener, LoginThread, Sessions, TypeOK
  <2>5. Both' /\ gui' = "login_handle" /\ hThread' = Null
        /\ logins' = logins
    BY <1>2, <2>2 DEF LoginThread, Both
  <2>6. ListenerOwns'
    BY <2>1, <2>3, <2>5, Disjoint DEF ListenerOwns, AllResting, Both
  <2>7. GuiOwns' /\ LoginFresh' /\ LoginMeansNoSession'
    BY <2>3, <2>5 DEF GuiOwns, LoginFresh, LoginMeansNoSession
  <2> QED
    BY <1>2, <2>4, <2>6, <2>7 DEF Owned, LoginThread
<1>3. CASE LoginHandle
  <2>1. logins \in Sessions /\ lis[logins] \notin {"ended", "killed"}
    BY <1>3 DEF LoginNumbered, Owned, LoginFresh, LoginHandle, LoginPcs
  <2>2. \A s \in Sessions : lis[s] \notin Resting => s = logins
    BY DEF Owned, OneListener
  <2>3. OneListener' /\ UNCHANGED <<auth, io, mem, lis, logins>>
        /\ gui' = "connect_ui"
    BY <1>3 DEF Owned, OneListener, LoginHandle
  <2>4. CASE lis[logins] = "none"
    <3>1. AllResting /\ hThread' = Null
      BY <1>3, <2>2, <2>4, Disjoint DEF LoginHandle, AllResting
    <3>2. Both
      BY <1>3, <3>1 DEF Owned, GuiOwns, LoginHandle
    <3>3. ListenerOwns' /\ GuiOwns'
      BY <2>3, <3>1, <3>2 DEF ListenerOwns, GuiOwns, AllResting, Both
    <3> QED
      BY <1>3, <2>1, <2>3, <3>3
      DEF Owned, LoginFresh, LoginMeansNoSession, LoginHandle
  <2>5. CASE lis[logins] # "none"
    <3>1. hThread' = logins /\ lis[logins] \notin Resting
      BY <1>3, <2>1, <2>5, Disjoint DEF LoginHandle
    <3>2. lis[logins] \notin ExitWindow /\ Both
      BY <1>3, <2>1, <3>1, Disjoint DEF Owned, ListenerOwns, LoginHandle
    <3>3. ListenerOwns'
      BY <2>2, <2>3, <3>1, <3>2, Disjoint DEF ListenerOwns, Both
    <3>4. GuiOwns'
      BY <2>1, <2>3, <3>1 DEF GuiOwns, AllResting
    <3> QED
      BY <1>3, <2>1, <2>3, <3>3, <3>4
      DEF Owned, LoginFresh, LoginMeansNoSession, LoginHandle
  <2> QED
    BY <2>4, <2>5
<1>4. CASE ConnectUi
  <2>1. OneListener' /\ UNCHANGED <<ptrs, mem, lis, logins>>
        /\ gui' = "idle" /\ "login" \notin shown'
    BY <1>4 DEF Owned, OneListener, ConnectUi
  <2>2. ListenerOwns'
    BY <1>4, <2>1 DEF Owned, ListenerOwns, ConnectUi, Empty, Both
  <2>3. GuiOwns'
    BY <1>4, <2>1 DEF Owned, GuiOwns, ConnectUi, AllResting, Both
  <2>4. LoginFresh' /\ LoginMeansNoSession'
    BY <2>1 DEF LoginFresh, LoginMeansNoSession, LoginPcs
  <2> QED
    BY <1>4, <2>1, <2>2, <2>3, <2>4 DEF Owned, ConnectUi
<1> QED
  BY <1>1, <1>2, <1>3, <1>4
  DEF LoginStep, LoginOpen, LoginSetup, LoginAuth, LoginHandlers, LoginStart

\* The steps of Logout.
LEMMA OwnedLogout ==
    ASSUME TypeOK, TypeOK', Owned, NoFault, LogoutStep
    PROVE  Owned' /\ NoFault'
<1> USE DEF NoFault
<1>1. gui \in LogoutPcs /\ gui \notin LoginPcs /\ gui' \notin LoginPcs
  BY DEF LogoutStep, StopListenerCheck, StopListenerKill, StopListenerLogoff,
         LogoutAuth, LogoutIo, LogoutUi, LogoutPcs, LoginPcs
<1>2. LoginFresh'
  BY <1>1 DEF LoginFresh
<1>3. CASE StopListenerCheck
  <2>1. OneListener' /\ LoginMeansNoSession'
    BY <1>3 DEF Owned, OneListener, LoginMeansNoSession, StopListenerCheck
  <2>2. CASE hThread = Null
    <3>1. AllResting
      BY <1>3, <2>2, PointerValues
      DEF Owned, ListenerOwns, AllResting, StopListenerCheck
    <3>2. ListenerOwns' /\ GuiOwns'
      BY <1>3, <2>2, <3>1
      DEF Owned, ListenerOwns, GuiOwns, AllResting, StopListenerCheck, Empty, Both
    <3> QED
      BY <1>2, <1>3, <2>1, <3>2 DEF Owned, StopListenerCheck
  <2>3. CASE hThread # Null
    <3>1. ~AllResting
      BY <1>3, <2>3 DEF Owned, GuiOwns, StopListenerCheck
    <3>2. GuiOwns'
      BY <1>3, <3>1 DEF GuiOwns, AllResting, StopListenerCheck
    <3>3. ListenerOwns'
      BY <1>3, <2>3 DEF Owned, ListenerOwns, StopListenerCheck, Empty, Both
    <3> QED
      BY <1>2, <1>3, <2>1, <3>2, <3>3 DEF Owned, StopListenerCheck
  <2> QED
    BY <2>2, <2>3
<1>4. CASE StopListenerKill
  <2>1. PICK s \in Sessions : lis[s] \notin Resting
    BY <1>4 DEF Owned, GuiOwns, AllResting, StopListenerKill
  <2>2. hThread = s /\ Both
    BY <1>4, <2>1, Disjoint DEF Owned, ListenerOwns, StopListenerKill
  <2>3. /\ lis' = [lis EXCEPT ![s] = "killed"] /\ gui' = "out_logoff"
        /\ proc' = proc /\ Both' /\ logins' = logins /\ s = logins
    BY <1>4, <2>1, <2>2, PointerValues, LoneListener
    DEF StopListenerKill, Both, Owned
  <2>4. \A t \in Sessions : t # s => lis'[t] = lis[t] /\ lis[t] \in Resting
    BY <2>1, <2>3, LoneListener DEF TypeOK, Owned
  <2>5. AllResting'
    BY <2>3, <2>4, Disjoint DEF AllResting, TypeOK
  <2>6. OneListener'
    BY <2>3, <2>4, <2>5, MaxLoginsAssumption
    DEF Owned, OneListener, AllResting, Sessions
  <2>7. ListenerOwns' /\ GuiOwns' /\ LoginMeansNoSession'
    BY <2>3, <2>5 DEF ListenerOwns, GuiOwns, LoginMeansNoSession, AllResting
  <2> QED
    BY <1>2, <2>3, <2>6, <2>7 DEF Owned
<1>5. CASE gui \in {"out_logoff", "out_auth", "out_io", "out_ui"}
  <2>1. AllResting
    BY <1>5 DEF Owned, ListenerOwns, AllResting
  <2>2. UNCHANGED <<lis, logins>>
    BY <1>5 DEF LogoutStep, StopListenerCheck, StopListenerKill,
                StopListenerLogoff, LogoutAuth, LogoutIo, LogoutUi
  <2>3. AllResting' /\ OneListener' /\ ListenerOwns'
    BY <2>1, <2>2 DEF AllResting, Owned, OneListener, ListenerOwns
  <2>4. CASE StopListenerLogoff
    <3>1. (Empty \/ Both) /\ (io = Null \/ IoUsable)
      BY <2>1, <2>4 DEF Owned, GuiOwns, StopListenerLogoff, Empty, Both
    <3>2. UNCHANGED <<ptrs, mem, proc>> /\ gui' = "out_auth"
      BY <2>4, <3>1 DEF StopListenerLogoff
    <3>3. GuiOwns' /\ LoginMeansNoSession'
      BY <2>2, <3>1, <3>2 DEF GuiOwns, LoginMeansNoSession, Empty, Both
    <3> QED
      BY <1>2, <2>3, <3>2, <3>3 DEF Owned
  <2>5. CASE LogoutAuth
    <3>1. (Empty \/ Both) /\ Deletable(auth, authMem)
      BY <2>1, <2>5 DEF Owned, GuiOwns, LogoutAuth, Empty, Both
    <3>2. (Empty \/ IoOnly)' /\ proc' = proc /\ gui' = "out_io"
      BY <2>2, <2>5, <3>1 DEF LogoutAuth, Empty, Both, IoOnly
    <3>3. GuiOwns' /\ LoginMeansNoSession'
      BY <3>2 DEF GuiOwns, LoginMeansNoSession
    <3> QED
      BY <1>2, <2>3, <3>2, <3>3 DEF Owned
  <2>6. CASE LogoutIo
    <3>1. (Empty \/ IoOnly) /\ Deletable(io, ioMem)
      BY <2>1, <2>6 DEF Owned, GuiOwns, LogoutIo, Empty, IoOnly
    <3>2. Empty' /\ hThread' = Null /\ proc' = proc /\ gui' = "out_ui"
      BY <2>6, <3>1 DEF LogoutIo, Empty, IoOnly
    <3>3. GuiOwns' /\ LoginMeansNoSession'
      BY <3>2 DEF GuiOwns, LoginMeansNoSession
    <3> QED
      BY <1>2, <2>3, <3>2, <3>3 DEF Owned
  <2>7. CASE LogoutUi
    <3>1. Empty /\ hThread = Null
      BY <2>1, <2>7 DEF Owned, GuiOwns, LogoutUi
    <3>2. Empty' /\ hThread' = Null /\ gui' = "idle"
      BY <2>7, <3>1 DEF LogoutUi, Empty
    <3>3. GuiOwns' /\ LoginMeansNoSession'
      BY <2>3, <3>2 DEF GuiOwns, LoginMeansNoSession
    <3> QED
      BY <1>2, <2>3, <2>7, <3>3 DEF Owned, LogoutUi
  <2> QED
    BY <1>5, <2>4, <2>5, <2>6, <2>7
    DEF LogoutStep, StopListenerCheck, StopListenerKill
<1> QED
  BY <1>3, <1>4, <1>5
  DEF LogoutStep, StopListenerLogoff, LogoutAuth, LogoutIo, LogoutUi

\* A listener inside its exit window moves on within it: the GUI thread is in
\* its message loop, so only the objects have to be accounted for.
LEMMA ExitingListenerMoves ==
    ASSUME TypeOK, TypeOK', Owned, gui = "idle", NEW s \in Sessions,
           lis[s] \notin Resting, NEW pc \in ExitWindow,
           lis' = [lis EXCEPT ![s] = pc],
           UNCHANGED <<gui, logins, hThread>>,
           pc = "del_io" => auth' = s /\ io' = s /\ authMem' = {} /\ ioMem' = {s},
           pc = "null_auth" => auth' = s /\ io' = s /\ authMem' = {} /\ ioMem' = {},
           pc = "null_io" => auth' = Null /\ io' = s /\ authMem' = {} /\ ioMem' = {},
           pc = "null_thread" => Empty',
           pc \notin {"del_io", "null_auth", "null_io", "null_thread"} => Both'
    PROVE  Owned'
<1>1. /\ lis'[s] = pc /\ s = logins /\ pc \notin Resting
      /\ \A t \in Sessions : t # s => lis'[t] = lis[t] /\ lis[t] \in Resting
  BY LoneListener, Disjoint DEF TypeOK, Owned
<1>2. OneListener'
  BY <1>1, MaxLoginsAssumption DEF Owned, OneListener, Sessions
<1>3. hThread = s
  BY DEF Owned, ListenerOwns
<1>4. ListenerOwns'
  BY <1>1, <1>3 DEF ListenerOwns
<1>5. ~AllResting' /\ Exiting' # {}
  BY <1>1 DEF AllResting, Exiting
<1> QED
  BY <1>2, <1>4, <1>5
  DEF Owned, GuiOwns, LoginFresh, LoginMeansNoSession, LoginPcs

\* The listener's steps outside its exit window.
LEMMA OwnedListening ==
    ASSUME TypeOK, TypeOK', Owned, NoFault, NEW s \in Sessions,
           \/ Receive(s) \/ RequestIdCallback(s) \/ SetConnecting(s)
           \/ SendResponse(s) \/ SuccessText(s) \/ SuccessTray(s)
           \/ SuccessHide(s) \/ SetConnected(s) \/ FailBox(s) \/ FailHide(s)
    PROVE  Owned' /\ NoFault'
<1>1. lis[s] \notin Resting /\ lis[s] \notin ExitWindow
  BY Disjoint
  DEF Receive, RequestIdCallback, SetConnecting, SendResponse, SuccessText,
      SuccessTray, SuccessHide, SetConnected, FailBox, FailHide
<1>2. AuthUsable /\ IoUsable
  BY <1>1, BusyListener
<1>3. proc' \in {proc, "crashed"} /\ UNCHANGED <<ptrs, mem, gui, modal, logins>>
  BY <1>2
  DEF Receive, RequestIdCallback, SetConnecting, SendResponse, SuccessText,
      SuccessTray, SuccessHide, SetConnected, FailBox, FailHide
<1>4. "login" \in shown' => "login" \in shown
  BY <1>2
  DEF Receive, RequestIdCallback, SetConnecting, SendResponse, SuccessText,
      SuccessTray, SuccessHide, SetConnected, FailBox, FailHide
<1>5. \E pc \in ListenPcs \ (Resting \cup ExitWindow) :
          lis' = [lis EXCEPT ![s] = pc] \/ UNCHANGED lis
  BY <1>2, Disjoint, ListenLocations
  DEF Receive, RetCont, RetOk, RetFail, RequestIdCallback, SetConnecting,
      SendResponse, SuccessText, SuccessTray, SuccessHide, SetConnected,
      FailBox, FailHide
<1>6. Owned'
  BY <1>1, <1>3, <1>4, <1>5, BusyListenerMoves
<1> QED
  BY <1>3, <1>6 DEF NoFault

\* The failure callback's last window call and the exit of the thread.
LEMMA OwnedExit ==
    ASSUME TypeOK, TypeOK', Owned, NoFault, NEW s \in Sessions,
           \/ FailShow(s) \/ FailTray(s) \/ SetUnconnected(s)
           \/ ExitDeleteAuth(s) \/ ExitDeleteIo(s) \/ ExitNullAuth(s)
           \/ ExitNullIo(s) \/ ExitNullThread(s)
    PROVE  Owned' /\ NoFault'
<1> USE DEF NoFault
<1>1. lis[s] \notin Resting
  BY Disjoint
  DEF FailShow, FailTray, SetUnconnected, ExitDeleteAuth, ExitDeleteIo,
      ExitNullAuth, ExitNullIo, ExitNullThread
<1>2. s = logins /\ hThread = s /\ gui = "idle"
  BY <1>1, LoneListener, Disjoint
  DEF Owned, ListenerOwns, FailShow, FailTray, SetUnconnected, ExitDeleteAuth,
      ExitDeleteIo, ExitNullAuth, ExitNullIo, ExitNullThread
<1>3. CASE FailShow(s) \/ FailTray(s) \/ SetUnconnected(s)
  <2>1. Both
    BY <1>1, <1>3 DEF Owned, ListenerOwns, FailShow, FailTray, SetUnconnected
  <2>2. UNCHANGED <<gui, logins, ptrs, mem, proc>>
    BY <1>3 DEF FailShow, FailTray, SetUnconnected
  <2>3. Both'
    BY <2>1, <2>2 DEF Both
  <2>4. \E pc \in {"fail_tray", "set_unconnected", "del_auth"} :
            lis' = [lis EXCEPT ![s] = pc]
    BY <1>3 DEF FailShow, FailTray, SetUnconnected
  <2>5. Owned'
    BY <1>1, <1>2, <2>2, <2>3, <2>4, ExitingListenerMoves, Disjoint
  <2> QED
    BY <2>2, <2>5
<1>4. CASE ExitDeleteAuth(s)
  <2>1. Both /\ Deletable(auth, authMem)
    BY <1>1, <1>4 DEF Owned, ListenerOwns, ExitDeleteAuth, Both
  <2>2. /\ lis' = [lis EXCEPT ![s] = "del_io"] /\ proc' = proc
        /\ UNCHANGED <<gui, logins, hThread>>
        /\ auth' = s /\ io' = s /\ authMem' = {} /\ ioMem' = {s}
    BY <1>2, <1>4, <2>1 DEF ExitDeleteAuth, Both
  <2> QED
    BY <1>1, <1>2, <2>2, ExitingListenerMoves, Disjoint
<1>5. CASE ExitDeleteIo(s)
  <2>1. auth = s /\ io = s /\ authMem = {} /\ ioMem = {s}
    BY <1>1, <1>5 DEF Owned, ListenerOwns, ExitDeleteIo
  <2>2. /\ lis' = [lis EXCEPT ![s] = "null_auth"] /\ proc' = proc
        /\ UNCHANGED <<gui, logins, hThread>>
        /\ auth' = s /\ io' = s /\ authMem' = {} /\ ioMem' = {}
    BY <1>5, <2>1 DEF ExitDeleteIo
  <2> QED
    BY <1>1, <1>2, <2>2, ExitingListenerMoves, Disjoint
<1>6. CASE ExitNullAuth(s)
  <2>1. io = s /\ authMem = {} /\ ioMem = {}
    BY <1>1, <1>6 DEF Owned, ListenerOwns, ExitNullAuth
  <2>2. /\ lis' = [lis EXCEPT ![s] = "null_io"] /\ proc' = proc
        /\ UNCHANGED <<gui, logins, hThread>>
        /\ auth' = Null /\ io' = s /\ authMem' = {} /\ ioMem' = {}
    BY <1>6, <2>1 DEF ExitNullAuth
  <2> QED
    BY <1>1, <1>2, <2>2, ExitingListenerMoves, Disjoint
<1>7. CASE ExitNullIo(s)
  <2>1. auth = Null /\ authMem = {} /\ ioMem = {}
    BY <1>1, <1>7 DEF Owned, ListenerOwns, ExitNullIo
  <2>2. /\ lis' = [lis EXCEPT ![s] = "null_thread"] /\ proc' = proc
        /\ UNCHANGED <<gui, logins, hThread>> /\ Empty'
    BY <1>7, <2>1 DEF ExitNullIo, Empty
  <2> QED
    BY <1>1, <1>2, <2>2, ExitingListenerMoves, Disjoint
<1>8. CASE ExitNullThread(s)
  <2>1. Empty
    BY <1>1, <1>8 DEF Owned, ListenerOwns, ExitNullThread
  <2>2. /\ lis'[s] = "ended" /\ hThread' = Null /\ proc' = proc
        /\ gui' = "idle" /\ logins' = logins /\ Empty'
    BY <1>2, <1>8, <2>1 DEF ExitNullThread, Empty, TypeOK
  <2>3. \A t \in Sessions : t # s => lis'[t] = lis[t] /\ lis[t] \in Resting
    BY <1>1, <1>8, LoneListener DEF ExitNullThread, TypeOK, Owned
  <2>4. AllResting'
    BY <2>2, <2>3, Disjoint DEF AllResting
  <2>5. OneListener'
    BY <1>2, <2>2, <2>3, <2>4, MaxLoginsAssumption
    DEF Owned, OneListener, AllResting, Sessions
  <2> QED
    BY <2>2, <2>4, <2>5
    DEF Owned, ListenerOwns, GuiOwns, LoginFresh, LoginMeansNoSession,
        AllResting, LoginPcs
<1> QED
  BY <1>3, <1>4, <1>5, <1>6, <1>7, <1>8

LEMMA OwnedInit == Init => Owned /\ NoFault
  BY Disjoint, PointerValues
  DEF Init, Owned, NoFault, OneListener, ListenerOwns, GuiOwns, LoginFresh,
      LoginMeansNoSession, AllResting, Empty, Both, LoginPcs

\* The history of races only grows.
LEMMA RacedGrows == [Next]_vars => raced \subseteq raced'
  BY DEF Next, vars, UserCommand, PostedCommand, LoginStep, LogoutStep,
         ListenerStep, Gone, OnConnect, OpenDialog, OnDisplayConnection,
         CloseDialog, ConnectionDlgDisconnect, TrayDisconnect, CancelConnecting,
         IdleTimeout, OnCancel, ConfirmExit, EndOnlineUpdate, CableBoxClosed,
         PostedDisconnect, OnOnlineUpdate, NestedOnlineUpdate, LoginOpen,
         LoginSetup, LoginAuth, LoginHandlers, LoginStart, LoginThread,
         LoginHandle, ConnectUi, StopListenerCheck, StopListenerKill,
         StopListenerLogoff, LogoutAuth, LogoutIo, LogoutUi, Receive,
         RequestIdCallback, SetConnecting, SendResponse, SuccessText,
         SuccessTray, SuccessHide, SetConnected, FailBox, FailHide, FailShow,
         FailTray, SetUnconnected, ExitDeleteAuth, ExitDeleteIo, ExitNullAuth,
         ExitNullIo, ExitNullThread

\* IInv is inductive.
LEMMA IInvStep == IInv /\ [Next]_vars => IInv'
<1> SUFFICES ASSUME IInv, [Next]_vars PROVE IInv'
  OBVIOUS
<1>1. TInv /\ TInv'
  BY TypeStep DEF IInv, TInv
<1>2. CASE raced' # {}
  BY <1>1, <1>2 DEF IInv, TInv, FaultsNeedRace
<1>3. CASE raced' = {}
  <2>1. raced = {}
    BY <1>3, RacedGrows
  <2>2. TypeOK /\ TypeOK' /\ Owned /\ NoFault
    BY <1>1, <2>1 DEF IInv, TInv, Owned, NoFault, FaultsNeedRace
  <2>3. Owned' /\ NoFault'
    <3>1. CASE UserCommand \/ PostedCommand
      BY <1>3, <2>1, <2>2, <3>1, OwnedCommand
    <3>2. CASE LoginStep
      BY <1>1, <2>2, <3>2, OwnedLogin
    <3>3. CASE LogoutStep
      BY <2>2, <3>3, OwnedLogout
    <3>4. ASSUME NEW s \in Sessions, Receive(s) \/ ListenerStep(s)
          PROVE  Owned' /\ NoFault'
      BY <2>2, <3>4, OwnedListening, OwnedExit DEF ListenerStep
    <3>5. CASE UNCHANGED vars
      BY <2>2, <3>5
      DEF vars, NoFault, Owned, OneListener, ListenerOwns, GuiOwns, LoginFresh,
          LoginMeansNoSession, AllResting, Exiting, Empty, IoOnly, Both
    <3> QED
      BY <3>1, <3>2, <3>3, <3>4, <3>5 DEF Next, Gone
  <2> QED
    BY <1>1, <2>3 DEF IInv, TInv, Owned, NoFault, FaultsNeedRace
<1> QED
  BY <1>2, <1>3

\* The ownership discipline IInv holds in every reachable state.
THEOREM OwnershipInvariant == Spec => []IInv
<1>1. Init => IInv
  BY TypeInit, OwnedInit DEF TInv, IInv, Owned, NoFault, FaultsNeedRace
<1> QED
  BY <1>1, IInvStep, PTL DEF Spec

\* No interleaving of the GUI thread and the listeners, for any number of
\* logins and with TerminateThread anywhere, uses a freed or null session
\* object or makes TerminateThread fail, unless Login or Logout was called
\* inside a listener's exit window (EapEventHandler.cpp:79 to EAP-DLL.cpp:255).
THEOREM NoFaultWithoutRace == Spec => []FaultsNeedRace
<1>1. IInv => FaultsNeedRace
  BY DEF IInv
<1> QED
  BY <1>1, OwnershipInvariant, PTL

-----------------------------------------------------------------------------
(* What a session has earned.  While no race has happened, a listener that  *)
(* runs the success callback has been authenticated, the state it finds is  *)
(* the one its own session has left, and a session that has been logged off *)
(* has no listener any more.                                                *)

Succeeding == {"succ_text", "succ_tray", "succ_hide", "set_connected"}
Answering  == {"reqid_cb", "set_connecting", "send"}
Leaving    == {"del_auth", "del_io", "null_auth", "null_io", "null_thread"}

ListenerEarned ==
    \A s \in Sessions :
        /\ lis[s] \in Succeeding => s \in authOk /\ state = "CONNECTING"
        /\ lis[s] \in Answering => ret[s] = "cont"
        /\ lis[s] = "receive" /\ state = "CONNECTING" => ret[s] = "cont"
        /\ lis[s] \in Leaving => state = "UNCONNECTED"

\* Where the GUI thread can count on UNCONNECTED.
GuiUnconnected ==
    /\ gui \in (LoginPcs \ {"login_handle", "connect_ui"}) \cup
               {"out_auth", "out_io", "out_ui"} => state = "UNCONNECTED"
    /\ gui = "idle" /\ AllResting /\ io = Null => state = "UNCONNECTED"

StateEarned == state \in {"CONNECTED", "RECONNECTING"} => logins \in authOk

LogoffDone ==
    \A s \in loggedOff :
        /\ s <= logins /\ lis[s] \in Resting
        /\ s = logins => gui \notin LoginPcs

Earned == ListenerEarned /\ GuiUnconnected /\ StateEarned /\ LogoffDone

EarnedInv == raced = {} => Earned

LEMMA EarnedInit == Init => Earned
  BY DEF Init, Earned, ListenerEarned, GuiUnconnected, StateEarned, LogoffDone,
         Succeeding, Answering, Leaving, LoginPcs

\* The sets of locations of a listener that Earned tells apart.
LEMMA ListenerParts ==
    /\ Succeeding \cap Resting = {} /\ Answering \cap Resting = {}
    /\ Leaving \cap Resting = {} /\ "receive" \notin Resting
    /\ Leaving \subseteq ExitWindow
    /\ "receive" \notin Succeeding \cup Answering \cup Leaving
  BY DEF Succeeding, Answering, Leaving, Resting, ExitWindow

\* The user's and the posted commands.
LEMMA EarnedCommand ==
    ASSUME TypeOK, Owned, Earned, raced' = {}, UserCommand \/ PostedCommand
    PROVE  Earned'
<1>1. CASE OnConnect
  <2>1. AllResting /\ Empty /\ state = "UNCONNECTED"
    BY <1>1
    DEF OnConnect, Owned, LoginMeansNoSession, Empty, Earned, GuiUnconnected
  <2>2. lis' = lis /\ state' = state /\ gui' = "login_open"
    BY <1>1 DEF OnConnect
  <2>3. ListenerEarned'
    BY <2>1, <2>2, ListenerParts DEF ListenerEarned, AllResting
  <2>4. GuiUnconnected' /\ StateEarned'
    BY <2>1, <2>2 DEF GuiUnconnected, StateEarned
  <2>5. \A s \in loggedOff' : s <= logins /\ lis'[s] \in Resting
    BY <1>1, <2>2 DEF OnConnect, Earned, LogoffDone
  <2>6. LogoffDone'
    BY <1>1, <2>5, MaxLoginsAssumption
    DEF OnConnect, LogoffDone, TypeOK, Sessions
  <2> QED
    BY <2>3, <2>4, <2>6 DEF Earned
<1>2. CASE UNCHANGED <<ptrs, gui, lis, logins, state, ret, authOk, loggedOff>>
  BY <1>2 DEF Earned, ListenerEarned, GuiUnconnected, StateEarned, LogoffDone,
              AllResting
<1>3. CASE \E t : Pumping /\ CallLogout(t)
  BY <1>3 DEF Earned, ListenerEarned, GuiUnconnected, StateEarned, LogoffDone,
              LoginPcs
<1> QED
  BY <1>1, <1>2, <1>3
  DEF UserCommand, PostedCommand, OpenDialog, OnDisplayConnection, CloseDialog,
      ConnectionDlgDisconnect, TrayDisconnect, CancelConnecting, IdleTimeout,
      OnCancel, ConfirmExit, EndOnlineUpdate, CableBoxClosed,
      PostedDisconnect, OnOnlineUpdate, NestedOnlineUpdate

\* The steps of Login: a new listener finds the state UNCONNECTED.
LEMMA EarnedLogin ==
    ASSUME TInv, Owned, Earned, LoginStep
    PROVE  Earned'
<1>1. UNCHANGED <<state, logins, ret, authOk, loggedOff>> /\ gui \in LoginPcs
  BY DEF LoginStep, LoginOpen, LoginSetup, LoginAuth, LoginHandlers, LoginStart,
         LoginThread, LoginHandle, ConnectUi, LoginPcs
<1>2. StateEarned'
  BY <1>1 DEF Earned, StateEarned
<1>3. CASE LoginThread
  <2>1. state = "UNCONNECTED" /\ logins \notin loggedOff
    BY <1>1, <1>3
    DEF LoginThread, Earned, GuiUnconnected, LogoffDone, LoginPcs
  <2>2. AllResting /\ logins \in Sessions
    BY <1>3, LoginAlone DEF LoginThread, LoginPcs
  <2>3. /\ gui' = "login_handle"
        /\ \A s \in Sessions : lis'[s] = lis[s] \/ lis'[s] = "receive"
        /\ \A s \in Sessions : s # logins => lis'[s] = lis[s]
    BY <1>3, <2>2 DEF LoginThread, TInv, TypeOK
  <2>4. ListenerEarned'
    BY <1>1, <2>1, <2>2, <2>3, ListenerParts DEF ListenerEarned, AllResting
  <2>5. GuiUnconnected'
    BY <2>3 DEF GuiUnconnected
  <2>6. LogoffDone'
    BY <1>1, <2>1, <2>3 DEF Earned, LogoffDone, TInv, TypeOK
  <2> QED
    BY <1>2, <2>4, <2>5, <2>6 DEF Earned
<1>4. CASE ~LoginThread
  <2>1. lis' = lis
    BY <1>4 DEF LoginStep, LoginOpen, LoginSetup, LoginAuth, LoginHandlers,
                LoginStart, LoginHandle, ConnectUi
  <2>2. ListenerEarned'
    BY <1>1, <2>1 DEF Earned, ListenerEarned
  <2>3. LogoffDone'
    BY <1>1, <2>1 DEF Earned, LogoffDone
  <2>4. CASE gui \in LoginPcs \ {"login_handle", "connect_ui"}
    <3>1. GuiUnconnected'
      BY <1>1, <2>4 DEF Earned, GuiUnconnected
    <3> QED
      BY <1>2, <2>2, <2>3, <3>1 DEF Earned
  <2>5. CASE LoginHandle
    BY <1>2, <2>2, <2>3, <2>5 DEF LoginHandle, Earned, GuiUnconnected
  <2>6. CASE ConnectUi
    <3>1. gui' = "idle" /\ io' = io /\ AllResting' = AllResting
      BY <2>1, <2>6 DEF ConnectUi, AllResting
    <3>2. AllResting => io # Null
      BY <2>6 DEF ConnectUi, TInv, LoginNumbered, Owned, GuiOwns, Both, LoginPcs,
                  Sessions, Null
    <3>3. GuiUnconnected'
      BY <3>1, <3>2 DEF GuiUnconnected, LoginPcs
    <3> QED
      BY <1>2, <2>2, <2>3, <3>3 DEF Earned
  <2>7. gui \in LoginPcs \ {"login_handle", "connect_ui"} \/ LoginHandle
        \/ ConnectUi
    BY <1>1, <1>4
    DEF LoginStep, LoginOpen, LoginSetup, LoginAuth, LoginHandlers, LoginStart,
        LoginPcs
  <2> QED
    BY <2>4, <2>5, <2>6, <2>7
<1> QED
  BY <1>3, <1>4

\* The steps of Logout: the logoff frame goes out when no listener is left.
LEMMA EarnedLogout ==
    ASSUME TypeOK, Owned, Earned, LogoutStep
    PROVE  Earned'
<1>1. UNCHANGED <<logins, ret, authOk>>
      /\ gui' \in {gui, "out_kill", "out_logoff", "out_auth", "out_io", "out_ui",
                   "idle"}
  BY DEF LogoutStep, StopListenerCheck, StopListenerKill, StopListenerLogoff,
         LogoutAuth, LogoutIo, LogoutUi
<1>2. gui \in {"out_logoff", "out_auth", "out_io", "out_ui"} => AllResting
  BY DEF Owned, ListenerOwns, AllResting
<1>3. CASE StopListenerCheck \/ StopListenerKill
  <2>1. /\ \A s \in Sessions : lis'[s] = lis[s] \/ lis'[s] = "killed"
        /\ state' = state /\ loggedOff' = loggedOff
        /\ gui' \in {"out_kill", "out_logoff"} \/ gui' = gui
        /\ gui \in {"out_check", "out_kill"}
    BY <1>3 DEF StopListenerCheck, StopListenerKill, TypeOK
  <2>2. ListenerEarned'
    BY <1>1, <2>1, ListenerParts, Disjoint DEF Earned, ListenerEarned
  <2>3. GuiUnconnected' /\ StateEarned'
    BY <1>1, <2>1 DEF Earned, GuiUnconnected, StateEarned, LoginPcs
  <2>4. LogoffDone'
    BY <1>1, <2>1, Disjoint DEF Earned, LogoffDone, LoginPcs, TypeOK
  <2> QED
    BY <2>2, <2>3, <2>4 DEF Earned
<1>4. CASE StopListenerLogoff
  <2>1. AllResting /\ lis' = lis
    BY <1>2, <1>4 DEF StopListenerLogoff
  <2>2. ListenerEarned'
    BY <2>1, ListenerParts DEF ListenerEarned, AllResting
  <2>3. CASE state' = "UNCONNECTED" /\ gui' = "out_auth"
    <3>1. loggedOff' = loggedOff \/ (io \in Sessions /\ loggedOff' = loggedOff \cup {io})
      BY <1>4 DEF StopListenerLogoff, TypeOK, Pointers
    <3>2. io \in Sessions => io = logins
      BY <1>4, <2>1
      DEF StopListenerLogoff, Owned, GuiOwns, Empty, Both, Sessions, Null
    <3>3. LogoffDone'
      <4>1. \A s \in loggedOff' : s <= logins /\ lis[s] \in Resting
        BY <2>1, <3>1, <3>2, MaxLoginsAssumption
        DEF Earned, LogoffDone, AllResting, Sessions
      <4> QED
        BY <1>1, <2>1, <2>3, <4>1 DEF LogoffDone, LoginPcs
    <3> QED
      BY <2>2, <2>3, <3>3 DEF Earned, GuiUnconnected, StateEarned
  <2>4. CASE UNCHANGED <<state, gui, io, loggedOff>>
    BY <1>1, <2>1, <2>2, <2>4
    DEF Earned, GuiUnconnected, StateEarned, LogoffDone, AllResting
  <2> QED
    BY <1>4, <2>3, <2>4 DEF StopListenerLogoff
<1>5. CASE LogoutAuth \/ LogoutIo \/ LogoutUi
  <2>1. /\ UNCHANGED <<state, lis, loggedOff>> /\ state = "UNCONNECTED"
        /\ gui' \notin LoginPcs
    BY <1>5 DEF LogoutAuth, LogoutIo, LogoutUi, Earned, GuiUnconnected, LoginPcs
  <2> QED
    BY <1>1, <2>1
    DEF Earned, ListenerEarned, GuiUnconnected, StateEarned, LogoffDone
<1> QED
  BY <1>3, <1>4, <1>5 DEF LogoutStep

\* A live listener moves on to another place before its end.
LEMMA EarnedMoves ==
    ASSUME TypeOK, Owned, Earned, NEW s \in Sessions, lis[s] \notin Resting,
           NEW pc \in ListenPcs \ Resting, lis' = [lis EXCEPT ![s] = pc],
           UNCHANGED <<gui, logins, loggedOff>>,
           pc \in Succeeding => s \in authOk' /\ state' = "CONNECTING",
           pc \in Answering => ret'[s] = "cont",
           pc = "receive" /\ state' = "CONNECTING" => ret'[s] = "cont",
           pc \in Leaving => state' = "UNCONNECTED",
           state' \in {"CONNECTED", "RECONNECTING"} => s \in authOk'
    PROVE  Earned'
<1>1. /\ lis'[s] = pc /\ s = logins
      /\ \A t \in Sessions : t # s => lis'[t] = lis[t] /\ lis[t] \in Resting
  BY LoneListener DEF TypeOK, Owned
<1>2. ListenerEarned'
  BY <1>1, ListenerParts DEF ListenerEarned
<1>3. GuiUnconnected'
  <2>1. ~AllResting'
    BY <1>1 DEF AllResting
  <2>2. gui \in {"idle", "login_handle", "connect_ui", "out_check", "out_kill"}
    BY DEF Owned, ListenerOwns
  <2> QED
    BY <2>1, <2>2 DEF GuiUnconnected, LoginPcs
<1>4. StateEarned'
  BY <1>1 DEF StateEarned
<1>5. LogoffDone'
  <2>1. s \notin loggedOff
    BY DEF Earned, LogoffDone
  <2> QED
    BY <1>1, <2>1 DEF Earned, LogoffDone, TypeOK
<1> QED
  BY <1>2, <1>3, <1>4, <1>5 DEF Earned

\* The steps of a listener.
LEMMA EarnedListening ==
    ASSUME TypeOK, TypeOK', Owned, Earned, NEW s \in Sessions,
           Receive(s) \/ ListenerStep(s)
    PROVE  Earned'
<1> USE DEF Succeeding, Answering, Leaving
<1>1. lis[s] \notin Resting
  BY Disjoint
  DEF Receive, ListenerStep, RequestIdCallback, SetConnecting, SendResponse,
      SuccessText, SuccessTray, SuccessHide, SetConnected, FailBox, FailHide,
      FailShow, FailTray, SetUnconnected, ExitDeleteAuth, ExitDeleteIo,
      ExitNullAuth, ExitNullIo, ExitNullThread
<1>2. /\ s = logins
      /\ \A t \in Sessions : t # s => lis[t] \in Resting
  BY <1>1, LoneListener DEF Owned
<1>3. CASE UNCHANGED <<lis, gui, state, logins, ret, authOk, loggedOff, io>>
  BY <1>3 DEF Earned, ListenerEarned, GuiUnconnected, StateEarned, LogoffDone,
              AllResting
<1> DEFINE Kept == UNCHANGED <<gui, logins, loggedOff>>
           Goes(pc) == lis' = [lis EXCEPT ![s] = pc]
<1>4. state \in {"CONNECTED", "RECONNECTING"} => s \in authOk
  BY <1>2 DEF Earned, StateEarned
<1>5. CASE Receive(s)
  <2>1. Kept /\ lis[s] = "receive"
        /\ (RetCont(s) \/ RetOk(s) \/ RetFail(s)
            \/ UNCHANGED <<lis, gui, state, logins, ret, authOk, loggedOff, io>>)
    BY <1>5 DEF Receive
  <2>2. CASE RetCont(s)
    <3>1. /\ ret'[s] = "cont" /\ authOk' = authOk
          /\ \E pc \in {"send", "reqid_cb"} : Goes(pc)
          /\ state' \in {"CONNECTED", "RECONNECTING"} => s \in authOk
      BY <1>4, <2>2 DEF RetCont, TypeOK, EAP_STATE
    <3> QED
      BY <1>1, <2>1, <3>1, EarnedMoves, ListenLocations, Disjoint
  <2>3. CASE RetOk(s)
    <3>1. /\ authOk \subseteq authOk' /\ state' = state
          /\ state = "CONNECTING" => s \in authOk' /\ Goes("succ_text")
          /\ state # "CONNECTING" => Goes("receive")
      <4>1. state = "CONNECTING" => ret[s] = "cont"
        BY <2>1 DEF Earned, ListenerEarned
      <4>2. [lis EXCEPT ![s] = "receive"] = lis
        BY <2>1 DEF TypeOK
      <4> QED
        BY <2>3, <4>1, <4>2 DEF RetOk
    <3> QED
      BY <1>1, <1>4, <2>1, <3>1, EarnedMoves, ListenLocations, Disjoint
  <2>4. CASE RetFail(s)
    <3>1. /\ authOk' = authOk /\ state' = state
          /\ \E pc \in {"fail_box", "fail_hide"} : Goes(pc)
      BY <2>4 DEF RetFail
    <3> QED
      BY <1>1, <1>4, <2>1, <3>1, EarnedMoves, ListenLocations, Disjoint
  <2> QED
    BY <1>3, <2>1, <2>2, <2>3, <2>4
<1>6. CASE RequestIdCallback(s) \/ SetConnecting(s) \/ SendResponse(s)
  <2>1. ret[s] = "cont"
    BY <1>6 DEF RequestIdCallback, SetConnecting, SendResponse, Earned,
                ListenerEarned
  <2>2. \/ /\ Kept /\ ret' = ret /\ authOk' = authOk
           /\ state' \in {state, "CONNECTING"}
           /\ \E pc \in {"set_connecting", "send", "receive"} : Goes(pc)
        \/ UNCHANGED <<lis, gui, state, logins, ret, authOk, loggedOff, io>>
    BY <1>6 DEF RequestIdCallback, SetConnecting, SendResponse
  <2> QED
    BY <1>1, <1>3, <1>4, <2>1, <2>2, EarnedMoves, ListenLocations, Disjoint
<1>7. CASE SuccessText(s) \/ SuccessTray(s) \/ SuccessHide(s) \/ SetConnected(s)
  <2>1. s \in authOk /\ state = "CONNECTING"
    BY <1>7 DEF SuccessText, SuccessTray, SuccessHide, SetConnected, Earned,
                ListenerEarned
  <2>2. /\ Kept /\ authOk' = authOk
        /\ \/ state' = state /\ \E pc \in Succeeding : Goes(pc)
           \/ state' = "CONNECTED" /\ Goes("receive")
    BY <1>7 DEF SuccessText, SuccessTray, SuccessHide, SetConnected
  <2> QED
    BY <1>1, <2>1, <2>2, EarnedMoves, ListenLocations, Disjoint
<1>8. CASE FailBox(s) \/ FailHide(s) \/ FailShow(s) \/ FailTray(s)
  <2>1. /\ Kept /\ authOk' = authOk /\ state' = state
        /\ \E pc \in {"fail_hide", "fail_show", "fail_tray", "set_unconnected"} :
              Goes(pc)
    BY <1>8 DEF FailBox, FailHide, FailShow, FailTray
  <2> QED
    BY <1>1, <1>4, <2>1, EarnedMoves, ListenLocations, Disjoint
<1>9. CASE \/ SetUnconnected(s) \/ ExitDeleteAuth(s) \/ ExitDeleteIo(s)
           \/ ExitNullAuth(s) \/ ExitNullIo(s)
  <2>1. \/ /\ Kept /\ state' = "UNCONNECTED"
           /\ \E pc \in Leaving : Goes(pc)
        \/ UNCHANGED <<lis, gui, state, logins, ret, authOk, loggedOff, io>>
    BY <1>9 DEF SetUnconnected, ExitDeleteAuth, ExitDeleteIo, ExitNullAuth,
                ExitNullIo, Earned, ListenerEarned
  <2> QED
    BY <1>1, <1>3, <2>1, EarnedMoves, ListenLocations, Disjoint
<1>10. CASE ExitNullThread(s)
  <2>1. /\ state' = "UNCONNECTED" /\ Kept /\ gui = "idle"
        /\ \A t \in Sessions : lis'[t] = lis[t] \/ lis'[t] = "ended"
        /\ \A t \in Sessions : lis'[t] \in Resting
    BY <1>1, <1>2, <1>10, Disjoint
    DEF ExitNullThread, Earned, ListenerEarned, Owned, ListenerOwns, ExitWindow,
        TypeOK
  <2>2. LogoffDone'
    BY <2>1 DEF Earned, LogoffDone, LoginPcs, TypeOK
  <2> QED
    BY <2>1, <2>2, Disjoint
    DEF Earned, ListenerEarned, GuiUnconnected, StateEarned, Resting
<1> QED
  BY <1>5, <1>6, <1>7, <1>8, <1>9, <1>10 DEF ListenerStep

LEMMA EarnedStep == IInv /\ EarnedInv /\ [Next]_vars => EarnedInv'
<1> SUFFICES ASSUME IInv, EarnedInv, [Next]_vars, raced' = {} PROVE Earned'
  BY DEF EarnedInv
<1>1. raced = {} /\ Earned
  BY RacedGrows DEF EarnedInv
<1>2. TInv /\ TypeOK' /\ Owned
  BY <1>1, TypeStep DEF IInv, TInv, Owned
<1>3. CASE UserCommand \/ PostedCommand
  BY <1>1, <1>2, <1>3, EarnedCommand DEF TInv
<1>4. CASE LoginStep
  BY <1>1, <1>2, <1>4, EarnedLogin
<1>5. CASE LogoutStep
  BY <1>1, <1>2, <1>5, EarnedLogout DEF TInv
<1>6. ASSUME NEW s \in Sessions, Receive(s) \/ ListenerStep(s)
      PROVE  Earned'
  BY <1>1, <1>2, <1>6, EarnedListening DEF TInv
<1>7. CASE UNCHANGED vars
  BY <1>1, <1>7
  DEF vars, Earned, ListenerEarned, GuiUnconnected, StateEarned, LogoffDone,
      AllResting
<1> QED
  BY <1>3, <1>4, <1>5, <1>6, <1>7 DEF Next, Gone

LEMMA EarnedAlways == Spec => [](IInv /\ EarnedInv)
<1>1. Init => IInv /\ EarnedInv
  BY TypeInit, OwnedInit, EarnedInit
  DEF TInv, IInv, Owned, NoFault, FaultsNeedRace, EarnedInv
<1> QED
  BY <1>1, IInvStep, EarnedStep, PTL DEF Spec

\* GetCurConState says CONNECTED or RECONNECTING only of a session that the
\* server has accepted after an answer, although the state is assigned half a
\* second after the callback began (EAP-DLL.cpp:215-216).
THEOREM StateIsEarned == Spec => []ConnectedIsAuthenticated
<1>1. EarnedInv => ConnectedIsAuthenticated
  BY DEF EarnedInv, Earned, StateEarned, ConnectedIsAuthenticated
<1> QED
  BY <1>1, EarnedAlways, PTL

\* No listener survives the logoff frame of its session (EAP-DLL.cpp:274-285).
THEOREM NothingAfterLogoff == Spec => []LogoffIsLast
<1>1. EarnedInv => LogoffIsLast
  BY DEF EarnedInv, Earned, LogoffDone, LogoffIsLast
<1> QED
  BY <1>1, EarnedAlways, PTL

\* Only one statement of the program assigns CONNECTED (EAP-DLL.cpp:216).
LEMMA OnlySetConnected ==
    ASSUME [Next]_vars, state' = "CONNECTED", state # "CONNECTED"
    PROVE  \E s \in Sessions : SetConnected(s)
<1>1. CASE UserCommand \/ PostedCommand
  BY <1>1
  DEF UserCommand, PostedCommand, OnConnect, OpenDialog, OnDisplayConnection,
      CloseDialog, ConnectionDlgDisconnect, TrayDisconnect, CancelConnecting,
      IdleTimeout, OnCancel, ConfirmExit, EndOnlineUpdate, CableBoxClosed,
      PostedDisconnect, OnOnlineUpdate, NestedOnlineUpdate
<1>2. CASE LoginStep
  BY <1>2 DEF LoginStep, LoginOpen, LoginSetup, LoginAuth, LoginHandlers,
              LoginStart, LoginThread, LoginHandle, ConnectUi
<1>3. CASE LogoutStep
  BY <1>3 DEF LogoutStep, StopListenerCheck, StopListenerKill,
              StopListenerLogoff, LogoutAuth, LogoutIo, LogoutUi
<1>4. ASSUME NEW s \in Sessions, Receive(s) \/ ListenerStep(s)
      PROVE  SetConnected(s)
  BY <1>4
  DEF Receive, RetCont, RetOk, RetFail, ListenerStep, RequestIdCallback,
      SetConnecting, SendResponse, SuccessText, SuccessTray, SuccessHide,
      FailBox, FailHide, FailShow, FailTray, SetUnconnected, ExitDeleteAuth,
      ExitDeleteIo, ExitNullAuth, ExitNullIo, ExitNullThread
<1> QED
  BY <1>1, <1>2, <1>3, <1>4 DEF Next, Gone, vars

\* A late assignment of CONNECTED never undoes a Logout, and the success
\* callback does not run again in a re-authentication (EAP-DLL.cpp:214-216).
THEOREM ConnectedOnlyFromConnecting == Spec => ConnectedFromConnecting
<1>1. EarnedInv /\ [Next]_vars =>
        [state' = "CONNECTED" /\ state # "CONNECTED" /\ raced = {}
         => state = "CONNECTING"]_vars
  BY OnlySetConnected
  DEF EarnedInv, Earned, ListenerEarned, Succeeding, SetConnected
<1> QED
  BY <1>1, EarnedAlways, PTL DEF Spec, ConnectedFromConnecting

-----------------------------------------------------------------------------
(* What the user sees.  While no race has happened, the windows and the     *)
(* tray agree with where the two threads are: the login dialog and nothing  *)
(* else when there is no session, and a way to disconnect at every line of  *)
(* a listener that has not failed.                                          *)

Clean == state = "UNCONNECTED" /\ tray = "reset" /\ "login" \in shown

\* The connecting dialog with its Cancel, or the tray menu.
WayOut == "connecting" \in shown \/ tray = "connected"

\* Login begins clean, and a new listener can only have heard a first answer.
LoginShows ==
    gui \in LoginPcs =>
        /\ Clean /\ modal # "cable"
        /\ \A s \in Sessions :
              /\ lis[s] \in Resting \cup {"receive", "reqid_cb", "fail_hide"}
              /\ lis[s] = "fail_hide" => ret[s] = "fail"

\* In the message loop with no listener: the login dialog, or the connecting
\* dialog of a session whose thread could not be created.
RestShows ==
    gui = "idle" /\ AllResting =>
        /\ state = "UNCONNECTED" /\ tray = "reset"
        /\ "login" \in shown \/ (Both /\ "connecting" \in shown)

\* The "check the cable" box, and the Logout that follows it.
CableShows ==
    modal = "cable" \/ (gui \in LogoutPcs /\ task = "cable") =>
        AllResting /\ Clean

Working == {"receive", "succ_text", "succ_tray"} \cup Answering
Failing == {"fail_box", "fail_hide", "fail_show"}

\* What a listener at each of its lines has shown to the user.
ListenerShows ==
    gui = "idle" =>
        \A s \in Sessions :
            /\ lis[s] \in Working => WayOut
            /\ lis[s] \in {"succ_hide", "set_connected"} => tray = "connected"
            /\ lis[s] \in Failing \cup ExitWindow => ret[s] = "fail"
            /\ lis[s] \in ExitWindow => "login" \in shown
            /\ lis[s] \in ExitWindow \ {"fail_tray"} => tray = "reset"

Shows == LoginShows /\ RestShows /\ CableShows /\ ListenerShows

ShowsInv == raced = {} => Shows

LEMMA ShowsInit == Init => Shows
  BY DEF Init, Shows, LoginShows, RestShows, CableShows, ListenerShows, Clean,
         WayOut, Working, Answering, Failing, ExitWindow, LoginPcs, LogoutPcs

\* A step that leaves everything but the process and the posted commands.
LEMMA ShowsSame ==
    ASSUME Shows, UNCHANGED <<ptrs, mem, gui, state, task, lis, wins, logins, ret>>,
           modal' = "cable" => modal = "cable"
    PROVE  Shows'
  BY DEF Shows, LoginShows, RestShows, CableShows, ListenerShows, Clean, WayOut,
         AllResting, Both

\* The user's and the posted commands.
LEMMA ShowsCommand ==
    ASSUME TypeOK, Owned, Shows, raced' = {}, UserCommand \/ PostedCommand
    PROVE  Shows'
<1>1. CASE OnConnect
  <2>1. AllResting /\ Clean
    BY <1>1 DEF OnConnect, Owned, LoginMeansNoSession, Shows, RestShows, Clean
  <2>2. /\ UNCHANGED <<lis, state, wins, modal>> /\ modal = "none"
        /\ gui' = "login_open"
    BY <1>1 DEF OnConnect
  <2>3. gui' \notin LogoutPcs /\ gui' # "idle"
    BY <2>2 DEF LogoutPcs
  <2> QED
    BY <2>1, <2>2, <2>3, Disjoint
    DEF Shows, LoginShows, RestShows, CableShows, ListenerShows, Clean,
        AllResting
<1>2. CASE /\ UNCHANGED <<ptrs, mem, gui, state, task, lis, wins, logins, ret>>
           /\ modal' = "cable" => modal = "cable"
  BY <1>2, ShowsSame
<1>3. CASE \E t : /\ Pumping /\ CallLogout(t)
                  /\ t = "cable" \/ modal' = "cable" => modal = "cable"
  <2>1. /\ UNCHANGED <<lis, state, wins>> /\ gui' = "out_check"
        /\ task' = "cable" \/ modal' = "cable" => modal = "cable"
    BY <1>3
  <2>2. gui' \notin LoginPcs /\ gui' # "idle"
    BY <2>1 DEF LoginPcs
  <2> QED
    BY <2>1, <2>2
    DEF Shows, LoginShows, RestShows, CableShows, ListenerShows, Clean,
        AllResting
<1> QED
  BY <1>1, <1>2, <1>3
  DEF UserCommand, PostedCommand, OpenDialog, OnDisplayConnection, CloseDialog,
      ConnectionDlgDisconnect, TrayDisconnect, CancelConnecting, IdleTimeout,
      OnCancel, ConfirmExit, EndOnlineUpdate, CableBoxClosed,
      PostedDisconnect, OnOnlineUpdate, NestedOnlineUpdate

\* The steps of Login.
LEMMA ShowsLogin ==
    ASSUME TInv, TInv', Owned, NoFault, Shows, LoginStep
    PROVE  Shows'
<1>1. /\ Clean /\ modal # "cable" /\ gui \in LoginPcs /\ task' = task
      /\ UNCHANGED <<state, tray, ret>>
  BY DEF LoginStep, LoginOpen, LoginSetup, LoginAuth, LoginHandlers, LoginStart,
         LoginThread, LoginHandle, ConnectUi, LoginPcs, Shows, LoginShows
<1>2. gui \notin LogoutPcs \cup {"idle"}
  BY <1>1 DEF LoginPcs, LogoutPcs
<1>3. CASE ConnectUi
  <2>1. /\ shown' = {"connecting"} /\ gui' = "idle"
        /\ UNCHANGED <<lis, modal, ptrs, mem, logins>>
    BY <1>3 DEF ConnectUi
  <2>2. LoginShows' /\ CableShows'
    BY <1>1, <2>1 DEF LoginShows, CableShows, LoginPcs, LogoutPcs
  <2>3. AllResting => Both
    BY <1>3 DEF ConnectUi, Owned, GuiOwns
  <2>4. RestShows'
    BY <1>1, <2>1, <2>3 DEF RestShows, AllResting, Both, Clean
  <2>5. \A s \in Sessions :
            /\ lis[s] \in Resting \cup {"receive", "reqid_cb", "fail_hide"}
            /\ lis[s] = "fail_hide" => ret[s] = "fail"
    BY <1>1 DEF Shows, LoginShows
  <2>6. WayOut'
    BY <2>1 DEF WayOut
  <2>7. ListenerShows'
    BY <1>1, <2>1, <2>5, <2>6
    DEF ListenerShows, Working, Answering, Failing, ExitWindow, Resting
  <2> QED
    BY <2>2, <2>4, <2>7 DEF Shows
<1>4. CASE LoginThread
  <2>1. /\ gui' = "login_handle" /\ shown' = shown /\ modal' = modal
        /\ \A s \in Sessions : lis'[s] = lis[s] \/ lis'[s] = "receive"
    BY <1>4 DEF LoginThread, TInv, TypeOK
  <2>2. LoginShows'
    BY <1>1, <2>1, Disjoint DEF Shows, LoginShows, Clean
  <2>3. RestShows' /\ CableShows' /\ ListenerShows'
    BY <1>1, <2>1 DEF RestShows, CableShows, ListenerShows, LogoutPcs
  <2> QED
    BY <2>2, <2>3 DEF Shows
<1>5. CASE LoginOpen \/ LoginSetup \/ LoginAuth \/ LoginHandlers \/ LoginStart
  <2>1. AllResting /\ lis' = lis /\ shown' = shown
    BY <1>5, LoginAlone
    DEF LoginOpen, LoginSetup, LoginAuth, LoginHandlers, LoginStart, LoginPcs
  <2>2. AllResting' /\ Clean'
    BY <1>1, <2>1 DEF AllResting, Clean
  <2>3. gui' \in LoginPcs => modal' = modal
    BY <1>5
    DEF LoginOpen, LoginSetup, LoginAuth, LoginHandlers, LoginStart, LoginPcs
  <2>4. LoginShows'
    BY <1>1, <2>2, <2>3, Disjoint DEF LoginShows, AllResting
  <2>5. CableShows' /\ RestShows'
    BY <2>2 DEF CableShows, RestShows, Clean
  <2>6. ListenerShows'
    BY <2>2 DEF ListenerShows, AllResting, Working, Answering, Failing,
                ExitWindow, Resting
  <2> QED
    BY <2>4, <2>5, <2>6 DEF Shows
<1>6. CASE LoginHandle
  <2>1. gui' = "connect_ui" /\ UNCHANGED <<lis, shown, modal>>
    BY <1>6 DEF LoginHandle
  <2>2. LoginShows'
    BY <1>1, <2>1 DEF Shows, LoginShows, Clean
  <2> QED
    BY <1>1, <2>1, <2>2
    DEF Shows, RestShows, CableShows, ListenerShows, LogoutPcs
<1> QED
  BY <1>3, <1>4, <1>5, <1>6 DEF LoginStep

\* The steps of Logout: the logoff resets the state, the end resets the
\* windows.
LEMMA ShowsLogout ==
    ASSUME TypeOK, Owned, Earned, NoFault, Shows, LogoutStep, NoFault'
    PROVE  Shows'
<1>1. /\ gui \in LogoutPcs
      /\ state' \in {state, "UNCONNECTED"} /\ modal' = modal
      /\ gui' \in LogoutPcs => task' = task
  BY DEF LogoutStep, StopListenerCheck, StopListenerKill, StopListenerLogoff,
         LogoutAuth, LogoutIo, LogoutUi, LogoutPcs
<1>2. gui' \in LogoutPcs \cup {"idle"} /\ gui' \notin LoginPcs
  BY <1>1 DEF LogoutStep, StopListenerCheck, StopListenerKill,
              StopListenerLogoff, LogoutAuth, LogoutIo, LogoutUi, LogoutPcs,
              LoginPcs
<1>3. LoginShows'
  BY <1>2 DEF LoginShows
<1>4. CASE LogoutUi
  <2>1. /\ AllResting /\ Empty /\ state = "UNCONNECTED"
    BY <1>4
    DEF LogoutUi, Owned, ListenerOwns, GuiOwns, AllResting, Earned, GuiUnconnected
  <2>2. /\ UNCHANGED <<lis, state>> /\ gui' = "idle"
        /\ tray' = "reset" /\ "login" \in shown'
    BY <1>1, <1>4 DEF LogoutUi, Shows, CableShows, Clean
  <2>3. AllResting' /\ Clean'
    BY <2>1, <2>2 DEF AllResting, Clean
  <2>4. RestShows' /\ CableShows'
    BY <2>3 DEF RestShows, CableShows, Clean
  <2>5. ListenerShows'
    BY <2>3 DEF ListenerShows, AllResting, Working, Answering, Failing,
                ExitWindow, Resting
  <2> QED
    BY <1>3, <2>4, <2>5 DEF Shows
<1>5. CASE ~LogoutUi
  <2>1. wins' = wins /\ gui' # "idle"
    BY <1>1, <1>5
    DEF LogoutStep, StopListenerCheck, StopListenerKill, StopListenerLogoff,
        LogoutAuth, LogoutIo, LogoutPcs
  <2>2. RestShows' /\ ListenerShows'
    BY <2>1 DEF RestShows, ListenerShows
  <2>3. AllResting => lis' = lis
    BY <1>5 DEF LogoutStep, StopListenerCheck, StopListenerKill,
                StopListenerLogoff, LogoutAuth, LogoutIo, Owned, GuiOwns
  <2>4. CableShows'
    BY <1>1, <1>2, <2>1, <2>3 DEF Shows, CableShows, Clean, AllResting
  <2> QED
    BY <1>3, <2>2, <2>4 DEF Shows
<1> QED
  BY <1>4, <1>5

\* A live listener moves on to another place before its end.
LEMMA ShowsMoves ==
    ASSUME TypeOK, Owned, Shows, NEW s \in Sessions, lis[s] \notin Resting,
           NEW pc \in ListenPcs \ Resting, lis' = [lis EXCEPT ![s] = pc],
           UNCHANGED <<gui, task, modal, logins>>,
           gui \in LoginPcs =>
              /\ UNCHANGED <<state, wins>>
              /\ pc \in {"receive", "reqid_cb", "fail_hide"},
           pc \in Failing \cup ExitWindow => ret'[s] = "fail",
           gui = "idle" =>
              /\ pc \in Working => WayOut'
              /\ pc \in {"succ_hide", "set_connected"} => tray' = "connected"
              /\ pc \in ExitWindow => "login" \in shown'
              /\ pc \in ExitWindow \ {"fail_tray"} => tray' = "reset"
    PROVE  Shows'
<1>1. /\ lis'[s] = pc /\ ~AllResting
      /\ \A t \in Sessions : t # s => lis'[t] = lis[t] /\ lis[t] \in Resting
  BY LoneListener DEF TypeOK, Owned
<1>2. CableShows'
  BY <1>1 DEF Shows, CableShows
<1>3. RestShows'
  BY <1>1 DEF RestShows, AllResting
<1>4. LoginShows'
  BY <1>1, Disjoint DEF Shows, LoginShows, Clean, Failing
<1>5. ListenerShows'
  BY <1>1 DEF ListenerShows, Working, Answering, Failing, ExitWindow, Resting
<1> QED
  BY <1>2, <1>3, <1>4, <1>5 DEF Shows

\* The steps of a listener before it fails.
LEMMA ShowsListening ==
    ASSUME TypeOK, TypeOK', Owned, Earned, Shows, NEW s \in Sessions,
           \/ Receive(s) \/ RequestIdCallback(s) \/ SetConnecting(s)
           \/ SendResponse(s) \/ SuccessText(s) \/ SuccessTray(s)
           \/ SuccessHide(s) \/ SetConnected(s)
    PROVE  Shows'
<1> DEFINE Goes(pc) == lis' = [lis EXCEPT ![s] = pc]
           Kept == UNCHANGED <<gui, task, modal, logins>>
<1>1. /\ lis[s] \notin Resting /\ AuthUsable /\ IoUsable
  <2>1. lis[s] \notin Resting /\ lis[s] \notin ExitWindow
    BY Disjoint
    DEF Receive, RequestIdCallback, SetConnecting, SendResponse, SuccessText,
        SuccessTray, SuccessHide, SetConnected
  <2> QED
    BY <2>1, BusyListener
<1>2. gui \in LoginPcs => /\ state = "UNCONNECTED"
                          /\ lis[s] \in {"receive", "reqid_cb", "fail_hide"}
  BY <1>1 DEF Shows, LoginShows, Clean
<1>3. gui = "idle" /\ lis[s] \in Working => WayOut
  BY DEF Shows, ListenerShows
<1> USE DEF Working, Answering, Failing
<1>4. CASE Receive(s)
  <2>1. /\ Kept /\ wins' = wins /\ lis[s] = "receive"
        /\ RetCont(s) \/ RetOk(s) \/ RetFail(s)
    BY <1>1, <1>4 DEF Receive
  <2>2. WayOut' = WayOut
    BY <2>1 DEF WayOut
  <2>3. CASE RetCont(s)
    <3>1. /\ \E pc \in {"send", "reqid_cb"} : Goes(pc)
          /\ gui \in LoginPcs => state' = state /\ Goes("reqid_cb")
      BY <1>2, <2>3 DEF RetCont, TypeOK, EAP_STATE
    <3> QED
      BY <1>1, <1>3, <2>1, <2>2, <3>1, ShowsMoves, ListenLocations, Disjoint
  <2>4. CASE RetOk(s)
    <3>1. [lis EXCEPT ![s] = "receive"] = lis
      BY <2>1 DEF TypeOK
    <3>2. /\ \E pc \in {"succ_text", "receive"} : Goes(pc)
          /\ gui \in LoginPcs => state' = state /\ Goes("receive")
      BY <1>2, <2>4, <3>1 DEF RetOk
    <3> QED
      BY <1>1, <1>3, <2>1, <2>2, <3>2, ShowsMoves, ListenLocations, Disjoint
  <2>5. CASE RetFail(s)
    <3>1. /\ \E pc \in {"fail_box", "fail_hide"} : Goes(pc)
          /\ gui \in LoginPcs => state' = state /\ Goes("fail_hide")
          /\ ret'[s] = "fail"
      BY <1>2, <2>5 DEF RetFail, TypeOK
    <3> QED
      BY <1>1, <2>1, <3>1, ShowsMoves, ListenLocations, Disjoint
  <2> QED
    BY <2>1, <2>3, <2>4, <2>5
<1>5. CASE RequestIdCallback(s) \/ SetConnecting(s) \/ SuccessText(s)
  <2>1. /\ Kept /\ wins' = wins /\ gui \notin LoginPcs /\ lis[s] \in Working
        /\ \E pc \in {"set_connecting", "send", "succ_tray"} : Goes(pc)
    BY <1>2, <1>5 DEF RequestIdCallback, SetConnecting, SuccessText, LoginPcs
  <2>2. WayOut' = WayOut
    BY <2>1 DEF WayOut
  <2> QED
    BY <1>1, <1>3, <2>1, <2>2, ShowsMoves, ListenLocations, Disjoint
<1>6. CASE SendResponse(s)
  <2>1. /\ Kept /\ wins' = wins /\ gui \notin LoginPcs /\ lis[s] \in Working
        /\ UNCHANGED <<ptrs, mem, state, ret>>
        /\ Goes("receive") \/ UNCHANGED lis
    BY <1>1, <1>2, <1>6 DEF SendResponse
  <2>2. WayOut' = WayOut
    BY <2>1 DEF WayOut
  <2>3. CASE Goes("receive")
    BY <1>1, <1>3, <2>1, <2>2, <2>3, ShowsMoves, ListenLocations, Disjoint
  <2> QED
    BY <2>1, <2>3, ShowsSame
<1>7. CASE SuccessTray(s)
  <2>1. Kept /\ gui \notin LoginPcs /\ tray' = "connected" /\ Goes("succ_hide")
    BY <1>2, <1>7 DEF SuccessTray
  <2> QED
    BY <1>1, <2>1, ShowsMoves, ListenLocations, Disjoint
<1>8. CASE SuccessHide(s)
  <2>1. /\ Kept /\ gui \notin LoginPcs /\ Goes("set_connected")
        /\ gui = "idle" => tray' = "connected"
    BY <1>2, <1>8 DEF SuccessHide, Shows, ListenerShows
  <2> QED
    BY <1>1, <2>1, ShowsMoves, ListenLocations, Disjoint
<1>9. CASE SetConnected(s)
  <2>1. /\ Kept /\ gui \notin LoginPcs /\ Goes("receive")
        /\ gui = "idle" => WayOut'
    BY <1>2, <1>9 DEF SetConnected, Shows, ListenerShows, WayOut
  <2> QED
    BY <1>1, <2>1, ShowsMoves, ListenLocations, Disjoint
<1> QED
  BY <1>4, <1>5, <1>6, <1>7, <1>8, <1>9

\* The failure callback and the exit of the thread.
LEMMA ShowsFailing ==
    ASSUME TypeOK, TypeOK', Owned, Earned, Shows, NEW s \in Sessions,
           \/ FailBox(s) \/ FailHide(s) \/ FailShow(s) \/ FailTray(s)
           \/ SetUnconnected(s) \/ ExitDeleteAuth(s) \/ ExitDeleteIo(s)
           \/ ExitNullAuth(s) \/ ExitNullIo(s) \/ ExitNullThread(s),
           NoFault, NoFault'
    PROVE  Shows'
<1> DEFINE Goes(pc) == lis' = [lis EXCEPT ![s] = pc]
           Kept == UNCHANGED <<gui, task, modal, logins, ret>>
<1>1. lis[s] \notin Resting
  BY Disjoint
  DEF FailBox, FailHide, FailShow, FailTray, SetUnconnected, ExitDeleteAuth,
      ExitDeleteIo, ExitNullAuth, ExitNullIo, ExitNullThread
<1>2. lis[s] \in ExitWindow => gui = "idle"
  BY <1>1 DEF Owned, ListenerOwns
<1>3. gui = "idle" =>
        /\ lis[s] \in Failing \cup ExitWindow => ret[s] = "fail"
        /\ lis[s] \in ExitWindow => "login" \in shown
        /\ lis[s] \in ExitWindow \ {"fail_tray"} => tray = "reset"
  BY DEF Shows, ListenerShows
<1>4. "idle" \notin LoginPcs
  BY DEF LoginPcs
<1> USE DEF Working, Answering, Failing
<1>5. CASE FailBox(s)
  <2>1. /\ Kept /\ UNCHANGED <<state, wins>> /\ Goes("fail_hide")
        /\ gui \notin LoginPcs
    BY <1>1, <1>5 DEF FailBox, Shows, LoginShows, Resting
  <2>2. CASE gui = "idle"
    BY <1>1, <1>3, <1>5, <2>1, <2>2, ShowsMoves, ListenLocations, Disjoint
    DEF FailBox
  <2>3. CASE gui # "idle"
    <3>1. gui \in {"out_check", "out_kill"}
      BY <1>1, <2>1, <2>3 DEF Owned, ListenerOwns, LoginPcs
    <3>2. ~AllResting
      BY <1>1 DEF AllResting
    <3> QED
      BY <2>1, <2>3, <3>1, <3>2
      DEF Shows, LoginShows, RestShows, CableShows, ListenerShows
  <2> QED
    BY <2>2, <2>3
<1>6. CASE FailHide(s) \/ FailShow(s)
  <2>1. /\ Kept /\ gui = "idle" /\ lis[s] \in Failing
        /\ \/ Goes("fail_show")
           \/ Goes("fail_tray") /\ "login" \in shown'
    BY <1>6 DEF FailHide, FailShow
  <2> QED
    BY <1>1, <1>3, <1>4, <2>1, ShowsMoves, ListenLocations, Disjoint
<1>7. CASE FailTray(s)
  <2>1. /\ Kept /\ lis[s] = "fail_tray" /\ tray' = "reset" /\ shown' = shown
        /\ Goes("set_unconnected")
    BY <1>7 DEF FailTray
  <2> QED
    BY <1>1, <1>2, <1>3, <1>4, <2>1, ShowsMoves, ListenLocations, Disjoint
<1>8. CASE \/ SetUnconnected(s) \/ ExitDeleteAuth(s) \/ ExitDeleteIo(s)
           \/ ExitNullAuth(s) \/ ExitNullIo(s)
  <2>1. /\ Kept /\ wins' = wins
        /\ lis[s] \in ExitWindow \ {"fail_tray"}
        /\ \E pc \in Leaving : Goes(pc)
    BY <1>8, Disjoint
    DEF SetUnconnected, ExitDeleteAuth, ExitDeleteIo, ExitNullAuth, ExitNullIo,
        NoFault, Leaving
  <2>2. Leaving \subseteq ListenPcs
    BY DEF Leaving, ListenPcs, ExitWindow
  <2> QED
    BY <1>1, <1>2, <1>3, <1>4, <2>1, <2>2, ShowsMoves, ListenerParts, Disjoint
    DEF Leaving
<1>9. CASE ExitNullThread(s)
  <2>1. /\ Kept /\ UNCHANGED <<state, wins>> /\ gui = "idle"
        /\ lis[s] = "null_thread" /\ state = "UNCONNECTED" /\ modal # "cable"
    BY <1>1, <1>2, <1>9, Disjoint
    DEF ExitNullThread, Earned, ListenerEarned, Leaving, Shows, CableShows,
        AllResting
  <2>2. tray = "reset" /\ "login" \in shown
    BY <1>3, <2>1, Disjoint
  <2>3. \A t \in Sessions : lis'[t] \in Resting
    BY <1>1, <1>9, LoneListener, Disjoint DEF ExitNullThread, TypeOK, Owned
  <2>4. LoginShows' /\ CableShows'
    BY <1>4, <2>1 DEF LoginShows, CableShows, LogoutPcs
  <2>5. RestShows'
    BY <2>1, <2>2 DEF RestShows
  <2>6. ListenerShows'
    BY <2>3 DEF ListenerShows, ExitWindow, Resting
  <2> QED
    BY <2>4, <2>5, <2>6 DEF Shows
<1> QED
  BY <1>5, <1>6, <1>7, <1>8, <1>9

LEMMA ShowsStep == IInv /\ EarnedInv /\ ShowsInv /\ [Next]_vars => ShowsInv'
<1> SUFFICES ASSUME IInv, EarnedInv, ShowsInv, [Next]_vars, raced' = {}
             PROVE  Shows'
  BY DEF ShowsInv
<1>1. raced = {} /\ Earned /\ Shows
  BY RacedGrows DEF EarnedInv, ShowsInv
<1>2. TInv /\ TInv' /\ Owned /\ NoFault /\ NoFault'
  BY <1>1, TypeStep, IInvStep DEF IInv, TInv, Owned, NoFault, FaultsNeedRace
<1>3. CASE UserCommand \/ PostedCommand
  BY <1>1, <1>2, <1>3, ShowsCommand DEF TInv
<1>4. CASE LoginStep
  BY <1>1, <1>2, <1>4, ShowsLogin
<1>5. CASE LogoutStep
  BY <1>1, <1>2, <1>5, ShowsLogout DEF TInv
<1>6. ASSUME NEW s \in Sessions, Receive(s) \/ ListenerStep(s)
      PROVE  Shows'
  BY <1>1, <1>2, <1>6, ShowsListening, ShowsFailing DEF TInv, ListenerStep
<1>7. CASE UNCHANGED vars
  BY <1>1, <1>7, ShowsSame DEF vars
<1> QED
  BY <1>3, <1>4, <1>5, <1>6, <1>7 DEF Next, Gone

LEMMA ShowsAlways == Spec => [](IInv /\ EarnedInv /\ ShowsInv)
<1>1. Init => ShowsInv
  BY ShowsInit DEF ShowsInv
<1> QED
  BY <1>1, ShowsStep, EarnedAlways, PTL DEF Spec

\* Once the session is gone the program is back where it started, for every
\* number of logins and wherever the failure, the Logout or the exception cut
\* the session off (EAP-DLL.cpp:250-257, LoginDlg.cpp:300-306 and 384-387).
THEOREM EndsClean == Spec => []NoSessionIsClean
<1>1. IInv /\ EarnedInv /\ ShowsInv => NoSessionIsClean
  <2> SUFFICES ASSUME IInv, ShowsInv, Pumping, io = Null, Exiting = {}, raced = {}
               PROVE  /\ auth = Null /\ hThread = Null /\ authMem = {} /\ ioMem = {}
                      /\ AllResting
                      /\ state = "UNCONNECTED" /\ tray = "reset"
                      /\ "login" \in shown
    BY DEF NoSessionIsClean, AllResting
  <2>1. TypeOK /\ Owned /\ Shows
    BY DEF IInv, Owned, ShowsInv
  <2>2. ~Both
    BY <2>1, PointerValues DEF Both, TypeOK
  <2>3. AllResting
    BY <2>1, <2>2, BusyListener DEF AllResting, Exiting
  <2> QED
    BY <2>1, <2>2, <2>3 DEF Owned, GuiOwns, Empty, Shows, RestShows
<1> QED
  BY <1>1, ShowsAlways, PTL

\* The user can always end a session that the server has not: at every line of
\* the success callback and of a re-authentication, and also when the listener
\* thread could not be created (EapEventHandler.cpp:42-73).
THEOREM DisconnectInReach == Spec => []UserCanDisconnect
<1>1. IInv /\ EarnedInv /\ ShowsInv => UserCanDisconnect
  <2> SUFFICES ASSUME IInv, ShowsInv, Pumping, io # Null, modal # "cable",
                      raced = {}, ret[io] # "fail"
               PROVE  WayOut
    BY DEF UserCanDisconnect, WayOut
  <2>1. TypeOK /\ Owned /\ Shows
    BY DEF IInv, Owned, ShowsInv
  <2>2. CASE AllResting
    <3>1. ~Empty /\ Exiting = {}
      BY <2>2, Disjoint DEF Empty, AllResting, Exiting
    <3>2. "login" \notin shown
      BY <2>1, <3>1 DEF Owned, LoginMeansNoSession
    <3> QED
      BY <2>1, <2>2, <3>2 DEF Shows, RestShows, WayOut
  <2>3. CASE ~AllResting
    <3>1. PICK s \in Sessions : lis[s] \notin Resting
      BY <2>3 DEF AllResting
    <3>2. io = s
      BY <2>1, <3>1, LoneListener DEF Owned, ListenerOwns, Both, Empty
    <3>3. lis[s] \notin Failing \cup ExitWindow
      BY <2>1, <3>2 DEF Shows, ListenerShows
    <3> QED
      BY <2>1, <3>1, <3>3
      DEF Shows, ListenerShows, TypeOK, ListenPcs, Working, Answering, Failing,
          WayOut
  <2> QED
    BY <2>2, <2>3
<1> QED
  BY <1>1, ShowsAlways, PTL

\* Login's ASSERT that no session is left (EAP-DLL.cpp:322), which a Login in
\* a listener's exit window breaks, holds outside that window: a user who
\* connects again and again, after failures, disconnects and exceptions, never
\* makes Login overwrite a live session.
THEOREM LoginAssertHolds == Spec => [](raced = {} => LoginFindsNoSession)
<1>1. IInv => (raced = {} => LoginFindsNoSession)
  <2> SUFFICES ASSUME IInv, raced = {}, gui = "login_open"
               PROVE  auth = Null /\ io = Null
    BY DEF LoginFindsNoSession
  <2>1. TInv /\ Owned
    BY DEF IInv, TInv, Owned
  <2>2. AllResting
    BY <2>1, LoginAlone DEF LoginPcs
  <2> QED
    BY <2>1, <2>2 DEF Owned, GuiOwns, Empty
<1> QED
  BY <1>1, OwnershipInvariant, PTL

-----------------------------------------------------------------------------
(* The life of a session.  While no race has happened each step of the two  *)
(* threads is a step of SessionLife, or none that it can tell.              *)

\* What is reported belongs to an open adapter; a listener that is about to
\* assign CONNECTING finds no later state; who was accepted had a listener.
Reported ==
    /\ ioMem = {} => state = "UNCONNECTED"
    /\ \A s \in Sessions :
          lis[s] \in {"reqid_cb", "set_connecting"} =>
              state \in {"UNCONNECTED", "CONNECTING"}
    /\ \A s \in authOk : lis[s] # "none"

ReportedInv == raced = {} => Reported

LEMMA ReportedInit == Init => Reported
  BY DEF Init, Reported

\* A step that SessionLife cannot tell.
LEMMA LifeStays ==
    ASSUME raced = {}, raced' = {}, UNCHANGED <<ioMem, Ending, state, authOk>>
    PROVE  [life!Next]_(life!lifeVars)
  BY DEF life!lifeVars

\* The user's and the posted commands.
LEMMA LifeCommand ==
    ASSUME Reported, raced = {}, raced' = {}, UserCommand \/ PostedCommand
    PROVE  Reported' /\ [life!Next]_(life!lifeVars)
<1>1. /\ UNCHANGED <<ioMem, lis, state, authOk>>
      /\ gui = "idle" /\ gui' \in {"idle", "login_open", "out_check"}
  BY DEF UserCommand, PostedCommand, OnConnect, OpenDialog, OnDisplayConnection,
         CloseDialog, ConnectionDlgDisconnect, TrayDisconnect, CancelConnecting,
         IdleTimeout, OnCancel, ConfirmExit, EndOnlineUpdate, CableBoxClosed,
         PostedDisconnect, OnOnlineUpdate, NestedOnlineUpdate
<1>2. Reported'
  BY <1>1 DEF Reported
<1>3. Ending' = Ending
  BY <1>1 DEF Ending
<1> QED
  BY <1>1, <1>2, <1>3, LifeStays

\* Login opens a session, and its listener has done nothing yet.
LEMMA LifeLogin ==
    ASSUME TInv, Owned, Earned, Reported, raced = {}, raced' = {}, LoginStep
    PROVE  Reported' /\ [life!Next]_(life!lifeVars)
<1>1. /\ UNCHANGED <<state, authOk>> /\ gui \in LoginPcs
      /\ gui' \in LoginPcs \cup {"idle"}
  BY DEF LoginStep, LoginOpen, LoginSetup, LoginAuth, LoginHandlers, LoginStart,
         LoginThread, LoginHandle, ConnectUi, LoginPcs
<1>2. /\ \A s \in Sessions : lis'[s] = lis[s]
                              \/ (lis[s] = "none" /\ lis'[s] = "receive")
      /\ LoginOpen => lis' = lis
  <2>1. CASE LoginThread
    <3>1. lis[logins] = "none" /\ logins \in Sessions
      BY <2>1, LoginAlone DEF LoginThread, LoginPcs
    <3> QED
      BY <2>1, <3>1 DEF LoginThread, LoginOpen, TInv, TypeOK
  <2> QED
    BY <2>1 DEF LoginStep, LoginOpen, LoginSetup, LoginAuth, LoginHandlers,
                LoginStart, LoginHandle, ConnectUi
<1>3. (\E s \in Sessions : lis[s] \in {"del_auth", "del_io"})'
      <=> \E s \in Sessions : lis[s] \in {"del_auth", "del_io"}
  BY <1>2
<1>4. CASE ioMem' = ioMem
  <2>1. Reported'
    BY <1>1, <1>2, <1>4 DEF Reported, TInv, TypeOK
  <2>2. Ending' = Ending
    BY <1>1, <1>3, <1>4 DEF Ending, LoginPcs
  <2> QED
    BY <1>1, <1>4, <2>1, <2>2, LifeStays
<1>5. CASE LoginOpen /\ ioMem' = ioMem \cup {logins}
  <2>1. /\ AllResting /\ Empty /\ logins \in Sessions /\ lis[logins] = "none"
        /\ state = "UNCONNECTED"
    BY <1>5, LoginAlone
    DEF LoginOpen, LoginPcs, Owned, GuiOwns, Earned, GuiUnconnected
  <2>2. lis' = lis /\ logins \notin authOk /\ ioMem = {} /\ ioMem' = {logins}
    BY <1>2, <1>5, <2>1 DEF Reported, Empty
  <2>3. Reported'
    BY <1>1, <2>1, <2>2 DEF Reported
  <2>4. ~\E s \in Sessions : lis[s] \in {"del_auth", "del_io"}
    BY <2>1 DEF AllResting, Resting
  <2>5. Ending = {} /\ Ending' = {}
    BY <1>1, <1>3, <2>2, <2>4 DEF Ending, LoginPcs
  <2>6. life!Open(logins)
    BY <1>1, <2>1, <2>2, <2>5 DEF life!Open
  <2> QED
    BY <2>1, <2>3, <2>6 DEF life!Next
<1>6. ioMem' = ioMem \/ (LoginOpen /\ ioMem' = ioMem \cup {logins})
  BY DEF LoginStep, LoginOpen, LoginSetup, LoginAuth, LoginHandlers, LoginStart,
         LoginThread, LoginHandle, ConnectUi
<1> QED
  BY <1>4, <1>5, <1>6

\* Logout ends the session when no listener is left, and then closes it.
LEMMA LifeLogout ==
    ASSUME TInv, Owned, Earned, Reported, raced = {}, raced' = {}, LogoutStep
    PROVE  Reported' /\ [life!Next]_(life!lifeVars)
<1> DEFINE Exits == \E s \in Sessions : lis[s] \in {"del_auth", "del_io"}
<1>1. authOk' = authOk /\ gui \in LogoutPcs
  BY DEF LogoutStep, StopListenerCheck, StopListenerKill, StopListenerLogoff,
         LogoutAuth, LogoutIo, LogoutUi, LogoutPcs
<1>2. ~Exits
  BY <1>1 DEF Owned, ListenerOwns, ExitWindow, Resting, LogoutPcs
<1>3. gui \in {"out_logoff", "out_auth", "out_io", "out_ui"} => AllResting
  BY DEF Owned, ListenerOwns, AllResting
<1>4. CASE StopListenerCheck \/ StopListenerKill
  <2>1. /\ \A s \in Sessions : lis'[s] = lis[s] \/ lis'[s] = "killed"
        /\ UNCHANGED <<state, ioMem>>
        /\ gui \in {"out_check", "out_kill"}
        /\ gui' \in {"out_check", "out_kill", "out_logoff"}
    BY <1>4 DEF StopListenerCheck, StopListenerKill, TInv, TypeOK
  <2>2. Reported'
    BY <1>1, <2>1 DEF Reported, TInv, TypeOK
  <2>3. ~Exits'
    BY <1>2, <2>1
  <2>4. Ending' = Ending
    BY <1>2, <2>1, <2>3 DEF Ending
  <2> QED
    BY <1>1, <2>1, <2>2, <2>4, LifeStays
<1>5. CASE StopListenerLogoff
  <2>1. /\ UNCHANGED <<ioMem, lis>> /\ AllResting
        /\ Empty \/ Both
        /\ gui = "out_logoff"
        /\ \/ state' = "UNCONNECTED" /\ gui' = "out_auth"
           \/ UNCHANGED <<state, gui>>
    BY <1>3, <1>5 DEF StopListenerLogoff, Owned, GuiOwns
  <2>2. Reported'
    BY <1>1, <2>1 DEF Reported
  <2>3. ~Exits'
    BY <1>2, <2>1
  <2>4. Ending = {}
    BY <1>2, <2>1 DEF Ending
  <2>5. CASE ioMem = {} \/ UNCHANGED <<state, gui>>
    <3>1. Ending' = Ending /\ state' = state
      BY <2>1, <2>3, <2>4, <2>5 DEF Ending, Reported
    <3> QED
      BY <1>1, <2>1, <2>2, <3>1, LifeStays
  <2>6. CASE Both /\ state' = "UNCONNECTED" /\ gui' = "out_auth"
    <3>1. ioMem = {logins} /\ Ending' = {logins} /\ logins \in Sessions
      BY <2>1, <2>6 DEF Both, Ending, TInv, TypeOK
    <3>2. life!End(logins)
      BY <1>1, <2>1, <2>4, <2>6, <3>1 DEF life!End, life!Lives
    <3> QED
      BY <2>2, <3>1, <3>2 DEF life!Next
  <2> QED
    BY <2>1, <2>5, <2>6 DEF Empty
<1>6. CASE LogoutAuth
  <2>1. /\ UNCHANGED <<ioMem, lis, state>>
        /\ gui = "out_auth" /\ gui' \in {"out_auth", "out_io"}
    BY <1>6 DEF LogoutAuth
  <2>2. Reported' /\ Ending' = Ending
    BY <1>1, <2>1 DEF Reported, Ending
  <2> QED
    BY <1>1, <2>1, <2>2, LifeStays
<1>7. CASE LogoutIo
  <2>1. /\ UNCHANGED <<lis, state>> /\ state = "UNCONNECTED"
        /\ gui = "out_io" /\ (Empty \/ IoOnly)
        /\ Deletable(io, ioMem) /\ ioMem' = ioMem \ {io}
    BY <1>3, <1>7 DEF LogoutIo, Earned, GuiUnconnected, Owned, GuiOwns, Empty,
                      IoOnly
  <2>2. Reported'
    BY <1>1, <2>1 DEF Reported
  <2>3. ioMem' = {} /\ Ending' = {} /\ Ending = ioMem
    BY <2>1 DEF Empty, IoOnly, Ending
  <2>4. CASE Empty
    BY <1>1, <2>1, <2>2, <2>3, <2>4, LifeStays DEF Empty
  <2>5. CASE IoOnly
    <3>1. ioMem = {logins} /\ logins \in Sessions
      BY <2>5 DEF IoOnly, TInv, TypeOK
    <3>2. life!Close(logins)
      BY <1>1, <2>1, <2>3, <3>1 DEF life!Close
    <3> QED
      BY <2>2, <3>1, <3>2 DEF life!Next
  <2> QED
    BY <2>1, <2>4, <2>5
<1>8. CASE LogoutUi
  <2>1. /\ UNCHANGED <<ioMem, lis, state>>
        /\ gui = "out_ui" /\ gui' = "idle"
    BY <1>8 DEF LogoutUi
  <2>2. Reported' /\ Ending' = Ending
    BY <1>1, <2>1 DEF Reported, Ending
  <2> QED
    BY <1>1, <2>1, <2>2, LifeStays
<1> QED
  BY <1>4, <1>5, <1>6, <1>7, <1>8 DEF LogoutStep

\* A live listener goes to another place: what there is to say of it.
LEMMA LifeMoves ==
    ASSUME TypeOK, Owned, Reported, NEW s \in Sessions, lis[s] \notin Resting,
           NEW pc \in ListenPcs \ {"none"}, lis' = [lis EXCEPT ![s] = pc],
           gui' = gui, authOk' \subseteq authOk \cup {s},
           ioMem' = {} => state' = "UNCONNECTED",
           pc \in {"reqid_cb", "set_connecting"} =>
               state' \in {"UNCONNECTED", "CONNECTING"}
    PROVE  /\ Reported'
           /\ Ending = IF lis[s] \in {"del_auth", "del_io"} THEN ioMem ELSE {}
           /\ Ending' = IF pc \in {"del_auth", "del_io"} THEN ioMem' ELSE {}
<1>1. /\ lis'[s] = pc
      /\ \A t \in Sessions : t # s => lis'[t] = lis[t] /\ lis[t] \in Resting
  BY LoneListener DEF TypeOK, Owned
<1>2. Reported'
  BY <1>1 DEF Reported, Resting, TypeOK
<1>3. gui \notin {"out_auth", "out_io"}
  BY DEF Owned, ListenerOwns
<1>4. (\E t \in Sessions : lis[t] \in {"del_auth", "del_io"})
      <=> lis[s] \in {"del_auth", "del_io"}
  BY <1>1 DEF Resting
<1>5. (\E t \in Sessions : lis[t] \in {"del_auth", "del_io"})'
      <=> pc \in {"del_auth", "del_io"}
  BY <1>1 DEF Resting
<1> QED
  BY <1>2, <1>3, <1>4, <1>5 DEF Ending

\* A listener's steps until its session has failed.
LEMMA LifeListening ==
    ASSUME TypeOK, Owned, Earned, Reported, raced = {}, raced' = {},
           NEW s \in Sessions,
           \/ Receive(s) \/ RequestIdCallback(s) \/ SetConnecting(s)
           \/ SendResponse(s) \/ SuccessText(s) \/ SuccessTray(s)
           \/ SuccessHide(s) \/ SetConnected(s) \/ FailBox(s) \/ FailHide(s)
           \/ FailShow(s)
    PROVE  Reported' /\ [life!Next]_(life!lifeVars)
<1> DEFINE Goes(pc) == lis' = [lis EXCEPT ![s] = pc]
           Kept == UNCHANGED <<gui, ioMem>>
           Still == UNCHANGED <<gui, ioMem, lis, state, authOk>>
           Busy == {"receive", "reqid_cb", "set_connecting", "send",
                    "succ_text", "succ_tray", "succ_hide", "set_connected",
                    "fail_box", "fail_hide", "fail_show", "fail_tray"}
<1>1. lis[s] \in Busy \ {"fail_tray"}
  BY DEF Receive, RequestIdCallback, SetConnecting, SendResponse, SuccessText,
         SuccessTray, SuccessHide, SetConnected, FailBox, FailHide, FailShow
<1>2. Both /\ s = logins /\ lis[s] \notin Resting
  BY <1>1, BusyListener DEF Resting, ExitWindow
<1>3. ioMem = {s}
  BY <1>2 DEF Both
<1>4. CASE Still
  BY <1>4, LifeStays DEF Reported, Ending
<1>5. Busy \subseteq ListenPcs \ {"none"} /\ "none" \notin Busy
  BY DEF ListenPcs, ExitWindow
<1>6. ASSUME Kept, NEW pc \in Busy, Goes(pc), authOk' \subseteq authOk \cup {s},
             pc \in {"reqid_cb", "set_connecting"} =>
                 state' \in {"UNCONNECTED", "CONNECTING"}
      PROVE  Reported' /\ Ending = {} /\ Ending' = {}
  <2>1. ioMem' # {}
    BY <1>3, <1>6
  <2> QED
    BY <1>1, <1>2, <1>5, <1>6, <2>1, LifeMoves
<1>7. CASE /\ Kept /\ UNCHANGED <<state, authOk>>
           /\ \E pc \in Busy : Goes(pc)
                 /\ (pc \in {"reqid_cb", "set_connecting"} =>
                        state \in {"UNCONNECTED", "CONNECTING"})
  BY <1>6, <1>7, LifeStays
<1>8. CASE Receive(s)
  <2>1. Still \/ (Kept /\ (RetCont(s) \/ RetOk(s) \/ RetFail(s)))
    BY <1>8 DEF Receive
  <2>2. lis[s] = "receive"
    BY <1>8 DEF Receive
  <2>3. CASE Kept /\ RetCont(s)
    <3>1. CASE /\ state \in {"CONNECTED", "RECONNECTING"}
               /\ state' = "RECONNECTING" /\ Goes("send") /\ authOk' = authOk
      <4>1. Reported' /\ Ending = {} /\ Ending' = {}
        BY <1>6, <2>3, <3>1
      <4>2. s \in authOk
        BY <1>2, <3>1 DEF Earned, StateEarned
      <4>3. life!Reauthenticate(s)
        BY <1>3, <2>3, <3>1, <4>1, <4>2
        DEF life!Reauthenticate, life!Reports, life!Lives
      <4> QED
        BY <4>1, <4>3 DEF life!Next
    <3>2. CASE /\ state \in {"UNCONNECTED", "CONNECTING"}
               /\ Goes("reqid_cb") /\ UNCHANGED <<state, authOk>>
      BY <1>7, <2>3, <3>2
    <3> QED
      BY <2>3, <3>1, <3>2 DEF RetCont
  <2>4. CASE Kept /\ RetOk(s)
    <3>1. \E pc \in {"receive", "succ_text"} : Goes(pc)
      <4>1. lis = [lis EXCEPT ![s] = "receive"]
        BY <2>2 DEF TypeOK
      <4> QED
        BY <2>4, <4>1 DEF RetOk
    <3>2. state' = state /\ (authOk' = authOk \/ authOk' = authOk \cup {s})
      BY <2>4 DEF RetOk
    <3>3. Reported' /\ Ending = {} /\ Ending' = {}
      BY <1>6, <2>4, <3>1, <3>2
    <3>4. CASE authOk' = authOk
      BY <2>4, <3>2, <3>3, <3>4, LifeStays
    <3>5. CASE authOk' = authOk \cup {s}
      <4>1. life!Accept(s)
        BY <1>3, <2>4, <3>2, <3>3, <3>5 DEF life!Accept, life!Lives
      <4> QED
        BY <3>3, <4>1 DEF life!Next
    <3> QED
      BY <3>2, <3>4, <3>5
  <2>5. CASE Kept /\ RetFail(s)
    <3>1. \E pc \in {"fail_box", "fail_hide"} : Goes(pc)
      BY <2>5 DEF RetFail
    <3> QED
      BY <1>7, <2>5, <3>1 DEF RetFail
  <2> QED
    BY <1>4, <2>1, <2>3, <2>4, <2>5
<1>9. CASE RequestIdCallback(s) \/ SendResponse(s)
  <2>1. RequestIdCallback(s) => state \in {"UNCONNECTED", "CONNECTING"}
    BY DEF RequestIdCallback, Reported
  <2>2. \/ Still
        \/ /\ Kept /\ UNCHANGED <<state, authOk>>
           /\ \/ RequestIdCallback(s) /\ Goes("set_connecting")
              \/ Goes("receive")
    BY <1>9 DEF RequestIdCallback, SendResponse
  <2> QED
    BY <1>4, <1>7, <2>1, <2>2
<1>10. CASE SetConnecting(s)
  <2>1. /\ Kept /\ Goes("send") /\ state' = "CONNECTING" /\ authOk' = authOk
        /\ state \in {"UNCONNECTED", "CONNECTING"}
    BY <1>10 DEF SetConnecting, Reported
  <2>2. Reported' /\ Ending = {} /\ Ending' = {}
    BY <1>6, <2>1
  <2>3. life!Connect(s)
    BY <1>3, <2>1, <2>2 DEF life!Connect, life!Reports, life!Lives
  <2> QED
    BY <2>2, <2>3 DEF life!Next
<1>11. CASE SetConnected(s)
  <2>1. /\ Kept /\ Goes("receive") /\ state' = "CONNECTED" /\ authOk' = authOk
        /\ state = "CONNECTING" /\ s \in authOk
    BY <1>11 DEF SetConnected, Earned, ListenerEarned, Succeeding
  <2>2. Reported' /\ Ending = {} /\ Ending' = {}
    BY <1>6, <2>1
  <2>3. life!Succeed(s)
    BY <1>3, <2>1, <2>2 DEF life!Succeed, life!Reports, life!Lives
  <2> QED
    BY <2>2, <2>3 DEF life!Next
<1>12. CASE \/ SuccessText(s) \/ SuccessTray(s) \/ SuccessHide(s)
            \/ FailBox(s) \/ FailHide(s) \/ FailShow(s)
  <2>1. /\ Kept /\ UNCHANGED <<state, authOk>>
        /\ \E pc \in Busy \ {"reqid_cb", "set_connecting"} : Goes(pc)
    BY <1>12 DEF SuccessText, SuccessTray, SuccessHide, FailBox, FailHide, FailShow
  <2> QED
    BY <1>7, <2>1
<1> QED
  BY <1>8, <1>9, <1>10, <1>11, <1>12

\* A listener's way out: the session ends with the assignment of UNCONNECTED,
\* and closes with the deletion of io.
LEMMA LifeExit ==
    ASSUME TypeOK, Owned, Earned, Reported, raced = {}, raced' = {},
           NEW s \in Sessions,
           \/ FailTray(s) \/ SetUnconnected(s) \/ ExitDeleteAuth(s)
           \/ ExitDeleteIo(s) \/ ExitNullAuth(s) \/ ExitNullIo(s)
           \/ ExitNullThread(s)
    PROVE  Reported' /\ [life!Next]_(life!lifeVars)
<1> DEFINE Goes(pc) == lis' = [lis EXCEPT ![s] = pc]
           Still == UNCHANGED <<gui, ioMem, lis, state, authOk>>
<1>1. lis[s] \in ExitWindow /\ lis[s] \notin Resting
  BY DEF FailTray, SetUnconnected, ExitDeleteAuth, ExitDeleteIo, ExitNullAuth,
         ExitNullIo, ExitNullThread, ExitWindow, Resting
<1>2. ExitWindow \cup {"ended"} \subseteq ListenPcs \ {"none"}
  BY DEF ListenPcs, ExitWindow, Resting
<1>3. CASE Still
  BY <1>3, LifeStays DEF Reported, Ending
<1>4. CASE FailTray(s)
  <2>1. /\ UNCHANGED <<gui, ioMem, state, authOk>> /\ Goes("set_unconnected")
        /\ lis[s] = "fail_tray"
    BY <1>4 DEF FailTray
  <2>2. "set_unconnected" \in ListenPcs \ {"none"}
    BY <1>2 DEF ExitWindow
  <2>3. ioMem' = {} => state' = "UNCONNECTED"
    BY <2>1 DEF Reported
  <2>4. Reported' /\ Ending = {} /\ Ending' = {}
    BY <1>1, <2>1, <2>2, <2>3, LifeMoves
  <2> QED
    BY <2>1, <2>4, LifeStays
<1>5. CASE SetUnconnected(s)
  <2>1. /\ UNCHANGED <<gui, ioMem, authOk>> /\ Goes("del_auth")
        /\ lis[s] = "set_unconnected" /\ state' = "UNCONNECTED"
    BY <1>5 DEF SetUnconnected
  <2>2. "del_auth" \in ListenPcs \ {"none"}
    BY <1>2 DEF ExitWindow
  <2>3. Reported' /\ Ending = {} /\ Ending' = ioMem'
    BY <1>1, <2>1, <2>2, LifeMoves
  <2>4. ioMem = {s}
    BY <1>1, <2>1, LoneListener DEF Owned, ListenerOwns, Both
  <2>5. life!End(s)
    BY <2>1, <2>3, <2>4 DEF life!End, life!Lives
  <2> QED
    BY <2>3, <2>5 DEF life!Next
<1>6. CASE ExitDeleteAuth(s)
  <2>1. Still \/ (/\ UNCHANGED <<gui, ioMem, authOk, state>> /\ Goes("del_io")
                  /\ lis[s] = "del_auth" /\ state = "UNCONNECTED")
    BY <1>6 DEF ExitDeleteAuth, Earned, ListenerEarned, Leaving
  <2>2. "del_io" \in ListenPcs \ {"none"}
    BY <1>2 DEF ExitWindow
  <2>3. CASE ~Still
    <3>1. Reported' /\ Ending' = Ending
      BY <1>1, <2>1, <2>2, <2>3, LifeMoves
    <3> QED
      BY <2>1, <2>3, <3>1, LifeStays
  <2> QED
    BY <1>3, <2>3
<1>7. CASE ExitDeleteIo(s)
  <2>1. io = s /\ ioMem = {s}
    BY <1>1, <1>7 DEF ExitDeleteIo, Owned, ListenerOwns
  <2>2. /\ UNCHANGED <<gui, authOk, state>> /\ Goes("null_auth")
        /\ lis[s] = "del_io" /\ state = "UNCONNECTED" /\ ioMem' = {}
    BY <1>7, <2>1 DEF ExitDeleteIo, Earned, ListenerEarned, Leaving, Deletable
  <2>3. "null_auth" \in ListenPcs \ {"none"}
    BY <1>2 DEF ExitWindow
  <2>4. Reported' /\ Ending = {s} /\ Ending' = {}
    BY <1>1, <2>1, <2>2, <2>3, LifeMoves
  <2>5. life!Close(s)
    BY <2>1, <2>2, <2>4 DEF life!Close
  <2> QED
    BY <2>4, <2>5 DEF life!Next
<1>8. CASE ExitNullAuth(s) \/ ExitNullIo(s) \/ ExitNullThread(s)
  <2>1. /\ UNCHANGED <<gui, ioMem, authOk, state>> /\ state = "UNCONNECTED"
        /\ lis[s] \in {"null_auth", "null_io", "null_thread"}
        /\ \E pc \in {"null_io", "null_thread", "ended"} : Goes(pc)
    BY <1>8 DEF ExitNullAuth, ExitNullIo, ExitNullThread, Earned,
                ListenerEarned, Leaving
  <2>2. {"null_io", "null_thread", "ended"} \subseteq ListenPcs \ {"none"}
    BY <1>2 DEF ExitWindow
  <2>3. Reported' /\ Ending = {} /\ Ending' = {}
    BY <1>1, <2>1, <2>2, LifeMoves
  <2> QED
    BY <2>1, <2>3, LifeStays
<1> QED
  BY <1>4, <1>5, <1>6, <1>7, <1>8

LEMMA LifeStep ==
    IInv /\ EarnedInv /\ ReportedInv /\ [Next]_vars
    => ReportedInv' /\ [life!Next]_(life!lifeVars)
<1> SUFFICES ASSUME IInv, EarnedInv, ReportedInv, [Next]_vars
             PROVE  ReportedInv' /\ [life!Next]_(life!lifeVars)
  OBVIOUS
<1>1. CASE raced' # {}
  BY <1>1 DEF ReportedInv, life!Next, life!Overtake
<1>2. CASE raced' = {}
  <2>1. raced = {} /\ Earned /\ Reported
    BY <1>2, RacedGrows DEF EarnedInv, ReportedInv
  <2>2. TInv /\ Owned
    BY <2>1 DEF IInv, TInv, Owned
  <2>3. CASE UserCommand \/ PostedCommand
    BY <1>2, <2>1, <2>3, LifeCommand DEF ReportedInv
  <2>4. CASE LoginStep
    BY <1>2, <2>1, <2>2, <2>4, LifeLogin DEF ReportedInv
  <2>5. CASE LogoutStep
    BY <1>2, <2>1, <2>2, <2>5, LifeLogout DEF ReportedInv
  <2>6. ASSUME NEW s \in Sessions, Receive(s) \/ ListenerStep(s)
        PROVE  ReportedInv' /\ [life!Next]_(life!lifeVars)
    BY <1>2, <2>1, <2>2, <2>6, LifeListening, LifeExit
    DEF ReportedInv, TInv, ListenerStep
  <2>7. CASE UNCHANGED vars
    <3>1. Reported' /\ UNCHANGED <<ioMem, Ending, state, authOk>>
      BY <2>1, <2>7 DEF vars, Reported, Ending
    <3> QED
      BY <1>2, <2>1, <3>1, LifeStays DEF ReportedInv
  <2> QED
    BY <2>3, <2>4, <2>5, <2>6, <2>7 DEF Next, Gone
<1> QED
  BY <1>1, <1>2

\* EAP.DLL is what its caller takes it for: one session at a time, whose state
\* goes up and down in order and ends with it, for any number of logins, with
\* callbacks that sleep before the state they announce is assigned and with
\* TerminateThread at any line, until a listener is overtaken in its exit
\* window (EAP-DLL.cpp 172-257, 271-290, 313-361).
THEOREM LivesOneSession == Spec => ImplementsLife
<1>1. Init => life!Init /\ ReportedInv
  BY ReportedInit DEF Init, life!Init, Ending, ReportedInv
<1> QED
  BY <1>1, EarnedAlways, LifeStep, PTL DEF Spec, ImplementsLife, life!Spec

=============================================================================
