---------------------------- MODULE OnlineUpdate ----------------------------
(***************************************************************************)
(* The online update: LoginDlg::OnOnlineUpdate on the GUI thread, its modal *)
(* dialog CDownloadProgressDlg, and the thread that downloads the file.     *)
(*                                                                         *)
(* The dialog is an object on the stack of OnOnlineUpdate; the thread keeps *)
(* a pointer to its m_downloadParam and its window.  A modal loop dispatches *)
(* every message, so the tray menu can call OnOnlineUpdate again from within *)
(* it: the calls nest, and the innermost returns first.  What Windows does   *)
(* (message queues, SendMessage, URLDownloadToCacheFile) is external.        *)
(***************************************************************************)
EXTENDS Integers, Sequences

CONSTANTS Downloads     \* bound: the downloads that are begun

VARIABLES
    calls,      \* downloads whose OnOnlineUpdate has not returned, innermost last
    waiting,    \* the GUI thread waits in OnEndDownload; no message is handled
    quit,       \* the main window is destroyed, WM_QUIT is posted
    dlg,        \* download -> what its dialog object is doing
    result,     \* download -> what EndDialog was called with
    cwin,       \* download -> its CWinThread object
    thread,     \* download -> where the thread is
    name,       \* download -> m_downloadParam.strFileName
    posted,     \* download -> WM_USER_ENDDOWNLOAD is in the queue
    restarts,   \* m_strSaveFile of the restart.bat files run
    fault,      \* an object is used that is gone
    cancelled   \* history: downloads the user cancelled

gui == <<calls, waiting, quit, dlg, result, cwin, restarts>>
vars == <<gui, thread, name, posted, fault, cancelled>>

Nothing == "none"

ASSUME DownloadsAssumption == Nothing \notin Downloads

Innermost(d) == calls # <<>> /\ d = calls[Len(calls)]

\* The innermost modal loop waits for a message.
Pumping ==
    /\ waiting = Nothing
    /\ \A d \in Downloads : Innermost(d) => result[d] = Nothing \/ dlg[d] = "box"

\* OnOnlineUpdate returns: its dialog object is destroyed.
Returns(d) ==
    /\ Innermost(d)
    /\ calls' = SubSeq(calls, 1, Len(calls) - 1)

\* The thread reads or writes m_downloadParam, or its event handle.
Touches(d) == fault' = (fault \/ dlg[d] = "gone")

-----------------------------------------------------------------------------
(* The GUI thread.                                                         *)

\* A new version, and the user says yes: DoModal, OnInitDialog.
OnOnlineUpdate(d) ==
    /\ Pumping /\ ~quit /\ dlg[d] = Nothing
    /\ calls' = Append(calls, d)
    /\ dlg' = [dlg EXCEPT ![d] = "open"]
    /\ cwin' = [cwin EXCEPT ![d] = "live"]
    /\ thread' = [thread EXCEPT ![d] = "download"]
    /\ UNCHANGED <<waiting, quit, result, name, posted, restarts, fault,
                   cancelled>>

\* IDS_INVALID_URL: the dialog is cancelled before there is a thread.
InvalidURL(d) ==
    /\ Pumping /\ ~quit /\ dlg[d] = Nothing
    /\ calls' = Append(calls, d)
    /\ dlg' = [dlg EXCEPT ![d] = "open"]
    /\ result' = [result EXCEPT ![d] = "cancel"]
    /\ UNCHANGED <<waiting, quit, cwin, thread, name, posted, restarts, fault,
                   cancelled>>

\* The Cancel button: CDialog::OnCancel.  m_eventStop is not set.
OnCancel(d) ==
    /\ Pumping /\ Innermost(d) /\ dlg[d] = "open"
    /\ result' = [result EXCEPT ![d] = "cancel"]
    /\ cancelled' = cancelled \cup {d}
    /\ UNCHANGED <<calls, waiting, quit, dlg, cwin, thread, name, posted,
                   restarts, fault>>

\* The thread's SendMessage returns when the dialog has handled it.
OnDisplayStatus(d) ==
    /\ Pumping /\ dlg[d] = "open" /\ thread[d] = "status"
    /\ thread' = [thread EXCEPT ![d] = "check_stop"]
    /\ UNCHANGED <<gui, name, posted, fault, cancelled>>

OnEndDownload(d) ==
    /\ Pumping /\ dlg[d] = "open" /\ posted[d]
    /\ posted' = [posted EXCEPT ![d] = FALSE]
    /\ waiting' = d
    /\ fault' = (fault \/ cwin[d] # "live")
    /\ UNCHANGED <<calls, quit, dlg, result, cwin, thread, name, restarts,
                   cancelled>>

\* Mutant of ThreadHasEnded: nobody waits for the thread.
ThreadHasEndedAlways(d) == TRUE

\* WaitForSingleObject(m_pDownloadThread->m_hThread, INFINITE)
ThreadHasEnded(d) == thread[d] = "ended"

\* The rest of OnEndDownload.
EndDownload(d) ==
    /\ waiting = d /\ ThreadHasEnded(d)
    /\ waiting' = Nothing
    /\ cwin' = [cwin EXCEPT ![d] = "deleted"]
    /\ result' = [result EXCEPT ![d] = IF name[d] = "empty" THEN "cancel" ELSE "ok"]
    /\ UNCHANGED <<calls, quit, dlg, thread, name, posted, restarts, fault,
                   cancelled>>

\* DoModal returns IDOK, and a message box tells the user.
ModalOk(d) ==
    /\ waiting = Nothing /\ Innermost(d) /\ dlg[d] = "open"
    /\ result[d] = "ok"
    /\ dlg' = [dlg EXCEPT ![d] = "box"]
    /\ UNCHANGED <<calls, waiting, quit, result, cwin, thread, name, posted,
                   restarts, fault, cancelled>>

\* DoModal returns something else: IDCANCEL, or -1 when it sees WM_QUIT.
ModalCancelled(d) ==
    /\ waiting = Nothing /\ dlg[d] = "open"
    /\ result[d] = "cancel" \/ (quit /\ result[d] = Nothing)
    /\ Returns(d)
    /\ dlg' = [dlg EXCEPT ![d] = "gone"]
    /\ posted' = [posted EXCEPT ![d] = FALSE]
    /\ UNCHANGED <<waiting, quit, result, cwin, thread, name, restarts, fault,
                   cancelled>>

\* The box is closed: OnDisconnect, DestroyWindow, and restart.bat, which
\* deletes the program and puts m_strSaveFile in its place.
Restart(d) ==
    /\ waiting = Nothing /\ dlg[d] = "box"
    /\ Returns(d)
    /\ dlg' = [dlg EXCEPT ![d] = "gone"]
    /\ restarts' = restarts \cup {name[d]}
    /\ quit' = TRUE
    /\ UNCHANGED <<waiting, result, cwin, thread, name, posted, fault,
                   cancelled>>

\* Exit, from the tray menu.
Exit ==
    /\ Pumping /\ ~quit
    /\ quit' = TRUE
    /\ UNCHANGED <<calls, waiting, dlg, result, cwin, thread, name, posted,
                   restarts, fault, cancelled>>

-----------------------------------------------------------------------------
(* The download thread.                                                    *)

ThreadGoes(d, from, to) ==
    /\ ~(quit /\ calls = <<>>)
    /\ thread[d] = from
    /\ thread' = [thread EXCEPT ![d] = to]

\* OnProgress: the status is sent to the dialog.
OnProgress(d) ==
    /\ ThreadGoes(d, "download", "status")
    /\ name' = [name EXCEPT ![d] = "part"]
    /\ Touches(d)
    /\ UNCHANGED <<gui, posted, cancelled>>

\* SendMessage returns at once if the window is gone.
StatusFails(d) ==
    /\ ThreadGoes(d, "status", "check_stop")
    /\ dlg[d] \in {"box", "gone"}
    /\ UNCHANGED <<gui, name, posted, fault, cancelled>>

\* m_eventStop is never set, and its handle closed if the dialog is gone.
CheckStop(d) ==
    /\ ThreadGoes(d, "check_stop", "download")
    /\ Touches(d)
    /\ UNCHANGED <<gui, name, posted, cancelled>>

\* Mutant of DownloadFails: the buffer is released as if all had gone well.
DownloadFailsKeepsName(d) ==
    /\ ThreadGoes(d, "download", "post")
    /\ Touches(d)
    /\ UNCHANGED <<gui, name, posted, cancelled>>

\* "empty the filename string if failed or canceled"
DownloadFails(d) ==
    /\ ThreadGoes(d, "download", "post")
    /\ name' = [name EXCEPT ![d] = "empty"]
    /\ Touches(d)
    /\ UNCHANGED <<gui, posted, cancelled>>

DownloadSucceeds(d) ==
    /\ ThreadGoes(d, "download", "post")
    /\ name' = [name EXCEPT ![d] = "file"]
    /\ Touches(d)
    /\ UNCHANGED <<gui, posted, cancelled>>

\* Mutant of PostEnd: only a download that succeeded is reported.
PostEndIfOk(d) ==
    /\ ThreadGoes(d, "post", "return")
    /\ posted' = [posted EXCEPT ![d] = (dlg[d] = "open" /\ name[d] # "empty")]
    /\ Touches(d)
    /\ UNCHANGED <<gui, name, cancelled>>

\* PostMessage(hWnd, WM_USER_ENDDOWNLOAD)
PostEnd(d) ==
    /\ ThreadGoes(d, "post", "return")
    /\ posted' = [posted EXCEPT ![d] = (dlg[d] = "open")]
    /\ Touches(d)
    /\ UNCHANGED <<gui, name, cancelled>>

\* Mutant of ThreadReturns: the end is posted until the dialog is closed.
ThreadReturnsWhenClosed(d) ==
    /\ ThreadGoes(d, "return", IF dlg[d] = "open" THEN "post" ELSE "ended")
    /\ fault' = (fault \/ cwin[d] = "deleted")
    /\ UNCHANGED <<gui, name, posted, cancelled>>

\* MFC's thread entry looks at the CWinThread object once more.
ThreadReturns(d) ==
    /\ ThreadGoes(d, "return", "ended")
    /\ fault' = (fault \/ cwin[d] = "deleted")
    /\ UNCHANGED <<gui, name, posted, cancelled>>

\* InitInstance's message loop has ended: the process ends.
Ended == quit /\ calls = <<>> /\ UNCHANGED vars

-----------------------------------------------------------------------------
Init ==
    /\ calls = <<>> /\ waiting = Nothing /\ quit = FALSE
    /\ dlg = [d \in Downloads |-> Nothing]
    /\ result = [d \in Downloads |-> Nothing]
    /\ cwin = [d \in Downloads |-> "null"]
    /\ thread = [d \in Downloads |-> Nothing]
    /\ name = [d \in Downloads |-> "empty"]
    /\ posted = [d \in Downloads |-> FALSE]
    /\ restarts = {} /\ fault = FALSE /\ cancelled = {}

User(d) == OnOnlineUpdate(d) \/ InvalidURL(d) \/ OnCancel(d) \/ Restart(d)

MessageLoop(d) ==
    \/ OnDisplayStatus(d) \/ OnEndDownload(d) \/ EndDownload(d)
    \/ ModalOk(d) \/ ModalCancelled(d)

Thread(d) ==
    \/ OnProgress(d) \/ StatusFails(d) \/ CheckStop(d)
    \/ DownloadFails(d) \/ DownloadSucceeds(d) \/ PostEnd(d) \/ ThreadReturns(d)

Next ==
    \/ \E d \in Downloads : User(d) \/ MessageLoop(d) \/ Thread(d)
    \/ Exit \/ Ended

Spec == Init /\ [][Next]_vars

\* The threads run; a download need not end and the user need not do anything.
FairSpec ==
    /\ Spec
    /\ \A d \in Downloads :
          WF_vars(MessageLoop(d)) /\ WF_vars(PostEnd(d) \/ ThreadReturns(d))

-----------------------------------------------------------------------------
TypeOK ==
    /\ calls \in Seq(Downloads)
    /\ waiting \in Downloads \cup {Nothing} /\ quit \in BOOLEAN
    /\ dlg \in [Downloads -> {Nothing, "open", "box", "gone"}]
    /\ result \in [Downloads -> {Nothing, "ok", "cancel"}]
    /\ cwin \in [Downloads -> {"null", "live", "deleted"}]
    /\ thread \in [Downloads -> {Nothing, "download", "status", "check_stop",
                                 "post", "return", "ended"}]
    /\ name \in [Downloads -> {"empty", "part", "file"}]
    /\ posted \in [Downloads -> BOOLEAN]
    /\ restarts \subseteq {"empty", "part", "file"}
    /\ fault \in BOOLEAN /\ cancelled \subseteq Downloads

(***************************************************************************)
(* Properties.                                                             *)
(***************************************************************************)

\* restart.bat deletes the program before it copies the file: it is run only
\* with the name of a file that has arrived completely, whatever was cancelled
\* or failed before and however the calls are nested.
RestartsWithFile == restarts \subseteq {"file"}

\* While nobody cancels a download or exits, the thread uses its dialog only
\* as long as it exists, and the CWinThread object is deleted only when the
\* thread is through with it.
FaultsNeedCancel == fault => cancelled # {} \/ quit

\* OnEndDownload, which handles no messages, does not wait for ever for a
\* thread that waits for the dialog.
WaitReturns ==
    \A d \in Downloads : waiting = d ~> waiting # d

\* A download that has ended closes its dialog, unless that is gone already.
EndIsSeen ==
    \A d \in Downloads : thread[d] = "ended" ~> result[d] # Nothing \/ quit
=============================================================================
