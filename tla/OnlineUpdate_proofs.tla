------------------------ MODULE OnlineUpdate_proofs -------------------------
(***************************************************************************)
(* Proofs about OnlineUpdate, for every number of downloads: restart.bat is *)
(* run only with a file that has arrived, and the thread and its dialog use *)
(* each other's objects in time as long as nobody cancels or exits.         *)
(***************************************************************************)
EXTENDS OnlineUpdate, TLAPS

USE DownloadsAssumption DEF gui, Nothing

\* Where the thread is and what it has left in its parameters.
Working  == {"download", "status", "check_stop"}
Finished == {"post", "return", "ended"}

\* The part of the types that the argument needs.
Shapes ==
    /\ dlg \in [Downloads -> {Nothing, "open", "box", "gone"}]
    /\ result \in [Downloads -> {Nothing, "ok", "cancel"}]
    /\ cwin \in [Downloads -> {"null", "live", "deleted"}]
    /\ thread \in [Downloads -> {Nothing} \cup Working \cup Finished]
    /\ name \in [Downloads -> {"empty", "part", "file"}]
    /\ posted \in [Downloads -> BOOLEAN]
    /\ fault \in BOOLEAN /\ quit \in BOOLEAN

\* One download, from its dialog to the end of its thread.
Stages(d) ==
    /\ dlg[d] = Nothing =>
          /\ thread[d] = Nothing /\ result[d] = Nothing /\ cwin[d] = "null"
          /\ ~posted[d] /\ waiting # d
    /\ thread[d] = Nothing <=> cwin[d] = "null"
    /\ thread[d] = Nothing => ~posted[d] /\ waiting # d
    /\ thread[d] \in Working \cup {"post"} =>
          ~posted[d] /\ waiting # d /\ cwin[d] = "live"
    /\ thread[d] \in Finished => name[d] \in {"empty", "file"}
    /\ posted[d] => waiting # d /\ cwin[d] = "live"
    /\ waiting = d => cwin[d] = "live"
    /\ cwin[d] = "deleted" => thread[d] = "ended"
    /\ result[d] = "ok" => thread[d] = "ended" /\ name[d] = "file"
    /\ dlg[d] = "box" => result[d] = "ok"

\* Unless somebody cancels or exits, a dialog goes after its thread.
InTime ==
    cancelled = {} /\ ~quit =>
        /\ ~fault
        /\ \A d \in Downloads :
              /\ result[d] # Nothing => thread[d] \in {Nothing, "ended"}
              /\ dlg[d] = "gone" => thread[d] \in {Nothing, "ended"}

DInv ==
    /\ Shapes
    /\ \A d \in Downloads : Stages(d)
    /\ InTime
    /\ RestartsWithFile

LEMMA DInvInit == Init => DInv
<1> SUFFICES ASSUME Init PROVE DInv
  OBVIOUS
<1>1. Shapes
  BY DEF Init, Shapes
<1>2. ASSUME NEW d \in Downloads PROVE Stages(d)
  <2>1. /\ dlg[d] = Nothing /\ thread[d] = Nothing /\ result[d] = Nothing
        /\ cwin[d] = "null" /\ posted[d] = FALSE /\ waiting # d
    BY DEF Init
  <2> QED
    BY <2>1 DEF Stages, Working, Finished
<1>3. InTime /\ RestartsWithFile
  BY DEF Init, InTime, RestartsWithFile
<1> QED
  BY <1>1, <1>2, <1>3 DEF DInv

\* The GUI thread's steps for download d.
LEMMA GuiStep ==
    ASSUME DInv, NEW d \in Downloads, User(d) \/ MessageLoop(d)
    PROVE  DInv'
<1> USE DEF DInv, Working, Finished
<1> USE DEF Returns, Innermost
<1>1. CASE OnOnlineUpdate(d)
  BY <1>1 DEF OnOnlineUpdate, Shapes, Stages, InTime, RestartsWithFile
<1>2. CASE InvalidURL(d)
  BY <1>2 DEF InvalidURL, Shapes, Stages, InTime, RestartsWithFile
<1>3. CASE OnCancel(d)
  <2>1. result[d] = Nothing
    BY <1>3 DEF OnCancel, Pumping, Shapes
  <2> QED
    BY <1>3, <2>1 DEF OnCancel, Shapes, Stages, InTime, RestartsWithFile
<1>4. CASE Restart(d)
  <2>1. name[d] = "file"
    BY <1>4 DEF Restart, Stages
  <2> QED
    BY <1>4, <2>1 DEF Restart, Shapes, Stages, InTime, RestartsWithFile
<1>5. CASE OnDisplayStatus(d)
  BY <1>5 DEF OnDisplayStatus, Shapes, Stages, InTime, RestartsWithFile
<1>6. CASE OnEndDownload(d)
  <2>1. fault' = fault /\ thread[d] \in {"return", "ended"}
    BY <1>6 DEF OnEndDownload, Shapes, Stages
  <2> QED
    BY <1>6, <2>1
    DEF OnEndDownload, Pumping, Shapes, Stages, InTime, RestartsWithFile
<1>7. CASE EndDownload(d)
  <2>1. thread[d] = "ended" /\ name[d] \in {"empty", "file"} /\ ~posted[d]
    BY <1>7 DEF EndDownload, ThreadHasEnded, Stages
  <2> QED
    <3>1. Shapes' /\ RestartsWithFile'
      BY <1>7 DEF EndDownload, Shapes, RestartsWithFile
    <3>2. \A e \in Downloads : Stages(e)'
      <4>1. Stages(d)'
        BY <1>7, <2>1 DEF EndDownload, Shapes, Stages
      <4>2. ASSUME NEW e \in Downloads, e # d PROVE Stages(e)'
        BY <1>7, <4>2 DEF EndDownload, Shapes, Stages
      <4> QED
        BY <4>1, <4>2
    <3>3. InTime'
      BY <1>7, <2>1 DEF EndDownload, Shapes, InTime
    <3> QED
      BY <3>1, <3>2, <3>3
<1>8. CASE ModalOk(d)
  BY <1>8 DEF ModalOk, Shapes, Stages, InTime, RestartsWithFile
<1>9. CASE ModalCancelled(d)
  BY <1>9 DEF ModalCancelled, Shapes, Stages, InTime, RestartsWithFile
<1> QED
  BY <1>1, <1>2, <1>3, <1>4, <1>5, <1>6, <1>7, <1>8, <1>9 DEF User, MessageLoop

\* The thread's steps for download d: it touches its dialog before it has
\* ended, and so in time.
LEMMA ThreadStep ==
    ASSUME DInv, NEW d \in Downloads, Thread(d)
    PROVE  DInv'
<1> USE DEF DInv, Working, Finished, ThreadGoes, Touches
<1>1. cancelled = {} /\ ~quit /\ thread[d] \notin {Nothing, "ended"}
      => dlg[d] # "gone" /\ result[d] = Nothing
  BY DEF InTime
<1>2. CASE OnProgress(d) \/ CheckStop(d)
  <2>1. /\ thread[d] \in Working
        /\ UNCHANGED <<gui, posted, cancelled>>
        /\ \E to \in Working : thread' = [thread EXCEPT ![d] = to]
        /\ name' = name \/ name' = [name EXCEPT ![d] = "part"]
        /\ fault' = (fault \/ dlg[d] = "gone")
    BY <1>2 DEF OnProgress, CheckStop
  <2>2. Shapes' /\ RestartsWithFile'
    BY <2>1 DEF Shapes, RestartsWithFile
  <2>3. \A e \in Downloads : Stages(e)'
    BY <2>1 DEF Shapes, Stages
  <2>4. InTime'
    BY <1>1, <2>1 DEF Shapes, InTime
  <2> QED
    BY <2>2, <2>3, <2>4
<1>3. CASE StatusFails(d)
  BY <1>1, <1>3 DEF StatusFails, Shapes, Stages, InTime, RestartsWithFile
<1>4. CASE DownloadFails(d) \/ DownloadSucceeds(d)
  <2>1. /\ thread[d] = "download" /\ thread' = [thread EXCEPT ![d] = "post"]
        /\ UNCHANGED <<gui, posted, cancelled>>
        /\ \E n \in {"empty", "file"} : name' = [name EXCEPT ![d] = n]
        /\ fault' = (fault \/ dlg[d] = "gone")
    BY <1>4 DEF DownloadFails, DownloadSucceeds
  <2>2. Shapes' /\ RestartsWithFile'
    BY <2>1 DEF Shapes, RestartsWithFile
  <2>3. \A e \in Downloads : Stages(e)'
    BY <2>1 DEF Shapes, Stages
  <2>4. InTime'
    BY <1>1, <2>1 DEF Shapes, InTime
  <2> QED
    BY <2>2, <2>3, <2>4
<1>5. CASE PostEnd(d)
  BY <1>1, <1>5 DEF PostEnd, Shapes, Stages, InTime, RestartsWithFile
<1>6. CASE ThreadReturns(d)
  BY <1>1, <1>6 DEF ThreadReturns, Shapes, Stages, InTime, RestartsWithFile
<1> QED
  BY <1>2, <1>3, <1>4, <1>5, <1>6 DEF Thread

LEMMA DInvStep == DInv /\ [Next]_vars => DInv'
<1> SUFFICES ASSUME DInv, [Next]_vars PROVE DInv'
  OBVIOUS
<1>1. CASE \E d \in Downloads : User(d) \/ MessageLoop(d) \/ Thread(d)
  BY <1>1, GuiStep, ThreadStep
<1>2. CASE Exit
  BY <1>2 DEF Exit, DInv, Shapes, Stages, InTime, RestartsWithFile
<1>3. CASE UNCHANGED vars
  BY <1>3 DEF vars, DInv, Shapes, Stages, InTime, RestartsWithFile
<1> QED
  BY <1>1, <1>2, <1>3 DEF Next, Ended

\* The program is replaced only by a file that has arrived, however many
\* downloads are cancelled, fail or run at the same time (LoginDlg.cpp:457).
THEOREM RestartIsSafe == Spec => []RestartsWithFile
<1>1. DInv => RestartsWithFile
  BY DEF DInv
<1> QED
  BY DInvInit, DInvStep, <1>1, PTL DEF Spec

\* Without a Cancel or an Exit the dialog outlives its thread, and the thread
\* its CWinThread object (DownloadProgressDlg.cpp:302-309).
THEOREM DialogOutlivesThread == Spec => []FaultsNeedCancel
<1>1. DInv => FaultsNeedCancel
  BY DEF DInv, InTime, FaultsNeedCancel
<1> QED
  BY DInvInit, DInvStep, <1>1, PTL DEF Spec

-----------------------------------------------------------------------------
(* The nested calls.                                                       *)

Calls ==
    /\ calls \in Seq(Downloads) /\ waiting \in Downloads \cup {Nothing}
    /\ cancelled \subseteq Downloads /\ restarts \subseteq {"empty", "part", "file"}

LEMMA CallsStep ==
    ASSUME Calls, DInv, [Next]_vars
    PROVE  Calls'
<1> USE DEF Calls
<1>1. \A d \in Downloads : Append(calls, d) \in Seq(Downloads)
  OBVIOUS
<1>2. ASSUME NEW d \in Downloads, Returns(d)
      PROVE  calls' \in Seq(Downloads)
  BY <1>2 DEF Returns, Innermost
<1>3. ASSUME NEW d \in Downloads, User(d)
      PROVE  Calls'
  <2>1. CASE OnOnlineUpdate(d) \/ InvalidURL(d) \/ OnCancel(d)
    BY <1>1, <2>1 DEF OnOnlineUpdate, InvalidURL, OnCancel
  <2>2. CASE Restart(d)
    BY <1>2, <2>2 DEF Restart, DInv, Shapes
  <2> QED
    BY <1>3, <2>1, <2>2 DEF User
<1>4. ASSUME NEW d \in Downloads, MessageLoop(d)
      PROVE  Calls'
  <2>1. CASE OnDisplayStatus(d) \/ OnEndDownload(d) \/ EndDownload(d) \/ ModalOk(d)
    BY <2>1 DEF OnDisplayStatus, OnEndDownload, EndDownload, ModalOk
  <2>2. CASE ModalCancelled(d)
    BY <1>2, <2>2 DEF ModalCancelled
  <2> QED
    BY <1>4, <2>1, <2>2 DEF MessageLoop
<1>5. ASSUME NEW d \in Downloads, Thread(d)
      PROVE  Calls'
  BY <1>5 DEF Thread, OnProgress, StatusFails, CheckStop, DownloadFails,
     DownloadSucceeds, PostEnd, ThreadReturns
<1>6. CASE Exit
  BY <1>6 DEF Exit
<1>7. CASE UNCHANGED vars
  BY <1>7 DEF vars
<1> QED
  BY <1>3, <1>4, <1>5, <1>6, <1>7 DEF Next, Ended

\* The variables keep their types: EndDialog is given a button, and the calls
\* of OnOnlineUpdate nest and return one by one (LoginDlg.cpp:429-492,
\* DownloadProgressDlg.cpp:295-320).
THEOREM UpdateTypes == Spec => []TypeOK
<1>1. Init => DInv /\ Calls
  BY DInvInit DEF Init, Calls
<1>2. DInv /\ Calls /\ [Next]_vars => (DInv /\ Calls)'
  BY DInvStep, CallsStep
<1>3. DInv /\ Calls => TypeOK
  BY DEF DInv, Shapes, Calls, TypeOK, Working, Finished
<1> QED
  BY <1>1, <1>2, <1>3, PTL DEF Spec
=============================================================================
