---------------------------- MODULE SessionLife -----------------------------
(***************************************************************************)
(* What EAP.DLL promises the program that uses it, without threads,        *)
(* pointers or windows: one session at a time, whose network adapter is    *)
(* open from Login to its end; a state for GetCurConState that goes from   *)
(* UNCONNECTED over CONNECTING to CONNECTED, once the server has accepted  *)
(* this session, and on to RECONNECTING; and an end, by the server or the  *)
(* user, after which nothing more is reported of the session.              *)
(*                                                                         *)
(* A call of Login or Logout that overtakes a listener on its way out      *)
(* voids the promise.                                                      *)
(***************************************************************************)
CONSTANT Sessions

VARIABLES
    open,       \* the session whose adapter is open, if there is one
    leaving,    \* that session, once it has come to its end
    state,      \* what GetCurConState reports
    accepted,   \* the sessions the server has accepted
    overtaken   \* a listener on its way out was overtaken

lifeVars == <<open, leaving, state, accepted, overtaken>>

Init ==
    /\ open = {} /\ leaving = {} /\ accepted = {}
    /\ state = "UNCONNECTED"
    /\ overtaken = FALSE

\* Session s is there and has not come to its end.
Lives(s) == s \in open \ leaving

\* Login opens a session that nothing is known of.
Open(s) ==
    /\ open = {} /\ s \notin accepted /\ state = "UNCONNECTED"
    /\ open' = {s}
    /\ UNCHANGED <<leaving, state, accepted, overtaken>>

Reports(s, st) ==
    /\ Lives(s)
    /\ state' = st
    /\ UNCHANGED <<open, leaving, accepted, overtaken>>

\* A request of the authentication that Login began is answered.
Connect(s) == state \in {"UNCONNECTED", "CONNECTING"} /\ Reports(s, "CONNECTING")

\* The server accepts.
Accept(s) ==
    /\ Lives(s)
    /\ accepted' = accepted \cup {s}
    /\ UNCHANGED <<open, leaving, state, overtaken>>

\* The program has been told that it is connected.
Succeed(s) ==
    /\ s \in accepted /\ state = "CONNECTING"
    /\ Reports(s, "CONNECTED")

\* The server asks again.
Reauthenticate(s) ==
    /\ s \in accepted /\ state \in {"CONNECTED", "RECONNECTING"}
    /\ Reports(s, "RECONNECTING")

\* The server has failed the session, or the user logs out.
End(s) ==
    /\ Lives(s)
    /\ leaving' = {s} /\ state' = "UNCONNECTED"
    /\ UNCHANGED <<open, accepted, overtaken>>

\* The adapter is closed.
Close(s) ==
    /\ s \in leaving
    /\ open' = {} /\ leaving' = {}
    /\ UNCHANGED <<state, accepted, overtaken>>

\* Nothing is promised from here on.
Overtake == overtaken'

Next ==
    \/ \E s \in Sessions :
          \/ Open(s) \/ Connect(s) \/ Accept(s) \/ Succeed(s)
          \/ Reauthenticate(s) \/ End(s) \/ Close(s)
    \/ Overtake

Spec == Init /\ [][Next]_lifeVars
=============================================================================
