--------------------------- MODULE RadiusRequests ---------------------------
(***************************************************************************)
(* What RadiusSocket::MakeRequest promises to the threads that share a     *)
(* socket, without identifiers, sync points or datagrams: requests are     *)
(* opened, one thread at most reads for all of them, only that thread      *)
(* stores responses, a request is given at most one, and a thread that     *)
(* returns leaves nothing behind.                                          *)
(***************************************************************************)
CONSTANT Threads

VARIABLES
    readers,    \* the thread that reads, if there is one
    open,       \* threads whose request has no response yet
    answered    \* threads whose response is stored and not yet taken

absVars == <<readers, open, answered>>

Init == readers = {} /\ open = {} /\ answered = {}

\* A request is registered; its thread reads if nobody does.
Open(t) ==
    /\ t \notin open \cup answered
    /\ open' = open \cup {t}
    /\ readers' = IF readers = {} THEN {t} ELSE readers
    /\ UNCHANGED answered

\* A waiting thread takes the reading over.
TakeOver(t) ==
    /\ t \in open
    /\ readers = {}
    /\ readers' = {t}
    /\ UNCHANGED <<open, answered>>

\* The reader r stores the response of t; with its own it stops reading.
Store(r, t) ==
    /\ r \in readers
    /\ t \in open
    /\ open' = open \ {t}
    /\ answered' = answered \cup {t}
    /\ readers' = readers \ (IF t = r THEN {r} ELSE {})

\* A thread returns to its caller, with its response or without.
Return(t) ==
    /\ t \in open \cup answered
    /\ open' = open \ {t}
    /\ answered' = answered \ {t}
    /\ readers' = readers \ {t}

Next == \E t \in Threads : \/ Open(t) \/ TakeOver(t) \/ Return(t)
                           \/ \E r \in Threads : Store(r, t)

Spec == Init /\ [][Next]_absVars
=============================================================================
