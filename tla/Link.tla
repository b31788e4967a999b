-------------------------------- MODULE Link --------------------------------
(***************************************************************************)
(* ClientConnection as the session loop sees it (src/src/connection.rs): a *)
(* link that is alive or not, that may be over for good, and at most one   *)
(* reconnect thread, which alone makes a lost link alive again and which   *)
(* every call that takes the link down waits for first.  Connection        *)
(* implements it; Session is built on it.                                  *)
(***************************************************************************)

VARIABLES
    alive,     \* socket_alive
    over,      \* shutting_down
    thread     \* the reconnect thread: none, working, or done but not joined

link == <<alive, over, thread>>

Idle == thread \in {"none", "done"}

Init == alive \in BOOLEAN /\ over = FALSE /\ thread = "none"

\* connect(), before any loss.
Connect ==
    /\ ~alive /\ ~over /\ thread = "none"
    /\ alive' = TRUE
    /\ UNCHANGED <<over, thread>>

\* close_and_maybe_reconnect, once the last thread has returned.
Close ==
    /\ Idle
    /\ alive' = FALSE
    /\ thread' = IF over THEN "none" ELSE "working"
    /\ UNCHANGED over

\* The thread returns with a link, with the server's refusal, or because the
\* link is over.
Reconnect ==
    /\ thread = "working" /\ ~alive
    /\ alive' = TRUE
    /\ thread' = "done"
    /\ UNCHANGED over

Refuse ==
    /\ thread = "working"
    /\ over' = TRUE
    /\ thread' = "done"
    /\ UNCHANGED alive

GiveUp ==
    /\ thread = "working" /\ over
    /\ thread' = "done"
    /\ UNCHANGED <<alive, over>>

\* shutdown(), before and after its join().
BeginShutdown == over' = TRUE /\ UNCHANGED <<alive, thread>>

EndShutdown ==
    /\ over /\ Idle
    /\ alive' = FALSE
    /\ thread' = "none"
    /\ UNCHANGED over

Next ==
    \/ Connect \/ Close \/ Reconnect \/ Refuse \/ GiveUp
    \/ BeginShutdown \/ EndShutdown

Spec == Init /\ [][Next]_link
=============================================================================
