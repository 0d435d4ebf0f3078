----------------------------- MODULE MCGateway -----------------------------
(***************************************************************************)
(* Small workloads for Gateway.  A cfg picks the requests; these two       *)
(* functions say what they ask.                                            *)
(***************************************************************************)
EXTENDS Gateway

\* All messages belong to one conversation.
MCContextOf == [m \in Messages |-> "c1"]

\* "cancel-s1", "delete-s1" and "get-s1" name the task of the send s1; every
\* other cancel, delete and get the seeded task.
MCTargetOf ==
    [r \in Cancels \cup Deletes \cup Gets |->
        IF r \in {"cancel-s1", "delete-s1", "get-s1"} THEN "s1" ELSE "t0"]
=============================================================================
