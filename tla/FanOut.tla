------------------------------- MODULE FanOut -------------------------------
(***************************************************************************)
(* What an orchestration promises its caller: every subtask is settled     *)
(* once and for all, the orchestration closes only when all of them are,   *)
(* and what it then says of the whole follows from the parts.  The caller  *)
(* may give it up.  Orchestrator is shown to implement it.                 *)
(***************************************************************************)

VARIABLES
    verdict,  \* what became of each subtask, "none" while it is open
    overall   \* what became of the orchestration

vars == <<verdict, overall>>

Verdicts == {"completed", "failed", "timed_out"}

Init == overall = "open" /\ \A i \in DOMAIN verdict : verdict[i] = "none"

\* A verdict is given, or two at once, and none is taken back.
Settles ==
    /\ DOMAIN verdict' = DOMAIN verdict
    /\ \A i \in DOMAIN verdict :
         verdict'[i] # verdict[i] => verdict[i] = "none" /\ verdict'[i] \in Verdicts

Whole(v) ==
    IF \A i \in DOMAIN v : v[i] = "completed" THEN "completed"
    ELSE IF \A i \in DOMAIN v : v[i] # "completed" THEN "failed"
    ELSE "partial"

Proceed == overall = "open" /\ Settles /\ UNCHANGED overall

Close ==
    /\ overall = "open" /\ Settles
    /\ \A i \in DOMAIN verdict : verdict'[i] # "none"
    /\ overall' = Whole(verdict')

GiveUp == overall = "open" /\ Settles /\ overall' = "raised"

Next == Proceed \/ Close \/ GiveUp

Spec == Init /\ [][Next]_vars
=============================================================================
