---------------------------- MODULE BoundedRetry ----------------------------
(***************************************************************************)
(* What every retry loop of the gateway promises its caller: a call makes  *)
(* at most MaxAttempts attempts, then there is exactly one verdict, and    *)
(* the verdict is final.  HermesRetry and StreamRelay are shown to         *)
(* implement it.                                                           *)
(***************************************************************************)
EXTENDS Naturals

CONSTANT MaxAttempts

VARIABLES attempts, verdict

vars == <<attempts, verdict>>

Init == attempts = 0 /\ verdict = "none"

\* The call, if there is one, makes its first attempt at once.
Call == attempts = 0 /\ attempts' = 1 /\ UNCHANGED verdict

\* Another attempt starts.
Try ==
    /\ verdict = "none" /\ attempts \in 1..MaxAttempts - 1
    /\ attempts' = attempts + 1
    /\ UNCHANGED verdict

\* The last attempt decides.
Decide ==
    /\ verdict = "none" /\ attempts > 0
    /\ verdict' \in {"succeeded", "failed"}
    /\ UNCHANGED attempts

Next == Call \/ Try \/ Decide

\* Nothing makes a caller call; a call that was made is decided.
Spec == Init /\ [][Next]_vars /\ WF_vars(Decide)
=============================================================================
