---------------------------- MODULE HermesClient ----------------------------
(***************************************************************************)
(* HermesClient (hermes_client.py) with the handler's relaying loop: a     *)
(* call of send_message (HermesRetry) or of send_message_stream            *)
(* (StreamRelay).  The two share the retry schedules and nothing else:     *)
(* each call counts its attempts in locals, and the AsyncClient they post  *)
(* through keeps no state that either looks at.  So one call is made, and  *)
(* it is of either kind.                                                   *)
(***************************************************************************)
EXTENDS HermesRetry, StreamRelay

\* _CONNECT_RETRY_DELAYS and _TIMEOUT_RETRY_DELAYS serve both.
ASSUME SchedulesAssumption ==
    ConnectRetries = Len(ConnectDelays) /\ TimeoutRetries = Len(TimeoutDelays)

ClientInit == Init /\ RelayInit

ClientNext ==
    \/ loop = "idle" /\ Next /\ UNCHANGED relayVars
    \/ phase = "idle" /\ RelayNext /\ UNCHANGED vars

ClientSpec ==
    /\ ClientInit /\ [][ClientNext]_<<vars, relayVars>>
    /\ WF_vars(Step)
    /\ WF_relayVars(Generator) /\ WF_relayVars(Loop)
=============================================================================
