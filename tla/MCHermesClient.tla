--------------------------- MODULE MCHermesClient ---------------------------
(* The schedules of hermes_client.py. *)
EXTENDS HermesClient

MCConnectDelays == <<1, 2, 4>>
MCTimeoutDelays == <<1, 1>>
MCHttpDelays    == <<1, 2, 4>>
=============================================================================
