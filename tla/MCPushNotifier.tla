-------------------------- MODULE MCPushNotifier ----------------------------
(* The schedule of push_notifier.py. *)
EXTENDS PushNotifier

MCDelays == <<1, 2, 4>>
=============================================================================
