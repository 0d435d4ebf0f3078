--------------------------- MODULE MCOrchestrator ---------------------------
(* No peer to ask, and fewer peers than subtasks. *)
EXTENDS Orchestrator

MCPeerLists == {<<>>, <<"a", "b">>}
=============================================================================
