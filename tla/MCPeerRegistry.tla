--------------------------- MODULE MCPeerRegistry ---------------------------
(* Two instances, a heartbeat each two units of time and a time to live as *)
(* short as the backend's delay allows.                                    *)
EXTENDS PeerRegistry

CONSTANTS p, q

MCInstances == {p, q}
=============================================================================
