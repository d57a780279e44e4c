----------------------------- MODULE MCDashboard -----------------------------
(* One task, of this instance or of a peer, with a retry, a stream and a   *)
(* request; and with two streams.                                          *)
EXTENDS Dashboard

CONSTANTS a, n1, s1, s2, r1

MCTasks == {a}
MCRetries == {n1}
MCStreams == {s1}
MCTwoStreams == {s1, s2}
MCRequests == {r1}
=============================================================================
