--------------------------- MODULE MCMConnection ---------------------------
(* Small instance of MConnection.                                          *)
EXTENDS MConnection, TLC

CONSTANTS x, y    \* two channels

Weights == (x :> 1) @@ (y :> 5)
SendCapacities == (x :> 1) @@ (y :> 1)
RecvCapacities == (x :> 1) @@ (y :> 3)

\* a sends a message that is too long for b on x, and two messages, one of two
\* packets, that do not fit into the queue together on y.
Traffic == [a |-> (x :> <<2>>) @@ (y :> <<1, 3>>), b |-> (x :> <<>>) @@ (y :> <<>>)]

OnlyA == [a |-> 1, b |-> 0]
=============================================================================
