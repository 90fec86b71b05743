----------------------------- MODULE MCBanning -----------------------------
(* Small instance of Banning: p and q are two peers of one host.           *)
EXTENDS Banning, TLC

CONSTANTS p, q, oneHost

MCHostOf == (p :> oneHost) @@ (q :> oneHost)

\* A purely persistent offence, as the workers report them (20 or 10 of a
\* threshold of 100, scaled down), and one with a transient part.
MCOffences == {[persistent |-> 2, transient |-> 0], [persistent |-> 1, transient |-> 2]}
=============================================================================
