------------------------ MODULE MCSecretConnection --------------------------
(* Small instance of SecretConnection.                                     *)
EXTENDS SecretConnection

\* Writes shorter and longer than a frame of three bytes, and one that fills it.
MCWrites == [a |-> <<2, 7, 3>>, b |-> <<4, 1>>]
=============================================================================
