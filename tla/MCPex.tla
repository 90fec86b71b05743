-------------------------------- MODULE MCPex --------------------------------
(* A small instance of Pex: three nodes and our own address.               *)
EXTENDS Pex

CONSTANTS a, b, c, me

\* A peer tells us of c and of our own address.
AddrLists == {<<c, me>>}
=============================================================================
