--------------------------- MODULE MCEvmListener ---------------------------
(* Instances of EvmListener for TLC. *)
EXTENDS EvmListener

CONSTANTS k1, k2,  \* two deposits of the ERC20 handler
          u, x, p  \* one to an unroutable chain, of an unknown, of an unset handler

AllPayloads == {k1, k2, u, x, p}
AllKinds ==
    [d \in AllPayloads |-> CASE d \in {k1, k2} -> "routable"
                             [] d = u -> "unroutable"
                             [] d = x -> "unknown"
                             [] d = p -> "unset"]
AllBlocks == {<< >>, <<k1, k2>>, <<u, k1>>, <<k2, x, k1>>, <<p>>}
=============================================================================
