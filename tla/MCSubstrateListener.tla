------------------------ MODULE MCSubstrateListener ------------------------
(* Instances of SubstrateListener for TLC. *)
EXTENDS SubstrateListener

CONSTANTS d, h, s, \* deposits: of a usual amount, of more than half of its fee,
                   \* and of less
          b, v, o, \* another batch, an as_multi, another extrinsic
          p        \* a batch whose amount is not parsed

AllExtrinsics == {d, h, s, b, v, o, p}
AllKinds ==
    [x \in AllExtrinsics |-> CASE x \in {d, h, s} -> "deposit"
                               [] x = b -> "batch"
                               [] x = v -> "multisig"
                               [] x = o -> "other"
                               [] x = p -> "unparsed"]
Amounts == [x \in AllExtrinsics |-> CASE x = h -> 2 [] x = s -> 1 [] OTHER -> 9]
AllBlocks == {<<d, v>>, <<o, h, b, s>>, <<v, p>>}
=============================================================================
