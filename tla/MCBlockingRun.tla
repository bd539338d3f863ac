----------------------------- MODULE MCBlockingRun -----------------------------
(***************************************************************************)
(* Instances of BlockingRun for TLC: what the model may say is bounded by  *)
(* the number of blocks of a reply and of pieces of a block.               *)
(***************************************************************************)
EXTENDS BlockingRun

CONSTANTS MaxBlocks, MaxPieces, LaterBlocks, LaterPieces

UpTo(blocks, pieces) ==
    UNION {[1 .. k -> [kind: {"text", "call"}, n: 0 .. pieces]] : k \in 0 .. blocks}

\* With three calls there is nothing more to see than with two.
FirstReplies == {r \in UpTo(MaxBlocks, MaxPieces) : Cardinality(Calls(r)) <= 2}
NextReplies  == UpTo(LaterBlocks, LaterPieces)

\* The calls of a turn are named by their blocks; 0 is no turn.
Others  == <<0, 0>>
Nothing == <<0, 1>>
AllIds == {Others} \cup ((1 .. MaxTurns) \X (1 .. MaxBlocks))
=============================================================================
