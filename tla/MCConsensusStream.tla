------------------------- MODULE MCConsensusStream -------------------------
(* Small instances of ConsensusStream for TLC. *)
EXTENDS ConsensusStream

(* The two sets differ in size, and in the power of the first index. *)
MCPower == [h \in Heights |-> IF h % 2 = 1 THEN <<1, 3>> ELSE <<2>>]

MCVote(k, h, r, i) == [kind |-> k, height |-> h, round |-> r, index |-> i]
MCStep(h, r, s) == [kind |-> "step", height |-> h, round |-> r, step |-> s]

(* Votes of three heights and of two rounds, and steps that can swap. *)
MCPublished ==
    {MCVote("prevote", 1, 0, 2), MCVote("precommit", 2, 0, 1),
     MCVote("prevote", 2, 1, 1), MCVote("precommit", 3, 0, 1),
     MCStep(2, 0, 0), MCStep(2, 0, 1)}

(* One vote of each of three heights. *)
MCBlocks == {MCVote("precommit", h, 0, 1) : h \in Heights}
=============================================================================
