------------------------------- MODULE Blocks -------------------------------
(***************************************************************************)
(* Blocks, their hash links, and the vote thresholds of a cluster          *)
(* (core/block.go, core/node.go NewNode, config_gen/main.go).              *)
(*                                                                         *)
(* A block names its parent by a SHA-256 hash over the JSON encoding of    *)
(* the parent, which itself contains the hash of its own parent.  Taking   *)
(* the hash and the encoding as injective, a block is determined by the    *)
(* sequence of what its ancestors and itself contain, and conversely; so   *)
(* the model's block is that sequence, genesis being the empty one.  The   *)
(* length of the sequence is Block.Height, because every caller of         *)
(* NewBlock passes the height of the previous block plus one.              *)
(***************************************************************************)
EXTENDS Integers, Sequences, FiniteSets

CONSTANTS
    Nodes,   \* the names in clusterAddr
    Batches  \* the possible contents of Block.Cmds

ASSUME NodesAssumption == IsFiniteSet(Nodes) /\ Nodes # {}

\* What a block holds besides the hash of its parent: Proposer and Cmds.
Content == [proposer : Nodes, cmds : Batches]

Block == Seq(Content)
Genesis == <<>>

NewBlock(proposer, previous, cmds) ==
    Append(previous, [proposer |-> proposer, cmds |-> cmds])

Height(b) == Len(b)

\* The block at height i on the path from genesis to b, found in the code by
\* following PreviousHash from b, and the block that b's PreviousHash names.
Ancestor(b, i) == SubSeq(b, 1, i)
Previous(b) == Ancestor(b, Height(b) - 1)

AtHeight(blocks, h) == {b \in blocks : Height(b) = h}

-----------------------------------------------------------------------------
\* Faulty variant (ChainCertified): rounded down instead of up.
QuorumOfFloor(n) == (2 * n) \div 3

\* The number of votes that make a quorum: int(math.Ceil(float64(2*n)/3.0)).
QuorumOf(n) == (2 * n + 2) \div 3

\* The threshold the cluster's signing keys are generated with: n - n/3.
ThresholdOf(n) == n - n \div 3

quorumNum == QuorumOf(Cardinality(Nodes))
numT == ThresholdOf(Cardinality(Nodes))
=============================================================================
