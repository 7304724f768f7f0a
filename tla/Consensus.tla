----------------------------- MODULE Consensus -----------------------------
(***************************************************************************)
(* What the nodes of core/node.go promise together, whatever their         *)
(* messages and goroutines do: proposals build on proposals, a node votes  *)
(* once for a height and only for what was proposed, a block is certified  *)
(* by a quorum of votes, and what a node commits is a certified block or   *)
(* an ancestor of one.                                                     *)
(*                                                                         *)
(* Nothing here says that nodes commit the same blocks: with several       *)
(* proposers they may not (see the README).                                *)
(***************************************************************************)
EXTENDS Blocks

VARIABLES
    proposed,   \* the blocks proposed so far
    ballots,    \* ballots[n]: the blocks n voted for
    decided,    \* the blocks that have a QC
    committed   \* committed[n]: the blocks in the chain of n

vars == <<proposed, ballots, decided, committed>>

Init ==
    /\ proposed = {}
    /\ ballots = [n \in Nodes |-> {}]
    /\ decided = {}
    /\ committed = [n \in Nodes |-> {Genesis}]

Propose(n) ==
    /\ \E previous \in proposed \cup {Genesis}, cmds \in Batches :
          proposed' = proposed \cup {NewBlock(n, previous, cmds)}
    /\ UNCHANGED <<ballots, decided, committed>>

CastVote(n) ==
    /\ \E b \in proposed :
          /\ AtHeight(ballots[n], Height(b)) = {}
          /\ ballots' = [ballots EXCEPT ![n] = @ \cup {b}]
    /\ UNCHANGED <<proposed, decided, committed>>

Decide ==
    /\ \E b \in proposed :
          /\ Cardinality({n \in Nodes : b \in ballots[n]}) >= quorumNum
          /\ decided' = decided \cup {b}
    /\ UNCHANGED <<proposed, ballots, committed>>

\* A node writes the ancestors of a certified block, from some height up, or
\* the block itself, over what its chain has at these heights.
Commit(n) ==
    /\ \E b \in decided : \E low, high \in 1..Height(b) :
          committed' = [committed EXCEPT ![n] =
             {Ancestor(b, i) : i \in low..high}
             \cup {c \in @ : Height(c) \notin low..high}]
    /\ UNCHANGED <<proposed, ballots, decided>>

Next == Decide \/ \E n \in Nodes : Propose(n) \/ CastVote(n) \/ Commit(n)

Spec == Init /\ [][Next]_vars
=============================================================================
