----------------------------- MODULE Sortition -----------------------------
(***************************************************************************)
(* The rounds of sortition by which the proposers of a cluster decide who  *)
(* proposes a block (core/node.go ProposeBlockLoop and handleSortitionMsg, *)
(* sortition/sortition_utils.go).                                          *)
(*                                                                         *)
(* The draw of a node is a verifiable random function of a seed made of    *)
(* the height and the round, so drawing again gives the same result; what  *)
(* it gives the first time is a free choice.  A node that wins proposes; a *)
(* node that loses tells everybody, itself included, and draws again       *)
(* later.  The candidate chain is read before the draw, without a lock, so *)
(* the node may draw for a height that somebody has proposed at meanwhile. *)
(*                                                                         *)
(* What the node does with blocks is in module Node; here, a block that    *)
(* somebody proposed at the height a node works on arrives there at some   *)
(* time, and moves the node to the next height.                            *)
(***************************************************************************)
EXTENDS Blocks

CONSTANTS
    Proposers,  \* the nodes that run ProposeBlockLoop
    MaxHeight,  \* bound: no node draws above this height
    MaxRound    \* bound: a draw in this round wins, so it is the last one

ASSUME ProposersAssumption == Proposers \subseteq Nodes
ASSUME BoundsAssumption == MaxHeight \in Nat /\ MaxRound \in Nat

Heights == 1..MaxHeight
Rounds == 0..MaxRound

\* A draw, and the SortitionMsg that a losing one is announced with.
Draw == [node : Proposers, height : Heights, round : Rounds]

VARIABLES
    nextHeight,       \* the height above the node's candidate chain
    selected,         \* the height a node is about to draw for, {} if it waits
    heightUpdates,    \* values in, or blocked on, candidateHeightUpdated
    sortitionResult,  \* the losing draws a node was told about
    opened,           \* the heights for which the node's map has an entry
    net,              \* net[n]: announcements sent to n and not handled
    won, lost         \* the draws so far, by their result

vars == <<nextHeight, selected, heightUpdates, sortitionResult, opened, net, won, lost>>

Init ==
    /\ nextHeight = [n \in Nodes |-> 1]
    /\ selected = [n \in Nodes |-> {}]
    /\ heightUpdates = [n \in Nodes |-> 1]
    /\ sortitionResult = [n \in Nodes |-> {}]
    /\ opened = [n \in Nodes |-> {}]
    /\ net = [n \in Nodes |-> {}]
    /\ won = {}
    /\ lost = {}

-----------------------------------------------------------------------------
Losers(results, h, r) == {d.node : d \in {x \in results : x.height = h /\ x.round = r}}

\* Faulty variant (RoundNeedsQuorum): one result too few.
AlmostQuorumRounds(n, h) ==
    {r \in Rounds : Cardinality(Losers(sortitionResult[n], h, r)) >= quorumNum - 1}

\* The rounds of height h in which a quorum lost, as far as n knows.
QuorumRounds(n, h) ==
    {r \in Rounds : Cardinality(Losers(sortitionResult[n], h, r)) >= quorumNum}

\* The round that n draws in next, as a set of one element: the first for a
\* height it never heard of; otherwise the one after the largest with a quorum
\* of losers, where round 0 counts as such a round even if it is not.
NextRound(n, h) ==
    IF h \notin opened[n] THEN {0}
    ELSE {r + 1 : r \in {x \in QuorumRounds(n, h) \cup {0} :
                            \A y \in QuorumRounds(n, h) : y <= x}}

\* What the VRF is applied to: nextHeight<<20 + nextRound.
Seed(h, r) == h * 1048576 + r

\* The results that the VRF does not rule out for d, given earlier draws.
MayWin(d) == \A x \in lost : x.node = d.node => Seed(x.height, x.round) # Seed(d.height, d.round)
MayLose(d) == \A x \in won : x.node = d.node => Seed(x.height, x.round) # Seed(d.height, d.round)

\* Faulty variant (TypeOK): does not wait for a value in the channel.
selectBlockAtOnce(n) ==
    /\ selected[n] = {}
    /\ nextHeight[n] <= MaxHeight
    /\ heightUpdates' = [heightUpdates EXCEPT ![n] = @ - 1]
    /\ selected' = [selected EXCEPT ![n] = {nextHeight[n]}]
    /\ UNCHANGED <<nextHeight, sortitionResult, opened, net, won, lost>>

\* Take a value from candidateHeightUpdated, and read the candidate chain.
selectBlock(n) ==
    /\ selected[n] = {}
    /\ nextHeight[n] <= MaxHeight
    /\ heightUpdates[n] > 0
    /\ heightUpdates' = [heightUpdates EXCEPT ![n] = @ - 1]
    /\ selected' = [selected EXCEPT ![n] = {nextHeight[n]}]
    /\ UNCHANGED <<nextHeight, sortitionResult, opened, net, won, lost>>

draw(n, d) ==
    /\ d.node = n
    /\ d.height \in selected[n]
    /\ d.round \in NextRound(n, d.height)
    /\ opened' = [opened EXCEPT ![n] = @ \cup {d.height}]
    /\ selected' = [selected EXCEPT ![n] = {}]

Win(n, d) ==
    /\ draw(n, d)
    /\ MayWin(d)
    /\ won' = won \cup {d}
    /\ UNCHANGED <<nextHeight, heightUpdates, sortitionResult, net, lost>>

\* Faulty variant (EventuallyProposed): the result is not announced.
LoseSilently(n, d) ==
    /\ draw(n, d)
    /\ MayLose(d)
    /\ d.round < MaxRound
    /\ lost' = lost \cup {d}
    /\ heightUpdates' = [heightUpdates EXCEPT ![n] = @ + 1]
    /\ UNCHANGED <<nextHeight, sortitionResult, net, won>>

\* Faulty variant (RoundsConverge): the node does not tell itself.
LoseToOthers(n, d) ==
    /\ draw(n, d)
    /\ MayLose(d)
    /\ d.round < MaxRound
    /\ lost' = lost \cup {d}
    /\ net' = [p \in Nodes |-> net[p] \cup IF p = n THEN {} ELSE {d} \ sortitionResult[p]]
    /\ heightUpdates' = [heightUpdates EXCEPT ![n] = @ + 1]
    /\ UNCHANGED <<nextHeight, sortitionResult, won>>

\* A loser puts a value back in the channel.  Announcing the same draw again
\* changes nothing where it is known.
Lose(n, d) ==
    /\ draw(n, d)
    /\ MayLose(d)
    /\ d.round < MaxRound
    /\ lost' = lost \cup {d}
    /\ net' = [p \in Nodes |-> net[p] \cup ({d} \ sortitionResult[p])]
    /\ heightUpdates' = [heightUpdates EXCEPT ![n] = @ + 1]
    /\ UNCHANGED <<nextHeight, sortitionResult, won>>

\* Faulty variant (RoundsGoUp): makes a new map for the height whenever it has
\* none for the round.
handleSortitionMsgAnew(n, d) ==
    /\ net' = [net EXCEPT ![n] = @ \ {d}]
    /\ sortitionResult' = [sortitionResult EXCEPT ![n] =
          {d} \cup {x \in @ : x.height = d.height => Losers(@, d.height, d.round) # {}}]
    /\ opened' = [opened EXCEPT ![n] = @ \cup {d.height}]
    /\ UNCHANGED <<nextHeight, selected, heightUpdates, won, lost>>

handleSortitionMsg(n, d) ==
    /\ d \in net[n]
    /\ net' = [net EXCEPT ![n] = @ \ {d}]
    /\ sortitionResult' = [sortitionResult EXCEPT ![n] = @ \cup {d}]
    /\ opened' = [opened EXCEPT ![n] = @ \cup {d.height}]
    /\ UNCHANGED <<nextHeight, selected, heightUpdates, won, lost>>

\* A block of the height n works on arrives and extends its candidate chain.
BlockArrives(n) ==
    /\ nextHeight[n] <= MaxHeight
    /\ \E d \in won : d.height = nextHeight[n]
    /\ nextHeight' = [nextHeight EXCEPT ![n] = @ + 1]
    /\ heightUpdates' = [heightUpdates EXCEPT ![n] = @ + 1]
    /\ UNCHANGED <<selected, sortitionResult, opened, net, won, lost>>

ProposeBlockLoop(n) == selectBlock(n) \/ \E d \in Draw : Win(n, d) \/ Lose(n, d)

Next ==
    \/ \E n \in Proposers : ProposeBlockLoop(n)
    \/ \E n \in Nodes : \/ \E d \in net[n] : handleSortitionMsg(n, d)
                        \/ BlockArrives(n)

\* The loop runs on, and every announcement is received and handled.
Fairness ==
    \A n \in Nodes :
        /\ n \in Proposers => WF_vars(ProposeBlockLoop(n))
        /\ \A d \in Draw : WF_vars(handleSortitionMsg(n, d))
        /\ WF_vars(BlockArrives(n))

Spec == Init /\ [][Next]_vars
LiveSpec == Spec /\ Fairness

-----------------------------------------------------------------------------
TypeOK ==
    /\ nextHeight \in [Nodes -> 1..MaxHeight + 1]
    /\ selected \in [Nodes -> SUBSET Heights]
    /\ heightUpdates \in [Nodes -> Nat]
    /\ sortitionResult \in [Nodes -> SUBSET Draw]
    /\ opened \in [Nodes -> SUBSET Heights]
    /\ net \in [Nodes -> SUBSET Draw]
    /\ won \in SUBSET Draw
    /\ lost \in SUBSET Draw

drawn == won \cup lost

\* Nobody draws in round 2 or above unless a quorum has really lost the round
\* before: whatever announcements a node has seen and in whatever order, it
\* does not get another chance before the others had theirs.
RoundNeedsQuorum ==
    \A d \in drawn :
        d.round >= 2 => Cardinality(Losers(lost, d.height, d.round - 1)) >= quorumNum

\* What the tests say of the rounds: it holds for round 1 as well.
EveryRoundNeedsQuorum ==
    \A d \in drawn :
        d.round >= 1 => Cardinality(Losers(lost, d.height, d.round - 1)) >= quorumNum

\* Two nodes that know a height draw in the same round for it, once they have
\* handled what was announced to them, although each of them handled it in an
\* order of its own and drew in between.
RoundsConverge ==
    \A m, n \in Nodes :
        net[m] \cup net[n] = {} =>
            \A h \in opened[m] \cap opened[n] : NextRound(m, h) = NextRound(n, h)

\* The round in which a node draws next for a height never falls, in whatever
\* order, and however late, the results of the rounds reach it.
RoundsGoUp ==
    [][\A n \in Nodes : \A h \in Heights :
          \A r \in NextRound(n, h), q \in NextRound(n, h)' : r <= q]_vars

\* A block is proposed at every height that a proposer works on: no round is
\* waited for in vain.  This takes at least quorumNum proposers.
EventuallyProposed ==
    \A h \in Heights :
        (\E n \in Proposers : nextHeight[n] = h) ~> (\E d \in won : d.height = h)
=============================================================================
