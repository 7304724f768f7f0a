------------------------------- MODULE MCNode -------------------------------
(***************************************************************************)
(* Instances of Node for TLC.  Besides Spec, two specifications that allow *)
(* only some of its behaviours, so that larger clusters can be explored.   *)
(***************************************************************************)
EXTENDS Node, TLC

\* The nodes are alike if all of them propose.
Symmetry == Permutations(Nodes)

\* In every node that runs, only goroutines of the functions in fns wait.
OnlyWait(fns) == \A n \in Nodes : Running(n) => \A g \in go[n] : g.fn \in fns

(***************************************************************************)
(* Of the goroutines, only those that store a block and vote for it are    *)
(* slow: nothing else happens while another one waits.  What is left is    *)
(* how they race with each other and with the messages: a quorum of votes  *)
(* may come before the block, and two votes of a node may be under way.    *)
(***************************************************************************)
Slow == {"handleNewBlock", "BroadcastVote", "castVote"}

RaceNext ==
    \E n \in Nodes :
       \/ \E g \in go[n] : (g.fn \in Slow => OnlyWait(Slow)) /\ Resume(n, g)
       \/ OnlyWait(Slow) /\ (ProposeBlockLoop(n) \/ HandleMsgsLoop(n) \/ Crash(n))

RaceSpec == Init /\ [][RaceNext]_vars

(***************************************************************************)
(* Votes are fast: none waits when a proposal is made or delivered, and    *)
(* nothing but a vote is received while a goroutine waits, and that only   *)
(* if the goroutine is one that has not stored its block yet.  What is     *)
(* left is the order of the proposals, out of which forks arise, the order *)
(* in which a node's goroutines run, and a block that a quorum of votes    *)
(* overtakes.                                                              *)
(***************************************************************************)
Quiet == OnlyWait({})
VotesInNet == \E n \in Nodes : \E m \in net[n] : m.type = "vote"

DeliverFast(n) ==
    \E m \in net[n] : \/ OnlyWait({"handleNewBlock"}) /\ handleVoteMsg(n, m)
                      \/ Quiet /\ ~VotesInNet /\ handleNewBlockMsg(n, m)

FastVotesNext ==
    \E n \in Nodes :
       \/ \E g \in go[n] : Resume(n, g)
       \/ DeliverFast(n)
       \/ Quiet /\ ~VotesInNet /\ ProposeBlockLoop(n)

FastVotesSpec == Init /\ [][FastVotesNext]_vars

FastVotesLiveSpec ==
    /\ FastVotesSpec
    /\ \A n \in Nodes : /\ WF_vars(\E g \in go[n] : Resume(n, g))
                       /\ WF_vars(DeliverFast(n))
=============================================================================
