-------------------------------- MODULE Flow --------------------------------
(***************************************************************************)
(* Back pressure between the nodes: how a message gets from the broadcast  *)
(* of one node to the handler of another, through buffers that are all     *)
(* bounded, and brings about another broadcast there (core/node.go,        *)
(* conn/net_transport.go).                                                 *)
(*                                                                         *)
(* ProposeBlockLoop broadcasts proposals and losing draws; a proposal that *)
(* arrives makes the node broadcast a vote, and BroadcastVote keeps n.lock *)
(* while it sends.  SendMsg blocks when the connection's buffers are full, *)
(* the handler of a connection waits until msgCh has room, and what        *)
(* empties msgCh starts a goroutine for each message, which may have to    *)
(* wait for n.lock.                                                        *)
(*                                                                         *)
(* A node has at most two broadcasts under way, one of its loop and one    *)
(* with n.lock, and the pool keeps their connections apart; a connection   *)
(* stays with one of the two here.  Each proposal is at a height of its    *)
(* own, so that every node votes for it.                                   *)
(*                                                                         *)
(* A node may crash; its connections are reset.  A node that is alive, but *)
(* has stopped reading, is not modelled: nothing in the code would end the *)
(* wait for it (see the README).                                           *)
(***************************************************************************)
EXTENDS Integers, Sequences, FiniteSets, Functions

CONSTANTS
    Nodes,     \* the cluster; a node sends to itself over a connection, too
    Capacity,  \* messages that fit in a connection, with the one handleMsg has read
    Proposers, \* the nodes that run ProposeBlockLoop
    Rounds,    \* bound: the rounds of a proposer's loop
    MaxCrashes \* bound: how many nodes may crash

ASSUME FlowAssumption ==
    IsFiniteSet(Nodes) /\ Capacity \in Nat \ {0} /\ Rounds \in Nat /\ MaxCrashes \in Nat
ASSUME ProposersAssumption == Proposers \subseteq Nodes

Tags == {"proposal", "sortition", "vote"}
Conns == {"loop", "vote"}

VARIABLES
    alive,     \* the nodes that have not crashed
    rounds,    \* rounds[n]: the rounds n's loop has still to do
    sending,   \* sending[n][c]: what n's broadcast over c has still to send
    buffered,  \* buffered[n][p][c]: messages in the connection c from n to p
    msgCh,     \* msgCh[n]: the message, if any, in n's channel of capacity 1
    ballots,   \* ballots[n]: goroutines of n in BroadcastVote
    waiting,   \* waiting[n]: goroutines of n in handleVoteMsg
    proposed,  \* history: the number of proposals
    handled    \* handled[n]: history, the number of messages n has handled

vars == <<alive, rounds, sending, buffered, msgCh, ballots, waiting, proposed, handled>>

Init ==
    /\ alive = Nodes
    /\ rounds = [n \in Proposers |-> Rounds]
    /\ sending = [n \in Nodes |-> [c \in Conns |-> <<>>]]
    /\ buffered = [n \in Nodes |-> [p \in Nodes |-> [c \in Conns |-> <<>>]]]
    /\ msgCh = [n \in Nodes |-> {}]
    /\ ballots = [n \in Nodes |-> 0]
    /\ waiting = [n \in Nodes |-> 0]
    /\ proposed = 0
    /\ handled = [n \in Nodes |-> 0]

-----------------------------------------------------------------------------
\* n.lock is free unless BroadcastVote has it.
Unlocked(n) == sending[n]["vote"] = <<>>

\* broadcast sends to one peer after the other, in the random order of a map.
broadcast(n, c, tag) ==
    /\ sending[n][c] = <<>>
    /\ \E order \in Bijection(1..Cardinality(Nodes), Nodes) :
          sending' = [sending EXCEPT ![n][c] =
                        [i \in DOMAIN order |-> [to |-> order[i], tag |-> tag]]]

\* A round ends with a proposal or with the announcement of a losing draw.
ProposeBlockLoop(n) ==
    /\ n \in Proposers
    /\ rounds[n] > 0
    /\ rounds' = [rounds EXCEPT ![n] = @ - 1]
    /\ \/ /\ broadcast(n, "loop", "proposal")
          /\ proposed' = proposed + 1
       \/ /\ broadcast(n, "loop", "sortition")
          /\ UNCHANGED proposed
    /\ UNCHANGED <<alive, buffered, msgCh, ballots, waiting, handled>>

BroadcastVote(n) ==
    /\ Unlocked(n)
    /\ ballots[n] > 0
    /\ ballots' = [ballots EXCEPT ![n] = @ - 1]
    /\ broadcast(n, "vote", "vote")
    /\ UNCHANGED <<alive, rounds, buffered, msgCh, waiting, proposed, handled>>

\* Faulty variant (TypeOK): the buffers take any number of messages.
SendMsgUnlimited(n, c) ==
    /\ sending[n][c] # <<>>
    /\ LET m == Head(sending[n][c])
       IN  buffered' = [buffered EXCEPT ![n][m.to][c] = Append(@, m.tag)]
    /\ sending' = [sending EXCEPT ![n][c] = Tail(@)]
    /\ UNCHANGED <<alive, rounds, msgCh, ballots, waiting, proposed, handled>>

SendMsg(n, c) ==
    /\ sending[n][c] # <<>>
    /\ Head(sending[n][c]).to \in alive
    /\ LET m == Head(sending[n][c])
       IN  /\ Len(buffered[n][m.to][c]) < Capacity
           /\ buffered' = [buffered EXCEPT ![n][m.to][c] = Append(@, m.tag)]
    /\ sending' = [sending EXCEPT ![n][c] = Tail(@)]
    /\ UNCHANGED <<alive, rounds, msgCh, ballots, waiting, proposed, handled>>

\* Faulty variant (LocksReleased): goes on trying.
SendMsgAgain(n, c) ==
    /\ sending[n][c] # <<>>
    /\ Head(sending[n][c]).to \notin alive
    /\ UNCHANGED vars

\* The peer is down: the broadcast gives up at the error of GetConn or SendMsg.
\* If a connection to the peer was in the pool, there may be no error: the
\* message is lost.
SendMsgFails(n, c) ==
    /\ sending[n][c] # <<>>
    /\ Head(sending[n][c]).to \notin alive
    /\ \E left \in {<<>>, Tail(sending[n][c])} :
          sending' = [sending EXCEPT ![n][c] = left]
    /\ UNCHANGED <<alive, rounds, buffered, msgCh, ballots, waiting, proposed, handled>>

-----------------------------------------------------------------------------
\* handleMsg of n puts the next message of a connection in msgCh.
handleMsg(n, p, c) ==
    /\ buffered[p][n][c] # <<>>
    /\ msgCh[n] = {}
    /\ msgCh' = [msgCh EXCEPT ![n] = {Head(buffered[p][n][c])}]
    /\ buffered' = [buffered EXCEPT ![p][n][c] = Tail(@)]
    /\ UNCHANGED <<alive, rounds, sending, ballots, waiting, proposed, handled>>

\* The handler of a proposal ends in BroadcastVote, that of a vote waits for
\* n.lock, and that of a losing draw needs another lock, which nobody keeps.
StartHandler(n, tag) ==
    /\ ballots' = [ballots EXCEPT ![n] = IF tag = "proposal" THEN @ + 1 ELSE @]
    /\ waiting' = [waiting EXCEPT ![n] = IF tag = "vote" THEN @ + 1 ELSE @]
    /\ handled' = [handled EXCEPT ![n] = IF tag = "vote" THEN @ ELSE @ + 1]

\* Faulty variant (AllHandled): calls the handler, not in a goroutine.
HandleMsgInLoop(n) ==
    /\ Unlocked(n)
    /\ \E tag \in msgCh[n] : StartHandler(n, tag)
    /\ msgCh' = [msgCh EXCEPT ![n] = {}]
    /\ UNCHANGED <<alive, rounds, sending, buffered, proposed>>

HandleMsgsLoop(n) ==
    /\ \E tag \in msgCh[n] : StartHandler(n, tag)
    /\ msgCh' = [msgCh EXCEPT ![n] = {}]
    /\ UNCHANGED <<alive, rounds, sending, buffered, proposed>>

handleVoteMsg(n) ==
    /\ Unlocked(n)
    /\ waiting[n] > 0
    /\ waiting' = [waiting EXCEPT ![n] = @ - 1]
    /\ handled' = [handled EXCEPT ![n] = @ + 1]
    /\ UNCHANGED <<alive, rounds, sending, buffered, msgCh, ballots, proposed>>

Step(n) ==
    \/ ProposeBlockLoop(n)
    \/ BroadcastVote(n)
    \/ \E c \in Conns : \/ SendMsg(n, c)
                        \/ SendMsgFails(n, c)
                        \/ \E p \in Nodes : handleMsg(n, p, c)
    \/ HandleMsgsLoop(n)
    \/ handleVoteMsg(n)

Crash(n) ==
    /\ Cardinality(Nodes \ alive) < MaxCrashes
    /\ alive' = alive \ {n}
    /\ UNCHANGED <<rounds, sending, buffered, msgCh, ballots, waiting, proposed, handled>>

Next == \E n \in alive : Step(n) \/ Crash(n)

\* Some goroutine of a node runs if one can.  There are finitely many messages,
\* so none goes on for ever at the cost of another.
Fairness == \A n \in Nodes : WF_vars(n \in alive /\ Step(n))

Spec == Init /\ [][Next]_vars
LiveSpec == Spec /\ Fairness

-----------------------------------------------------------------------------
TypeOK ==
    /\ alive \subseteq Nodes
    /\ rounds \in [Proposers -> 0..Rounds]
    /\ \A n \in Nodes : \A c \in Conns :
          /\ sending[n][c] \in Seq([to : Nodes, tag : Tags])
          /\ \A p \in Nodes : /\ buffered[n][p][c] \in Seq(Tags)
                              /\ Len(buffered[n][p][c]) <= Capacity
    /\ msgCh \in [Nodes -> SUBSET Tags]
    /\ ballots \in [Nodes -> Nat]
    /\ waiting \in [Nodes -> Nat]
    /\ proposed \in Nat
    /\ handled \in [Nodes -> Nat]

\* If no node crashes, every message is handled at every node, that of each
\* round and the votes for each proposal: no nodes wait for each other, each
\* with its lock taken and the buffers to the next one full.
AllHandled ==
    \/ <>(alive # Nodes)
    \/ <>[](\A n \in Nodes :
               handled[n] = Rounds * Cardinality(Proposers) + proposed * Cardinality(Nodes))

\* A node that crashes, with the buffers to it full or not, does not keep the
\* n.lock of another one taken.
LocksReleased == \A n \in Nodes : []<>(n \in alive => Unlocked(n))
=============================================================================
