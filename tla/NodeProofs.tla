----------------------------- MODULE NodeProofs -----------------------------
(***************************************************************************)
(* Proofs about Node, for every cluster and every value of the bounds.     *)
(***************************************************************************)
EXTENDS Node, FiniteSetTheorems, SequenceTheorems, TLAPS

-----------------------------------------------------------------------------
(***************************************************************************)
(* Blocks and quorums.                                                     *)
(***************************************************************************)
\* A block has a height, and genesis alone has height 0 (NewNode).
LEMMA BlockProperties ==
    /\ Genesis \in Block
    /\ \A b \in Block : Height(b) \in Nat
    /\ \A b \in Block : Height(b) = 0 => b = Genesis
BY EmptySeq, LenProperties DEF Block, Genesis, Height

\* What NewBlock makes is a block (Node.ProposeBlockLoop).
LEMMA NewBlockProperties ==
    ASSUME NEW p \in Nodes, NEW b \in Block, NEW cmds \in Batches
    PROVE  NewBlock(p, b, cmds) \in Block
<1>1. [proposer |-> p, cmds |-> cmds] \in Content
  BY DEF Content
<1> QED BY <1>1, AppendProperties DEF NewBlock, Block

\* The walk from a block to its ancestors reaches a block at every height below
\* (Node.CommitAncestorByBlockQC).
LEMMA AncestorProperties ==
    ASSUME NEW b \in Block, NEW i \in Nat, i <= Height(b)
    PROVE  /\ Ancestor(b, i) \in Block
           /\ Height(Ancestor(b, i)) = i
<1>1. \A k \in 1..i : b[k] \in Content
  BY ElementOfSeq DEF Block, Height
<1>2. /\ SubSeq(b, 1, i) \in Seq(Content)
      /\ Len(SubSeq(b, 1, i)) = IF 1 <= i THEN i - 1 + 1 ELSE 0
  BY <1>1, SubSeqProperties
<1> QED BY <1>2 DEF Ancestor, Block, Height

\* A cluster is finite and has at least one node (NewNode).
LEMMA NodesFinite == IsFiniteSet(Nodes) /\ Cardinality(Nodes) \in Nat \ {0}
BY NodesAssumption, FS_CardinalityType, FS_EmptySet

\* Sets of voters are finite, and a larger one has more voters.
LEMMA SubsetsOfNodes ==
    ASSUME NEW S \in SUBSET Nodes, NEW T \in SUBSET S
    PROVE  /\ IsFiniteSet(S) /\ IsFiniteSet(T)
           /\ Cardinality(S) \in Nat /\ Cardinality(T) \in Nat
           /\ Cardinality(T) <= Cardinality(S)
BY NodesFinite, FS_Subset, FS_CardinalityType

\* The number of votes that checkIfQuorumVotes waits for, which is also the
\* number of shares tbls.Recover is asked to combine, is the threshold the
\* keys of the cluster are generated with, so that a QC verifies.
THEOREM QuorumIsThreshold == quorumNum = numT /\ quorumNum \in 1..Cardinality(Nodes)
<1>1. \A N \in Nat \ {0} : /\ (2 * N + 2) \div 3 = N - N \div 3
                           /\ (2 * N + 2) \div 3 \in 1..N
  OBVIOUS
<1> QED BY <1>1, NodesFinite DEF quorumNum, numT, QuorumOf, ThresholdOf

\* Two quorums of votes have a voter in common.
THEOREM QuorumsIntersect ==
    ASSUME NEW Q \in SUBSET Nodes, NEW R \in SUBSET Nodes,
           Cardinality(Q) >= quorumNum, Cardinality(R) >= quorumNum
    PROVE  Q \cap R # {}
<1>1. quorumNum + quorumNum > Cardinality(Nodes)
  BY NodesFinite DEF quorumNum, QuorumOf
<1>2. quorumNum \in Nat
  BY QuorumIsThreshold, NodesFinite
<1>3. Cardinality(Q) \in Nat /\ Cardinality(R) \in Nat
  BY SubsetsOfNodes
<1>4. Cardinality(Q) + Cardinality(R) > Cardinality(Nodes)
  BY <1>1, <1>2, <1>3, NodesFinite
<1> QED BY <1>4, NodesFinite, FS_MajoritiesIntersect

-----------------------------------------------------------------------------
(***************************************************************************)
(* Type correctness.                                                       *)
(***************************************************************************)
\* The state that NewNode makes has the types.
LEMMA TypeInit == Init => TypeOK
<1> SUFFICES ASSUME Init PROVE TypeOK
  OBVIOUS
<1>1. [block |-> Genesis, qc |-> Genesis] \in BlockWithQC
  BY BlockProperties DEF BlockWithQC
<1> QED BY <1>1 DEF Init, TypeOK, Status

\* The candidate chain holds blocks (CandidateChain).
LEMMA CandidateBlocksType ==
    ASSUME TypeOK, NEW n \in Nodes, NEW h
    PROVE  candidateBlocks(n, h) \subseteq Block
BY BlockProperties DEF candidateBlocks, AtHeight, TypeOK

\* What a go statement spawns is a goroutine.
LEMMA CallType ==
    ASSUME NEW f \in Functions, NEW b \in Block
    PROVE  Call(f, b) \in Goroutine
BY DEF Call, Goroutine

\* What Finish leaves in go.
LEMMA FinishType ==
    ASSUME TypeOK, NEW n \in Nodes, NEW g, NEW new \in SUBSET Goroutine,
           Finish(n, g, new)
    PROVE  /\ go' \in [Nodes -> SUBSET Goroutine]
           /\ go'[n] = (go[n] \ {g}) \cup new
           /\ \A m \in Nodes \ {n} : go'[m] = go[m]
BY DEF Finish, TypeOK

\* What broadcast leaves in net.
LEMMA BroadcastType ==
    ASSUME TypeOK, NEW m \in Message, NEW to, broadcast(m, to)
    PROVE  /\ net' \in [Nodes -> SUBSET Message]
           /\ \A p \in Nodes : net'[p] \subseteq net[p] \cup {m}
BY DEF broadcast, TypeOK

\* A loop or a handler of a node keeps the types.
LEMMA ProposeBlockLoopType ==
    ASSUME TypeOK, NEW n \in Nodes, ProposeBlockLoop(n)
    PROVE  TypeOK'
<1>1. CASE selectBlock(n)
  <2>1. heightUpdates[n] \in Nat /\ heightUpdates[n] > 0
    BY <1>1 DEF selectBlock, TypeOK
  <2>2. heightUpdates' \in [Nodes -> Nat]
    BY <1>1, <2>1 DEF selectBlock, TypeOK
  <2>3. selected' \in [Nodes -> SUBSET Block]
    BY <1>1, CandidateBlocksType DEF selectBlock, TypeOK
  <2> QED BY <1>1, <2>2, <2>3
          DEF selectBlock, TypeOK, voteVars, candidateVars, chainVars
<1>2. CASE ProposeBlock(n)
  <2>1. PICK previous \in selected[n], cmds \in Batches, to \in Recipients :
            broadcast([type |-> "proposal", sender |-> n,
                       block |-> NewBlock(n, previous, cmds)], to)
    BY <1>2 DEF ProposeBlock
  <2>2. previous \in Block
    BY DEF TypeOK
  <2>3. [type |-> "proposal", sender |-> n,
         block |-> NewBlock(n, previous, cmds)] \in Message
    BY <2>2, NewBlockProperties DEF Message
  <2>4. net' \in [Nodes -> SUBSET Message]
    BY <2>1, <2>3, BroadcastType
  <2>5. selected' \in [Nodes -> SUBSET Block]
    BY <1>2 DEF ProposeBlock, TypeOK
  <2> QED BY <1>2, <2>4, <2>5
          DEF ProposeBlock, TypeOK, voteVars, candidateVars, chainVars
<1>3. CASE LoseSortition(n)
  BY <1>3 DEF LoseSortition, TypeOK, voteVars, candidateVars, chainVars
<1> QED BY <1>1, <1>2, <1>3 DEF ProposeBlockLoop

\* Taking a message off msgCh keeps the types (Node.HandleMsgsLoop).
LEMMA HandleMsgsLoopType ==
    ASSUME TypeOK, NEW n \in Nodes, HandleMsgsLoop(n)
    PROVE  TypeOK'
<1>1. PICK m \in net[n] : handleNewBlockMsg(n, m) \/ handleVoteMsg(n, m)
  BY DEF HandleMsgsLoop
<1>2. m \in Message
  BY DEF TypeOK
<1>3. m.block \in Block /\ m.sender \in Nodes
  BY <1>2 DEF Message
<1>4. CASE handleNewBlockMsg(n, m)
  <2>1. {Call("handleNewBlock", m.block), Call("BroadcastVote", m.block)}
            \subseteq Goroutine
    BY <1>3, CallType DEF Functions
  <2>2. /\ net' \in [Nodes -> SUBSET Message]
        /\ go' \in [Nodes -> SUBSET Goroutine]
    BY <1>4, <2>1 DEF handleNewBlockMsg, TypeOK
  <2> QED BY <1>4, <2>2 DEF handleNewBlockMsg, TypeOK, voteVars, candidateVars,
                            chainVars, loopVars
<1>5. CASE handleVoteMsg(n, m)
  <2>1. Call("checkIfQuorumVotes", m.block) \in Goroutine
    BY <1>3, CallType DEF Functions
  <2>2. [sender |-> m.sender, block |-> m.block] \in Vote
    BY <1>3 DEF Vote
  <2>3. /\ net' \in [Nodes -> SUBSET Message]
        /\ go' \in [Nodes -> SUBSET Goroutine]
        /\ partialSigs' \in [Nodes -> SUBSET Vote]
    BY <1>5, <2>1, <2>2 DEF handleVoteMsg, TypeOK
  <2> QED BY <1>5, <2>3 DEF handleVoteMsg, TypeOK, candidateVars, chainVars, loopVars
<1> QED BY <1>1, <1>4, <1>5

\* What is written to chain.blocks are blocks with a QC.
LEMMA WrittenType ==
    ASSUME TypeOK, NEW n \in Nodes, NEW entries \in SUBSET BlockWithQC
    PROVE  Written(n, entries) \in SUBSET BlockWithQC
BY DEF Written, TypeOK

\* Every handler keeps the types.
LEMMA ResumeType ==
    ASSUME TypeOK, NEW n \in Nodes, NEW g \in go[n], Resume(n, g)
    PROVE  TypeOK'
<1>1. g \in Goroutine /\ g.block \in Block /\ Height(g.block) \in Nat
  BY BlockProperties DEF TypeOK, Goroutine
<1>2. \A f \in Functions : Call(f, g.block) \in Goroutine /\ Call(f, Genesis) \in Goroutine
  BY <1>1, CallType, BlockProperties
<1>3. \A new \in SUBSET Goroutine : Finish(n, g, new) => go' \in [Nodes -> SUBSET Goroutine]
  BY FinishType
<1>4. CASE handleNewBlock(n, g)
  <2>1. go' \in [Nodes -> SUBSET Goroutine]
    BY <1>2, <1>3, <1>4 DEF handleNewBlock, Functions
  <2> QED BY <1>1, <1>4, <2>1 DEF handleNewBlock, TypeOK, voteVars, chainVars, loopVars
<1>5. CASE BroadcastVote(n, g)
  <2>1. go' \in [Nodes -> SUBSET Goroutine]
    BY <1>2, <1>3, <1>5 DEF BroadcastVote, Functions
  <2> QED BY <1>5, <2>1 DEF BroadcastVote, TypeOK, voteVars, candidateVars, chainVars,
                            loopVars
<1>13. CASE castVote(n, g)
  <2>1. go' \in [Nodes -> SUBSET Goroutine]
    BY <1>3, <1>13 DEF castVote
  <2>2. [type |-> "vote", sender |-> n, block |-> g.block] \in Message
    BY <1>1 DEF Message
  <2>3. net' \in [Nodes -> SUBSET Message] /\ voted' \in [Nodes -> SUBSET Block]
    BY <1>1, <1>13, <2>2, BroadcastType DEF castVote, TypeOK
  <2> QED BY <1>13, <2>1, <2>3 DEF castVote, TypeOK, candidateVars, chainVars, loopVars
<1>6. CASE tryUpdateCandidateChain(n, g)
  <2>1. go' \in [Nodes -> SUBSET Goroutine]
    BY <1>2, <1>3, <1>6 DEF tryUpdateCandidateChain, Functions
  <2> QED BY <1>6, <2>1 DEF tryUpdateCandidateChain, TypeOK, voteVars, candidateVars,
                            chainVars, loopVars
<1>7. CASE tryExtendCandidateChain(n, g)
  <2>1. go' \in [Nodes -> SUBSET Goroutine]
    BY <1>2, <1>3, <1>7 DEF tryExtendCandidateChain, Functions
  <2>2. candidateHeight' \in [Nodes -> Nat] /\ heightUpdates' \in [Nodes -> Nat]
    BY <1>7 DEF tryExtendCandidateChain, TypeOK
  <2> QED BY <1>7, <2>1, <2>2 DEF tryExtendCandidateChain, TypeOK, voteVars, chainVars
<1>8. CASE checkIfQuorumVotes(n, g)
  <2>1. go' \in [Nodes -> SUBSET Goroutine]
    BY <1>2, <1>3, <1>8 DEF checkIfQuorumVotes, Functions
  <2>2. qcCreated' \in [Nodes -> SUBSET Nat]
    BY <1>1, <1>8 DEF checkIfQuorumVotes, TypeOK
  <2> QED BY <1>8, <2>1, <2>2 DEF checkIfQuorumVotes, TypeOK, candidateVars, chainVars,
                                  loopVars
<1>9. CASE buildBlockWithQC(n, g)
  <2>1. go' \in [Nodes -> SUBSET Goroutine]
    BY <1>2, <1>3, <1>9 DEF buildBlockWithQC, Functions
  <2>2. status' \in [Nodes -> Status]
    BY <1>9 DEF buildBlockWithQC, TypeOK, Status
  <2> QED BY <1>9, <2>1, <2>2 DEF buildBlockWithQC, TypeOK, voteVars, candidateVars,
                                  chainVars, loopVars
<1>10. CASE handleNewBlockQC(n, g)
  <2>1. go' \in [Nodes -> SUBSET Goroutine]
    BY <1>2, <1>3, <1>10 DEF handleNewBlockQC, Functions
  <2>2. status' \in [Nodes -> Status] /\ pendingBlocksQC' \in [Nodes -> SUBSET Block]
    BY <1>1, <1>10 DEF handleNewBlockQC, TypeOK, Status
  <2> QED BY <1>10, <2>1, <2>2 DEF handleNewBlockQC, TypeOK, voteVars, candidateVars,
                                   loopVars
<1>11. CASE CommitAncestorByBlockQC(n, g)
  <2>1. go' \in [Nodes -> SUBSET Goroutine]
    BY <1>2, <1>3, <1>11 DEF CommitAncestorByBlockQC, Functions
  <2>2. status' \in [Nodes -> Status]
    BY <1>11 DEF CommitAncestorByBlockQC, TypeOK, Status
  <2> DEFINE committed == {[block |-> Ancestor(g.block, i), qc |-> g.block] :
                              i \in chainHeight[n] + 1 .. Height(g.block) - 1}
  <2>3. committed \in SUBSET BlockWithQC
    <3>1. ASSUME NEW i \in chainHeight[n] + 1 .. Height(g.block) - 1
          PROVE  Ancestor(g.block, i) \in Block
      <4>1. i \in Nat /\ i <= Height(g.block)
        BY <1>1 DEF TypeOK
      <4> QED BY <1>1, <4>1, AncestorProperties
    <3> QED BY <1>1, <3>1 DEF BlockWithQC
  <2>4. chain' \in [Nodes -> SUBSET BlockWithQC]
    <3>1. Written(n, committed) \in SUBSET BlockWithQC
      BY <2>3, WrittenType
    <3> QED BY <1>11, <3>1 DEF CommitAncestorByBlockQC, TypeOK
  <2>5. chainHeight' \in [Nodes -> Nat]
    <3>1. CASE NothingToCommit(n, g.block) \/ MissingAncestors(n, g.block) # {}
      BY <1>11, <3>1 DEF CommitAncestorByBlockQC, TypeOK
    <3>2. CASE ~NothingToCommit(n, g.block) /\ MissingAncestors(n, g.block) = {}
      <4>1. candidateBlocks(n, Height(g.block) - 1) # {}
        BY <3>2 DEF NothingToCommit
      <4>2. Height(g.block) - 1 \in Nat
        BY <1>1, <4>1 DEF candidateBlocks, TypeOK
      <4> QED BY <1>11, <3>2, <4>2 DEF CommitAncestorByBlockQC, TypeOK
    <3> QED BY <3>1, <3>2
  <2> QED BY <1>11, <2>1, <2>2, <2>4, <2>5
          DEF CommitAncestorByBlockQC, TypeOK, voteVars, candidateVars, loopVars
<1>12. CASE tryExtendChain(n, g)
  <2>1. go' \in [Nodes -> SUBSET Goroutine]
    BY <1>2, <1>3, <1>12 DEF tryExtendChain, Functions
  <2> DEFINE next == AtHeight(pendingBlocksQC[n], chainHeight[n] + 1)
  <2>2. {[block |-> b, qc |-> b] : b \in next} \in SUBSET BlockWithQC
    BY DEF AtHeight, BlockWithQC, TypeOK
  <2>3. Written(n, {[block |-> b, qc |-> b] : b \in next}) \in SUBSET BlockWithQC
    BY <2>2, WrittenType
  <2>4. /\ chain' \in [Nodes -> SUBSET BlockWithQC]
        /\ chainHeight' \in [Nodes -> Nat]
        /\ pendingBlocksQC' \in [Nodes -> SUBSET Block]
    BY <1>12, <2>3 DEF tryExtendChain, TypeOK, chainVars
  <2> QED BY <1>12, <2>1, <2>4 DEF tryExtendChain, TypeOK, voteVars, candidateVars, loopVars
<1> QED BY <1>4, <1>5, <1>6, <1>7, <1>8, <1>9, <1>10, <1>11, <1>12, <1>13 DEF Resume

\* Every step keeps the types.
LEMMA TypeNext == TypeOK /\ [Next]_vars => TypeOK'
<1> SUFFICES ASSUME TypeOK, [Next]_vars PROVE TypeOK'
  OBVIOUS
<1>1. CASE Next
  <2>1. PICK n \in Nodes : \/ ProposeBlockLoop(n)
                           \/ HandleMsgsLoop(n)
                           \/ \E g \in go[n] : Resume(n, g)
                           \/ Crash(n)
    BY <1>1 DEF Next
  <2>2. CASE Crash(n)
    BY <2>2 DEF Crash, TypeOK, Status, voteVars, candidateVars, chainVars, loopVars
  <2> QED BY <2>1, <2>2, ProposeBlockLoopType, HandleMsgsLoopType, ResumeType
<1>2. CASE UNCHANGED vars
  BY <1>2 DEF vars, voteVars, candidateVars, chainVars, loopVars, TypeOK
<1> QED BY <1>1, <1>2

\* Every variable of a node keeps its type, in every step of every handler:
\* in particular candidateHeightUpdated never holds fewer than no values, and
\* chain.height, an unsigned number, does not wrap below 0 in
\* CommitAncestorByBlockQC.
THEOREM TypeCorrect == Spec => []TypeOK
BY TypeInit, TypeNext, PTL DEF Spec

-----------------------------------------------------------------------------
(***************************************************************************)
(* No wakeup is lost.  Each of the three invariants is inductive once the  *)
(* types are known: a goroutine that ends without doing its work found     *)
(* nothing to do, and whoever makes new work spawns a goroutine for it.    *)
(***************************************************************************)
\* A goroutine of n that runs takes no other with it.
LEMMA OthersWait ==
    ASSUME TypeOK, NEW n \in Nodes, NEW g \in go[n], Resume(n, g)
    PROVE  /\ go[n] \ {g} \subseteq go'[n]
           /\ \A m \in Nodes \ {n} : go'[m] = go[m]
<1> USE DEF Finish, TypeOK
<1>1. CASE handleNewBlock(n, g)  BY <1>1 DEF handleNewBlock
<1>2. CASE BroadcastVote(n, g)  BY <1>2 DEF BroadcastVote
<1>10. CASE castVote(n, g)  BY <1>10 DEF castVote
<1>3. CASE tryUpdateCandidateChain(n, g)  BY <1>3 DEF tryUpdateCandidateChain
<1>4. CASE tryExtendCandidateChain(n, g)  BY <1>4 DEF tryExtendCandidateChain
<1>5. CASE checkIfQuorumVotes(n, g)  BY <1>5 DEF checkIfQuorumVotes
<1>6. CASE buildBlockWithQC(n, g)  BY <1>6 DEF buildBlockWithQC
<1>7. CASE handleNewBlockQC(n, g)  BY <1>7 DEF handleNewBlockQC
<1>8. CASE CommitAncestorByBlockQC(n, g)  BY <1>8 DEF CommitAncestorByBlockQC
<1>9. CASE tryExtendChain(n, g)  BY <1>9 DEF tryExtendChain
<1> QED BY <1>1, <1>2, <1>3, <1>4, <1>5, <1>6, <1>7, <1>8, <1>9, <1>10 DEF Resume

\* Only a proposal taken off msgCh is handled as a new block, and voted for.
LEMMA ResumeSpawns ==
    ASSUME TypeOK, NEW n \in Nodes, NEW g \in go[n], Resume(n, g)
    PROVE  \A m \in Nodes : \A h \in go'[m] :
              h.fn \in {"handleNewBlock", "BroadcastVote"} => h \in go[m]
<1> USE DEF Finish, Call, TypeOK
<1>1. CASE handleNewBlock(n, g)  BY <1>1 DEF handleNewBlock
<1>2. CASE BroadcastVote(n, g)  BY <1>2 DEF BroadcastVote
<1>10. CASE castVote(n, g)  BY <1>10 DEF castVote
<1>3. CASE tryUpdateCandidateChain(n, g)  BY <1>3 DEF tryUpdateCandidateChain
<1>4. CASE tryExtendCandidateChain(n, g)  BY <1>4 DEF tryExtendCandidateChain
<1>5. CASE checkIfQuorumVotes(n, g)  BY <1>5 DEF checkIfQuorumVotes
<1>6. CASE buildBlockWithQC(n, g)  BY <1>6 DEF buildBlockWithQC
<1>7. CASE handleNewBlockQC(n, g)  BY <1>7 DEF handleNewBlockQC
<1>8. CASE CommitAncestorByBlockQC(n, g)  BY <1>8 DEF CommitAncestorByBlockQC
<1>9. CASE tryExtendChain(n, g)  BY <1>9 DEF tryExtendChain
<1> QED BY <1>1, <1>2, <1>3, <1>4, <1>5, <1>6, <1>7, <1>8, <1>9, <1>10 DEF Resume

\* The loops, and a node that stops, end no goroutine.
LEMMA LoopsSpawn ==
    ASSUME TypeOK, NEW n \in Nodes,
           ProposeBlockLoop(n) \/ HandleMsgsLoop(n) \/ Crash(n)
    PROVE  \A m \in Nodes : go[m] \subseteq go'[m]
<1>1. CASE ProposeBlockLoop(n)
  BY <1>1 DEF ProposeBlockLoop, selectBlock, ProposeBlock, LoseSortition
<1>2. CASE HandleMsgsLoop(n)
  BY <1>2 DEF HandleMsgsLoop, handleNewBlockMsg, handleVoteMsg, TypeOK
<1>3. CASE Crash(n)
  BY <1>3 DEF Crash
<1> QED BY <1>1, <1>2, <1>3

\* How a step can make a check necessary.
LEMMA NoLostQuorumNext == TypeOK /\ NoLostQuorum /\ [Next]_vars => NoLostQuorum'
<1> SUFFICES ASSUME TypeOK, NoLostQuorum, [Next]_vars,
                    NEW m \in Nodes, NEW b \in pendingBlocks'[m],
                    Cardinality(Signers(m, b)') >= quorumNum,
                    Height(b) \notin qcCreated'[m]
             PROVE  Call("checkIfQuorumVotes", b) \in go'[m]
  BY DEF NoLostQuorum
<1> DEFINE check == Call("checkIfQuorumVotes", b)
<1>1. ASSUME pendingBlocks'[m] = pendingBlocks[m], partialSigs'[m] = partialSigs[m],
             qcCreated'[m] = qcCreated[m]
      PROVE  check \in go[m]
  BY <1>1 DEF NoLostQuorum, Signers
<1>2. ASSUME NEW n \in Nodes, ProposeBlockLoop(n) \/ Crash(n)
      PROVE  check \in go'[m]
  <2>1. UNCHANGED <<pendingBlocks, partialSigs, qcCreated, go>>
    BY <1>2 DEF ProposeBlockLoop, selectBlock, ProposeBlock, LoseSortition, Crash,
                candidateVars, voteVars
  <2> QED BY <1>1, <2>1
<1>3. ASSUME NEW n \in Nodes, HandleMsgsLoop(n)
      PROVE  check \in go'[m]
  <2>1. PICK x \in net[n] : handleNewBlockMsg(n, x) \/ handleVoteMsg(n, x)
    BY <1>3 DEF HandleMsgsLoop
  <2>2. go[m] \subseteq go'[m]
    BY <1>3, LoopsSpawn
  <2>3. CASE handleNewBlockMsg(n, x)
    BY <1>1, <2>2, <2>3 DEF handleNewBlockMsg, candidateVars, voteVars
  <2>4. CASE handleVoteMsg(n, x)
    <3>1. UNCHANGED <<pendingBlocks, qcCreated>>
      BY <2>4 DEF handleVoteMsg, candidateVars
    <3>2. CASE m = n /\ x.block = b
      BY <2>4, <3>2 DEF handleVoteMsg, TypeOK
    <3>3. CASE ~(m = n /\ x.block = b)
      <4>1. Signers(m, b)' = Signers(m, b)
        BY <2>4, <3>3 DEF handleVoteMsg, Signers, TypeOK
      <4> QED BY <2>2, <3>1, <4>1 DEF NoLostQuorum
    <3> QED BY <3>2, <3>3
  <2> QED BY <2>1, <2>3, <2>4
<1>4. ASSUME NEW n \in Nodes, NEW g \in go[n], Resume(n, g)
      PROVE  check \in go'[m]
  <2>1. /\ go[n] \ {g} \subseteq go'[n]
        /\ \A p \in Nodes \ {n} : go'[p] = go[p]
    BY <1>4, OthersWait
  <2>2. CASE handleNewBlock(n, g)
    <3>1. UNCHANGED <<partialSigs, qcCreated>>
      BY <2>2 DEF handleNewBlock, voteVars
    <3>2. CASE m = n /\ b = g.block
      BY <2>2, <3>2 DEF handleNewBlock, Finish, TypeOK
    <3>3. CASE ~(m = n /\ b = g.block)
      <4>1. b \in pendingBlocks[m]
        BY <2>2, <3>3 DEF handleNewBlock, TypeOK
      <4>2. check \in go[m]
        BY <3>1, <4>1 DEF NoLostQuorum, Signers
      <4>3. check # g
        BY <2>2 DEF handleNewBlock, Call
      <4> QED BY <2>1, <4>2, <4>3
    <3> QED BY <3>2, <3>3
  <2>3. CASE checkIfQuorumVotes(n, g)
    <3>1. UNCHANGED <<pendingBlocks, partialSigs>>
      BY <2>3 DEF checkIfQuorumVotes, candidateVars
    <3>2. qcCreated[m] \subseteq qcCreated'[m]
      BY <2>3 DEF checkIfQuorumVotes, TypeOK
    <3>3. check \in go[m]
      BY <3>1, <3>2 DEF NoLostQuorum, Signers
    <3>4. ~(m = n /\ b = g.block)
      <4> SUFFICES ASSUME m = n, b = g.block PROVE FALSE
        OBVIOUS
      <4>1. HasNewQuorum(n, g.block)
        BY <3>1, <3>2 DEF HasNewQuorum, Signers
      <4>2. Height(b) \in qcCreated'[m]
        BY <2>3, <4>1 DEF checkIfQuorumVotes, TypeOK
      <4> QED BY <4>2
    <3>5. m = n => check # g
      BY <3>4 DEF Call
    <3> QED BY <2>1, <3>3, <3>5
  <2>4. CASE ~handleNewBlock(n, g) /\ ~checkIfQuorumVotes(n, g)
    <3>1. UNCHANGED <<pendingBlocks, partialSigs, qcCreated>>
      BY <1>4, <2>4 DEF Resume, BroadcastVote, castVote, tryUpdateCandidateChain,
            tryExtendCandidateChain, buildBlockWithQC, handleNewBlockQC,
            CommitAncestorByBlockQC, tryExtendChain, voteVars, candidateVars
    <3>2. g.fn # "checkIfQuorumVotes"
      BY <1>4, <2>4 DEF Resume, BroadcastVote, castVote, tryUpdateCandidateChain,
            tryExtendCandidateChain, buildBlockWithQC, handleNewBlockQC,
            CommitAncestorByBlockQC, tryExtendChain
    <3>3. check \in go[m] /\ check # g
      BY <1>1, <3>1, <3>2 DEF Call
    <3> QED BY <2>1, <3>3
  <2> QED BY <2>2, <2>3, <2>4
<1>5. CASE UNCHANGED vars
  BY <1>1, <1>5 DEF vars, voteVars, candidateVars
<1> QED BY <1>2, <1>3, <1>4, <1>5 DEF Next

\* A node that has a block and a quorum of votes for it, and no QC at its
\* height, has a checkIfQuorumVotes waiting, in every order of the proposal,
\* the votes and the checks.
THEOREM QuorumNotLost == Spec => []NoLostQuorum
<1>1. Init => NoLostQuorum
  BY DEF Init, NoLostQuorum
<1> QED BY <1>1, TypeCorrect, NoLostQuorumNext, PTL DEF Spec

\* Every step keeps NoLostCandidate, which is inductive given the types.
LEMMA NoLostCandidateNext == TypeOK /\ NoLostCandidate /\ [Next]_vars => NoLostCandidate'
<1> SUFFICES ASSUME TypeOK, NoLostCandidate, [Next]_vars, NEW m \in Nodes,
                    AtHeight(pendingBlocks'[m], candidateHeight'[m] + 1) # {}
             PROVE  \E h \in go'[m] :
                       \/ h.fn = "tryExtendCandidateChain"
                       \/ /\ h.fn = "tryUpdateCandidateChain"
                          /\ Height(h.block) > candidateHeight'[m]
  BY DEF NoLostCandidate
<1> DEFINE Waits(h) == \/ h.fn = "tryExtendCandidateChain"
                       \/ /\ h.fn = "tryUpdateCandidateChain"
                          /\ Height(h.block) > candidateHeight[m]
<1>1. ASSUME UNCHANGED <<pendingBlocks, candidateHeight>>
      PROVE  \E h \in go[m] : Waits(h)
  BY <1>1 DEF NoLostCandidate
<1>2. ASSUME NEW n \in Nodes, ProposeBlockLoop(n) \/ HandleMsgsLoop(n) \/ Crash(n)
      PROVE  \E h \in go'[m] : h.fn = "tryExtendCandidateChain" \/
                (h.fn = "tryUpdateCandidateChain" /\ Height(h.block) > candidateHeight'[m])
  <2>1. UNCHANGED <<pendingBlocks, candidateHeight>>
    BY <1>2 DEF ProposeBlockLoop, selectBlock, ProposeBlock, LoseSortition,
          HandleMsgsLoop, handleNewBlockMsg, handleVoteMsg, Crash, candidateVars
  <2>2. go[m] \subseteq go'[m]
    BY <1>2, LoopsSpawn
  <2> QED BY <1>1, <2>1, <2>2
<1>3. ASSUME NEW n \in Nodes, NEW g \in go[n], Resume(n, g)
      PROVE  \E h \in go'[m] : h.fn = "tryExtendCandidateChain" \/
                (h.fn = "tryUpdateCandidateChain" /\ Height(h.block) > candidateHeight'[m])
  <2>1. /\ go[n] \ {g} \subseteq go'[n]
        /\ \A p \in Nodes \ {n} : go'[p] = go[p]
    BY <1>3, OthersWait
  <2>2. CASE handleNewBlock(n, g)
    <3>1. UNCHANGED candidateHeight
      BY <2>2 DEF handleNewBlock
    <3>2. CASE m = n /\ Height(g.block) = candidateHeight[n] + 1
      <4>1. Call("tryUpdateCandidateChain", g.block) \in go'[n]
        BY <2>2 DEF handleNewBlock, Finish, TypeOK
      <4>2. candidateHeight[n] \in Nat
        BY DEF TypeOK
      <4> QED BY <3>1, <3>2, <4>1, <4>2 DEF Call
    <3>3. CASE ~(m = n /\ Height(g.block) = candidateHeight[n] + 1)
      <4>1. AtHeight(pendingBlocks'[m], candidateHeight[m] + 1)
              = AtHeight(pendingBlocks[m], candidateHeight[m] + 1)
        BY <2>2, <3>3 DEF handleNewBlock, AtHeight, TypeOK
      <4>2. PICK h \in go[m] : Waits(h)
        BY <3>1, <4>1 DEF NoLostCandidate
      <4>3. h # g
        BY <2>2, <4>2 DEF handleNewBlock
      <4> QED BY <2>1, <3>1, <4>2, <4>3
    <3> QED BY <3>2, <3>3
  <2>3. CASE tryUpdateCandidateChain(n, g)
    <3>1. UNCHANGED <<pendingBlocks, candidateHeight>>
      BY <2>3 DEF tryUpdateCandidateChain, candidateVars
    <3>2. PICK h \in go[m] : Waits(h)
      BY <1>1, <3>1
    <3>3. CASE m = n /\ h = g
      <4>1. Height(g.block) > candidateHeight[n]
        BY <2>3, <3>2, <3>3 DEF tryUpdateCandidateChain
      <4>2. /\ Height(g.block) \in Nat
            /\ candidateHeight[n] \in Nat
        BY BlockProperties DEF TypeOK, Goroutine
      <4>3. Call("tryExtendCandidateChain", Genesis) \in go'[n]
        BY <2>3, <4>1, <4>2 DEF tryUpdateCandidateChain, Finish, TypeOK
      <4> QED BY <3>3, <4>3 DEF Call
    <3>4. CASE ~(m = n /\ h = g)
      BY <2>1, <3>1, <3>2, <3>4
    <3> QED BY <3>3, <3>4
  <2>4. CASE tryExtendCandidateChain(n, g)
    <3>1. UNCHANGED pendingBlocks
      BY <2>4 DEF tryExtendCandidateChain
    <3>2. CASE m = n
      <4>1. CASE AtHeight(pendingBlocks[n], candidateHeight[n] + 1) # {}
        <5>1. Call("tryExtendCandidateChain", Genesis) \in go'[n]
          BY <2>4, <4>1 DEF tryExtendCandidateChain, Finish, TypeOK
        <5> QED BY <3>2, <5>1 DEF Call
      <4>2. CASE AtHeight(pendingBlocks[n], candidateHeight[n] + 1) = {}
        BY <2>4, <3>1, <3>2, <4>2 DEF tryExtendCandidateChain
      <4> QED BY <4>1, <4>2
    <3>3. CASE m # n
      <4>1. candidateHeight'[m] = candidateHeight[m]
        BY <2>4, <3>3 DEF tryExtendCandidateChain, TypeOK
      <4> QED BY <2>1, <3>1, <3>3, <4>1 DEF NoLostCandidate
    <3> QED BY <3>2, <3>3
  <2>5. CASE ~handleNewBlock(n, g) /\ ~tryUpdateCandidateChain(n, g)
             /\ ~tryExtendCandidateChain(n, g)
    <3>1. UNCHANGED <<pendingBlocks, candidateHeight>>
      BY <1>3, <2>5 DEF Resume, BroadcastVote, castVote, checkIfQuorumVotes, buildBlockWithQC,
            handleNewBlockQC, CommitAncestorByBlockQC, tryExtendChain, candidateVars
    <3>2. g.fn \notin {"tryUpdateCandidateChain", "tryExtendCandidateChain"}
      BY <1>3, <2>5 DEF Resume, BroadcastVote, castVote, checkIfQuorumVotes, buildBlockWithQC,
            handleNewBlockQC, CommitAncestorByBlockQC, tryExtendChain
    <3>3. PICK h \in go[m] : Waits(h)
      BY <1>1, <3>1
    <3>4. h # g
      BY <3>2, <3>3
    <3> QED BY <2>1, <3>1, <3>3, <3>4
  <2> QED BY <2>2, <2>3, <2>4, <2>5
<1>4. CASE UNCHANGED vars
  BY <1>1, <1>4 DEF vars, candidateVars
<1> QED BY <1>2, <1>3, <1>4 DEF Next

\* A block pending on top of the candidate chain has a goroutine waiting that
\* will extend the chain, in every order of blocks and goroutines.
THEOREM CandidateNotLost == Spec => []NoLostCandidate
<1>1. Init => NoLostCandidate
  BY DEF Init, NoLostCandidate, AtHeight
<1> QED BY <1>1, TypeCorrect, NoLostCandidateNext, PTL DEF Spec

\* Every step keeps NoLostQC, which is inductive given the types.
LEMMA NoLostQCNext == TypeOK /\ NoLostQC /\ [Next]_vars => NoLostQC'
<1> DEFINE Committing == {"CommitAncestorByBlockQC", "tryExtendChain"}
<1> SUFFICES ASSUME TypeOK, NoLostQC, [Next]_vars, NEW m \in Nodes,
                    AtHeight(pendingBlocksQC'[m], chainHeight'[m] + 1) # {}
             PROVE  \E h \in go'[m] : h.fn \in Committing
  BY DEF NoLostQC
<1>1. ASSUME UNCHANGED <<pendingBlocksQC, chainHeight>>
      PROVE  \E h \in go[m] : h.fn \in Committing
  BY <1>1 DEF NoLostQC
<1>2. ASSUME NEW n \in Nodes, ProposeBlockLoop(n) \/ HandleMsgsLoop(n) \/ Crash(n)
      PROVE  \E h \in go'[m] : h.fn \in Committing
  <2>1. UNCHANGED <<pendingBlocksQC, chainHeight>>
    BY <1>2 DEF ProposeBlockLoop, selectBlock, ProposeBlock, LoseSortition,
          HandleMsgsLoop, handleNewBlockMsg, handleVoteMsg, Crash, chainVars
  <2>2. go[m] \subseteq go'[m]
    BY <1>2, LoopsSpawn
  <2> QED BY <1>1, <2>1, <2>2
<1>3. ASSUME NEW n \in Nodes, NEW g \in go[n], Resume(n, g)
      PROVE  \E h \in go'[m] : h.fn \in Committing
  <2>1. /\ go[n] \ {g} \subseteq go'[n]
        /\ \A p \in Nodes \ {n} : go'[p] = go[p]
    BY <1>3, OthersWait
  <2>2. ASSUME m # n
        PROVE  /\ pendingBlocksQC'[m] = pendingBlocksQC[m]
               /\ chainHeight'[m] = chainHeight[m]
    BY <1>3, <2>2 DEF Resume, handleNewBlock, BroadcastVote, castVote, tryUpdateCandidateChain,
          tryExtendCandidateChain, checkIfQuorumVotes, buildBlockWithQC, handleNewBlockQC,
          CommitAncestorByBlockQC, tryExtendChain, chainVars, TypeOK
  <2>3. CASE m # n
    BY <2>1, <2>2, <2>3 DEF NoLostQC
  <2>4. CASE m = n /\ handleNewBlockQC(n, g)
    <3>1. CASE AtHeight(pendingBlocksQC[n], Height(g.block)) = {}
      <4>1. Call("CommitAncestorByBlockQC", g.block) \in go'[n]
        BY <2>4, <3>1 DEF handleNewBlockQC, Finish, TypeOK
      <4> QED BY <2>4, <4>1 DEF Call
    <3>2. CASE AtHeight(pendingBlocksQC[n], Height(g.block)) # {}
      <4>1. UNCHANGED <<pendingBlocksQC, chainHeight>>
        BY <2>4, <3>2 DEF handleNewBlockQC
      <4>2. g.fn \notin Committing
        BY <2>4 DEF handleNewBlockQC
      <4> QED BY <1>1, <2>1, <2>4, <4>1, <4>2
    <3> QED BY <3>1, <3>2
  <2>5. CASE m = n /\ CommitAncestorByBlockQC(n, g)
    <3>1. Call("tryExtendChain", Genesis) \in go'[n]
      BY <2>5 DEF CommitAncestorByBlockQC, Finish, TypeOK
    <3> QED BY <2>5, <3>1 DEF Call
  <2>6. CASE m = n /\ tryExtendChain(n, g)
    <3>1. AtHeight(pendingBlocksQC[n], chainHeight[n] + 1) # {}
      BY <2>6 DEF tryExtendChain, chainVars
    <3>2. Call("tryExtendChain", Genesis) \in go'[n]
      BY <2>6, <3>1 DEF tryExtendChain, Finish, TypeOK
    <3> QED BY <2>6, <3>2 DEF Call
  <2>7. CASE /\ m = n
             /\ ~handleNewBlockQC(n, g)
             /\ ~CommitAncestorByBlockQC(n, g)
             /\ ~tryExtendChain(n, g)
    <3>1. UNCHANGED <<pendingBlocksQC, chainHeight>> /\ g.fn \notin Committing
      BY <1>3, <2>7 DEF Resume, handleNewBlock, BroadcastVote, castVote, tryUpdateCandidateChain,
            tryExtendCandidateChain, checkIfQuorumVotes, buildBlockWithQC, chainVars
    <3> QED BY <1>1, <2>1, <2>7, <3>1
  <2> QED BY <2>3, <2>4, <2>5, <2>6, <2>7
<1>4. CASE UNCHANGED vars
  BY <1>1, <1>4 DEF vars, chainVars
<1> QED BY <1>2, <1>3, <1>4 DEF Next

\* A QC at the height above chain.height has a goroutine waiting that will
\* extend the chain, whatever CommitAncestorByBlockQC sets chain.height to.
THEOREM QCNotLost == Spec => []NoLostQC
<1>1. Init => NoLostQC
  BY DEF Init, NoLostQC, AtHeight
<1> QED BY <1>1, TypeCorrect, NoLostQCNext, PTL DEF Spec

-----------------------------------------------------------------------------
(***************************************************************************)
(* One QC for a height.  QCUnique is not inductive: it follows from what   *)
(* links the QCs of all nodes to the votes that the voters remember.       *)
(***************************************************************************)
\* A vote on its way or received is one its sender remembers.
VotesRemembered ==
    \A n \in Nodes :
        /\ \A m \in net[n] : m.type = "vote" => m.block \in voted[m.sender]
        /\ \A v \in partialSigs[n] : v.block \in voted[v.sender]

\* A node votes once for a height (the map voted).
VotedOnce ==
    \A s \in Nodes : \A b, c \in voted[s] : Height(b) = Height(c) => b = c

\* Behind every QC there is a quorum of voters.
CertifiedByQuorum ==
    \A n \in Nodes : \A b \in certified(n) :
        b = Genesis \/ Cardinality(voters(b)) >= quorumNum

VoteInv == VotesRemembered /\ VotedOnce
QCInv == VoteInv /\ CertifiedByQuorum

\* Nobody has voted at first, and genesis is the only certified block (NewNode).
LEMMA QCInvInit == Init => QCInv
<1> SUFFICES ASSUME Init PROVE QCInv
  OBVIOUS
<1>1. \A n \in Nodes : certified(n) = {Genesis}
  BY DEF Init, certified
<1> QED BY <1>1 DEF Init, QCInv, VoteInv, VotesRemembered, VotedOnce, CertifiedByQuorum

\* A vote is never forgotten.
LEMMA VotedGrows ==
    ASSUME TypeOK, [Next]_vars
    PROVE  \A s \in Nodes : voted[s] \subseteq voted'[s]
<1>1. ASSUME NEW n \in Nodes, ProposeBlockLoop(n) \/ HandleMsgsLoop(n) \/ Crash(n)
      PROVE  UNCHANGED voted
  BY <1>1 DEF ProposeBlockLoop, selectBlock, ProposeBlock, LoseSortition, HandleMsgsLoop,
        handleNewBlockMsg, handleVoteMsg, Crash, voteVars
<1>2. ASSUME NEW n \in Nodes, NEW g \in go[n], Resume(n, g)
      PROVE  \A s \in Nodes : voted[s] \subseteq voted'[s]
  <2>1. CASE castVote(n, g)
    BY <2>1 DEF castVote, TypeOK
  <2>2. CASE ~castVote(n, g)
    BY <1>2, <2>2 DEF Resume, handleNewBlock, BroadcastVote, tryUpdateCandidateChain,
          tryExtendCandidateChain, checkIfQuorumVotes, buildBlockWithQC, handleNewBlockQC,
          CommitAncestorByBlockQC, tryExtendChain, voteVars
  <2> QED BY <2>1, <2>2
<1>3. CASE UNCHANGED vars
  BY <1>3 DEF vars, voteVars
<1> QED BY <1>1, <1>2, <1>3 DEF Next

\* A quorum of voters stays one.
LEMMA VotersGrow ==
    ASSUME TypeOK, [Next]_vars, NEW b, Cardinality(voters(b)) >= quorumNum
    PROVE  Cardinality(voters(b)') >= quorumNum
<1>1. voters(b)' \in SUBSET Nodes /\ voters(b) \in SUBSET voters(b)'
  BY VotedGrows DEF voters
<1>2. /\ Cardinality(voters(b)) \in Nat
      /\ Cardinality(voters(b)') \in Nat
      /\ Cardinality(voters(b)) <= Cardinality(voters(b)')
  BY <1>1, SubsetsOfNodes
<1> QED BY <1>2, QuorumIsThreshold, NodesFinite

\* A quorum of received votes is one of voters.
LEMMA SignersVoted ==
    ASSUME VoteInv, NEW n \in Nodes, NEW b, Cardinality(Signers(n, b)) >= quorumNum
    PROVE  Cardinality(voters(b)) >= quorumNum
<1>1. Signers(n, b) \in SUBSET voters(b) /\ voters(b) \in SUBSET Nodes
  BY DEF VoteInv, VotesRemembered, Signers, voters
<1>2. /\ Cardinality(Signers(n, b)) <= Cardinality(voters(b))
      /\ Cardinality(Signers(n, b)) \in Nat /\ Cardinality(voters(b)) \in Nat
  BY <1>1, SubsetsOfNodes
<1> QED BY <1>2, QuorumIsThreshold, NodesFinite

\* What a step adds to the messages and the votes received.
LEMMA VoteInvNext == TypeOK /\ VoteInv /\ [Next]_vars => VoteInv'
<1> SUFFICES ASSUME TypeOK, VoteInv, [Next]_vars PROVE VoteInv'
  OBVIOUS
<1>1. \A s \in Nodes : voted[s] \subseteq voted'[s]
  BY VotedGrows
<1>2. ASSUME UNCHANGED <<net, partialSigs, voted>> PROVE VoteInv'
  BY <1>2 DEF VoteInv, VotesRemembered, VotedOnce
<1>3. ASSUME NEW n \in Nodes, ProposeBlockLoop(n) PROVE VoteInv'
  <2>1. CASE ProposeBlock(n)
    <3>1. PICK previous \in selected[n], cmds \in Batches, to \in Recipients :
              broadcast([type |-> "proposal", sender |-> n,
                         block |-> NewBlock(n, previous, cmds)], to)
      BY <2>1 DEF ProposeBlock
    <3> DEFINE new == [type |-> "proposal", sender |-> n,
                       block |-> NewBlock(n, previous, cmds)]
    <3>2. \A p \in Nodes : net'[p] \subseteq net[p] \cup {new}
      BY <3>1 DEF broadcast
    <3>3. UNCHANGED <<voted, partialSigs>>
      BY <2>1 DEF ProposeBlock, voteVars
    <3> QED BY <3>2, <3>3 DEF VoteInv, VotesRemembered, VotedOnce
  <2>2. CASE selectBlock(n) \/ LoseSortition(n)
    BY <1>2, <2>2 DEF selectBlock, LoseSortition, voteVars
  <2> QED BY <1>3, <2>1, <2>2 DEF ProposeBlockLoop
<1>4. ASSUME NEW n \in Nodes, HandleMsgsLoop(n) PROVE VoteInv'
  <2>1. PICK m \in net[n] : handleNewBlockMsg(n, m) \/ handleVoteMsg(n, m)
    BY <1>4 DEF HandleMsgsLoop
  <2>2. UNCHANGED voted /\ \A p \in Nodes : net'[p] \subseteq net[p]
    BY <2>1 DEF handleNewBlockMsg, handleVoteMsg, voteVars, TypeOK
  <2>3. \A p \in Nodes : \A v \in partialSigs'[p] :
            v \in partialSigs[p] \/ (/\ m.type = "vote"
                                    /\ v = [sender |-> m.sender, block |-> m.block])
    BY <2>1 DEF handleNewBlockMsg, handleVoteMsg, voteVars, TypeOK
  <2>4. m.type = "vote" => m.block \in voted[m.sender]
    BY DEF VoteInv, VotesRemembered
  <2> QED BY <2>2, <2>3, <2>4 DEF VoteInv, VotesRemembered, VotedOnce
<1>5. ASSUME NEW n \in Nodes, Crash(n) PROVE VoteInv'
  BY <1>2, <1>5 DEF Crash, voteVars
<1>6. ASSUME NEW n \in Nodes, NEW g \in go[n], Resume(n, g) PROVE VoteInv'
  <2>1. CASE castVote(n, g)
    <3>1. UNCHANGED partialSigs
      BY <2>1 DEF castVote
    <3>2. CASE HasVoted(n, g.block)
      BY <1>2, <2>1, <3>1, <3>2 DEF castVote
    <3>3. CASE ~HasVoted(n, g.block)
      <4>1. voted' = [voted EXCEPT ![n] = @ \cup {g.block}]
        BY <2>1, <3>3 DEF castVote
      <4>2. VotedOnce'
        BY <3>3, <4>1 DEF VoteInv, VotedOnce, HasVoted, AtHeight, TypeOK
      <4> DEFINE new == [type |-> "vote", sender |-> n, block |-> g.block]
      <4>3. \A p \in Nodes : net'[p] \subseteq net[p] \cup {new}
        BY <2>1, <3>3 DEF castVote, broadcast
      <4>4. new.block \in voted'[new.sender]
        BY <4>1 DEF TypeOK
      <4>5. \A p \in Nodes : \A m \in net[p] : m.sender \in Nodes
        BY DEF TypeOK, Message
      <4>6. \A p \in Nodes : \A v \in partialSigs[p] : v.sender \in Nodes
        BY DEF TypeOK, Vote
      <4>7. VotesRemembered'
        BY <1>1, <3>1, <4>3, <4>4, <4>5, <4>6 DEF VoteInv, VotesRemembered
      <4> QED BY <4>2, <4>7 DEF VoteInv
    <3> QED BY <3>2, <3>3
  <2>2. CASE ~castVote(n, g)
    <3>1. UNCHANGED <<net, partialSigs, voted>>
      BY <1>6, <2>2 DEF Resume, handleNewBlock, BroadcastVote, tryUpdateCandidateChain,
            tryExtendCandidateChain, checkIfQuorumVotes, buildBlockWithQC,
            handleNewBlockQC, CommitAncestorByBlockQC, tryExtendChain, voteVars
    <3> QED BY <1>2, <3>1
  <2> QED BY <2>1, <2>2
<1>7. CASE UNCHANGED vars
  BY <1>2, <1>7 DEF vars, voteVars
<1> QED BY <1>3, <1>4, <1>5, <1>6, <1>7 DEF Next

\* A QC comes into being in checkIfQuorumVotes only.
LEMMA CertifiedFrom ==
    ASSUME TypeOK, NEW n \in Nodes, NEW g \in go[n], Resume(n, g),
           NEW m \in Nodes, NEW b \in certified(m)'
    PROVE  \/ b \in certified(m)
           \/ m = n /\ b = g.block /\ checkIfQuorumVotes(n, g) /\ HasNewQuorum(n, b)
<1> DEFINE Fns == {"buildBlockWithQC", "handleNewBlockQC", "CommitAncestorByBlockQC"}
<1>1. CASE m # n
  <2>1. UNCHANGED <<go[m], pendingBlocksQC[m], chain[m]>>
    BY <1>1 DEF Resume, handleNewBlock, BroadcastVote, castVote, tryUpdateCandidateChain,
          tryExtendCandidateChain, checkIfQuorumVotes, buildBlockWithQC, handleNewBlockQC,
          CommitAncestorByBlockQC, tryExtendChain, chainVars, Finish, TypeOK
  <2> QED BY <2>1 DEF certified
<1>2. CASE m = n
  <2> USE <1>2 DEF certified, Finish, Call, TypeOK
  <2>1. CASE handleNewBlock(n, g)  BY <2>1 DEF handleNewBlock, chainVars
  <2>2. CASE BroadcastVote(n, g)  BY <2>2 DEF BroadcastVote, chainVars
  <2>10. CASE castVote(n, g)  BY <2>10 DEF castVote, chainVars
  <2>3. CASE tryUpdateCandidateChain(n, g)
    BY <2>3 DEF tryUpdateCandidateChain, chainVars
  <2>4. CASE tryExtendCandidateChain(n, g)
    BY <2>4 DEF tryExtendCandidateChain, chainVars
  <2>5. CASE checkIfQuorumVotes(n, g)  BY <2>5 DEF checkIfQuorumVotes, chainVars
  <2>6. CASE buildBlockWithQC(n, g)  BY <2>6 DEF buildBlockWithQC, chainVars
  <2>7. CASE handleNewBlockQC(n, g)  BY <2>7 DEF handleNewBlockQC
  <2>8. CASE CommitAncestorByBlockQC(n, g)
    <3>1. g.block \in certified(n)
      BY <2>8 DEF CommitAncestorByBlockQC
    <3>2. \A e \in chain'[n] : e \in chain[n] \/ e.qc = g.block
      BY <2>8 DEF CommitAncestorByBlockQC, Written
    <3> QED BY <2>8, <3>1, <3>2 DEF CommitAncestorByBlockQC
  <2>9. CASE tryExtendChain(n, g)
    <3>1. \A e \in chain'[n] : e \in chain[n] \/ e.qc \in pendingBlocksQC[n]
      BY <2>9 DEF tryExtendChain, Written, AtHeight, chainVars
    <3> QED BY <2>9, <3>1 DEF tryExtendChain, chainVars
  <2> QED BY <2>1, <2>2, <2>3, <2>4, <2>5, <2>6, <2>7, <2>8, <2>9, <2>10 DEF Resume
<1> QED BY <1>1, <1>2

\* Every step keeps the invariant on votes and QCs.
LEMMA QCInvNext == TypeOK /\ QCInv /\ [Next]_vars => QCInv'
<1> SUFFICES ASSUME TypeOK, QCInv, [Next]_vars PROVE QCInv'
  OBVIOUS
<1>1. VoteInv'
  BY VoteInvNext DEF QCInv
<1>2. ASSUME NEW m \in Nodes, NEW b \in certified(m)'
      PROVE  b = Genesis \/ Cardinality(voters(b)) >= quorumNum
  <2>1. ASSUME b \in certified(m) PROVE b = Genesis \/ Cardinality(voters(b)) >= quorumNum
    BY <2>1 DEF QCInv, CertifiedByQuorum
  <2>2. ASSUME NEW n \in Nodes, ProposeBlockLoop(n) \/ HandleMsgsLoop(n) \/ Crash(n)
        PROVE  b \in certified(m)
    BY <1>2, <2>2 DEF ProposeBlockLoop, selectBlock, ProposeBlock, LoseSortition,
          HandleMsgsLoop, handleNewBlockMsg, handleVoteMsg, Crash, certified, chainVars,
          Call, TypeOK
  <2>3. ASSUME NEW n \in Nodes, NEW g \in go[n], Resume(n, g)
        PROVE  b = Genesis \/ Cardinality(voters(b)) >= quorumNum
    <3>1. b \in certified(m) \/ HasNewQuorum(n, b)
      BY <1>2, <2>3, CertifiedFrom
    <3>2. CASE HasNewQuorum(n, b)
      BY <3>2, SignersVoted DEF HasNewQuorum, QCInv
    <3> QED BY <2>1, <3>1, <3>2
  <2>4. CASE UNCHANGED vars
    <3>1. b \in certified(m)
      BY <1>2, <2>4 DEF certified, vars, chainVars
    <3> QED BY <2>1, <3>1
  <2> QED BY <2>1, <2>2, <2>3, <2>4 DEF Next
<1>3. CertifiedByQuorum'
  BY <1>2, VotersGrow DEF CertifiedByQuorum
<1> QED BY <1>1, <1>3 DEF QCInv

\* The invariant on votes and QCs holds in every reachable state.
LEMMA QCInvInvariant == Spec => []QCInv
BY QCInvInit, TypeCorrect, QCInvNext, PTL DEF Spec

\* Two blocks of one height do not both get a quorum, if every node votes once
\* for a height (Node.BroadcastVote); votes are the blocks each node voted for.
LEMMA QuorumsAgree ==
    ASSUME NEW votes,
           \A s \in Nodes : \A b, c \in votes[s] : Height(b) = Height(c) => b = c,
           NEW d, Cardinality({s \in Nodes : d \in votes[s]}) >= quorumNum,
           NEW e, Cardinality({s \in Nodes : e \in votes[s]}) >= quorumNum,
           Height(d) = Height(e)
    PROVE  d = e
<1>1. {s \in Nodes : d \in votes[s]} \cap {s \in Nodes : e \in votes[s]} # {}
  BY QuorumsIntersect
<1> QED BY <1>1

\* QCs of one height are QCs of one block, because of the votes behind them.
LEMMA CertifiedOnce == TypeOK /\ QCInv => QCUnique
<1> SUFFICES ASSUME TypeOK, QCInv, NEW m \in Nodes, NEW n \in Nodes,
                    NEW b \in certified(m), NEW c \in certified(n),
                    Height(b) = Height(c)
             PROVE  b = c
  BY DEF QCUnique
<1>1. b \in Block /\ c \in Block
  BY DEF certified, TypeOK, Goroutine, BlockWithQC
<1>2. CASE b = Genesis \/ c = Genesis
  <2>1. Height(Genesis) = 0
    BY EmptySeq DEF Height, Genesis
  <2> QED BY <1>1, <1>2, <2>1, BlockProperties
<1>3. CASE b # Genesis /\ c # Genesis
  <2>1. /\ Cardinality(voters(b)) >= quorumNum
        /\ Cardinality(voters(c)) >= quorumNum
    BY <1>3 DEF QCInv, CertifiedByQuorum
  <2> QED BY <2>1, QuorumsAgree DEF QCInv, VoteInv, VotedOnce, voters
<1> QED BY <1>2, <1>3

\* Different nodes that create QCs of the same height create them for the same
\* block: a node votes once for a height, and any two quorums share a voter.
THEOREM OneQCPerHeight == Spec => []QCUnique
BY CertifiedOnce, TypeCorrect, QCInvInvariant, PTL

\* A block is its own ancestor at its height, and an entry of
\* CommitAncestorByBlockQC holds the ancestor at the height it is written to.
EntriesLinked ==
    \A n \in Nodes : \A e \in chain[n] :
        Height(e.block) <= Height(e.qc) /\ e.block = Ancestor(e.qc, Height(e.block))

\* Every step keeps the entries of the chains linked to their QCs.
LEMMA EntriesLinkedNext == TypeOK /\ EntriesLinked /\ [Next]_vars => EntriesLinked'
<1> SUFFICES ASSUME TypeOK, EntriesLinked, [Next]_vars, NEW m \in Nodes, NEW e \in chain'[m],
                    e \notin chain[m]
             PROVE  Height(e.block) <= Height(e.qc) /\ e.block = Ancestor(e.qc, Height(e.block))
  BY DEF EntriesLinked
<1>1. PICK n \in Nodes : \E g \in go[n] :
         CommitAncestorByBlockQC(n, g) \/ tryExtendChain(n, g)
  <2>1. chain' # chain
    OBVIOUS
  <2>2. ASSUME NEW n \in Nodes, ProposeBlockLoop(n) \/ HandleMsgsLoop(n) \/ Crash(n)
        PROVE  chain' = chain
    BY <2>2 DEF ProposeBlockLoop, selectBlock, ProposeBlock, LoseSortition, HandleMsgsLoop,
          handleNewBlockMsg, handleVoteMsg, Crash, chainVars
  <2>3. ASSUME NEW n \in Nodes, NEW g \in go[n], Resume(n, g)
        PROVE  \/ chain' = chain
               \/ CommitAncestorByBlockQC(n, g) \/ tryExtendChain(n, g)
    BY <2>3 DEF Resume, handleNewBlock, BroadcastVote, castVote, tryUpdateCandidateChain,
          tryExtendCandidateChain, checkIfQuorumVotes, buildBlockWithQC, handleNewBlockQC,
          chainVars
  <2>4. UNCHANGED vars => chain' = chain
    BY DEF vars, chainVars
  <2> QED BY <2>1, <2>2, <2>3, <2>4 DEF Next
<1> PICK g \in go[n] : CommitAncestorByBlockQC(n, g) \/ tryExtendChain(n, g)
  BY <1>1
<1>2. g.block \in Block /\ Height(g.block) \in Nat /\ chainHeight[n] \in Nat
  BY BlockProperties DEF TypeOK, Goroutine
<1>3. CASE CommitAncestorByBlockQC(n, g)
  <2>1. PICK i \in chainHeight[n] + 1 .. Height(g.block) - 1 :
           e = [block |-> Ancestor(g.block, i), qc |-> g.block]
    BY <1>3 DEF CommitAncestorByBlockQC, Written, TypeOK
  <2>2. i \in Nat /\ i <= Height(g.block)
    BY <1>2, <2>1
  <2>3. Height(Ancestor(g.block, i)) = i
    BY <1>2, <2>2, AncestorProperties
  <2> QED BY <2>1, <2>2, <2>3
<1>4. CASE tryExtendChain(n, g)
  <2>1. PICK b \in pendingBlocksQC[n] : e = [block |-> b, qc |-> b]
    BY <1>4 DEF tryExtendChain, Written, AtHeight, TypeOK, chainVars
  <2>2. b \in Seq(Content)
    BY <2>1 DEF TypeOK, Block
  <2>3. SubSeq(b, 1, Len(b)) = b
    BY <2>2, SubSeqFull
  <2> QED BY <2>1, <2>2, <2>3, LenProperties DEF Height, Ancestor
<1> QED BY <1>1, <1>3, <1>4

\* The entries are linked in every reachable state.
LEMMA EntriesLinkedInvariant == Spec => []EntriesLinked
<1>1. Init => EntriesLinked
  <2>1. Height(Genesis) = 0 /\ Ancestor(Genesis, 0) = Genesis
    BY EmptySeq, SubSeqEmpty DEF Genesis, Height, Ancestor
  <2> QED BY <2>1 DEF Init, EntriesLinked
<1> QED BY <1>1, EntriesLinkedNext, TypeCorrect, PTL DEF Spec

\* A committed block is certified by the QC it is stored with: also the ones
\* that CommitAncestorByBlockQC stores with the QC of a descendant.
THEOREM CommittedIsCertified == Spec => []ChainCertified
<1>1. TypeOK /\ EntriesLinked /\ QCInv => ChainCertified
  <2> SUFFICES ASSUME EntriesLinked, QCInv, NEW n \in Nodes, NEW e \in chain[n],
                      e.qc # Genesis
               PROVE  3 * Cardinality(voters(e.qc)) >= 2 * Cardinality(Nodes)
    BY DEF EntriesLinked, ChainCertified
  <2>1. Cardinality(voters(e.qc)) >= quorumNum
    BY DEF QCInv, CertifiedByQuorum, certified
  <2>2. voters(e.qc) \in SUBSET Nodes
    BY DEF voters
  <2>3. Cardinality(voters(e.qc)) \in Nat
    BY <2>2, SubsetsOfNodes
  <2>4. quorumNum \in Nat /\ 3 * quorumNum >= 2 * Cardinality(Nodes)
    BY NodesFinite DEF quorumNum, QuorumOf
  <2> QED BY <2>1, <2>3, <2>4, NodesFinite
<1> QED BY <1>1, EntriesLinkedInvariant, TypeCorrect, QCInvInvariant, PTL

-----------------------------------------------------------------------------
(***************************************************************************)
(* No handler fails.  What keeps a second QC of a height away from         *)
(* handleNewBlockQC is that the goroutines assembling a QC, and the QCs    *)
(* pending, are of different heights, each marked in qcCreated.            *)
(***************************************************************************)
\* The goroutines of n on the way from a quorum to pendingBlocksQC.
assembling(n) == {g \in go[n] : g.fn \in {"buildBlockWithQC", "handleNewBlockQC"}}

\* They, and the QCs pending, are of heights marked in qcCreated.
HeightsMarked ==
    \A n \in Nodes :
        /\ \A g \in assembling(n) : Height(g.block) \in qcCreated[n]
        /\ \A b \in pendingBlocksQC[n] : Height(b) \in qcCreated[n]

\* No two of them are of one height, and none is of the height of a pending QC.
AssembledOnce ==
    \A n \in Nodes : \A g \in assembling(n) :
        /\ \A h \in assembling(n) : Height(g.block) = Height(h.block) => g = h
        /\ \A b \in pendingBlocksQC[n] : Height(b) # Height(g.block)

\* buildBlockWithQC finds the votes that checkIfQuorumVotes counted.
EnoughShares ==
    \A n \in Nodes : \A g \in go[n] :
        g.fn = "buildBlockWithQC" => Cardinality(Signers(n, g.block)) >= quorumNum

HandlersInv == HeightsMarked /\ AssembledOnce /\ EnoughShares /\ HandlersReturn

\* No QC is being assembled at first (NewNode).
LEMMA HandlersInvInit == Init => HandlersInv
BY DEF Init, HandlersInv, HeightsMarked, AssembledOnce, EnoughShares, HandlersReturn,
       assembling

\* The votes a node received for a block stay received.
LEMMA SignersGrow ==
    ASSUME TypeOK, NEW n \in Nodes, partialSigs[n] \subseteq partialSigs'[n], NEW b,
           Cardinality(Signers(n, b)) >= quorumNum
    PROVE  Cardinality(Signers(n, b)') >= quorumNum
<1>1. Signers(n, b)' \in SUBSET Nodes /\ Signers(n, b) \in SUBSET Signers(n, b)'
  BY DEF Signers
<1>2. /\ Cardinality(Signers(n, b)) \in Nat
      /\ Cardinality(Signers(n, b)') \in Nat
      /\ Cardinality(Signers(n, b)) <= Cardinality(Signers(n, b)')
  BY <1>1, SubsetsOfNodes
<1> QED BY <1>2, QuorumIsThreshold, NodesFinite

\* A step that neither assembles nor commits anything.
LEMMA HandlersInvFrame ==
    ASSUME TypeOK, HandlersInv, UNCHANGED <<qcCreated, pendingBlocksQC, status>>,
           \A n \in Nodes : /\ partialSigs[n] \subseteq partialSigs'[n]
                           /\ assembling(n)' \subseteq assembling(n)
    PROVE  HandlersInv'
<1>1. HeightsMarked' /\ AssembledOnce' /\ HandlersReturn'
  BY DEF HandlersInv, HeightsMarked, AssembledOnce, HandlersReturn
<1>2. EnoughShares'
  <2> SUFFICES ASSUME NEW n \in Nodes, NEW g \in go'[n], g.fn = "buildBlockWithQC"
               PROVE  Cardinality(Signers(n, g.block)') >= quorumNum
    BY DEF EnoughShares
  <2>1. g \in go[n]
    BY DEF assembling
  <2> QED BY <2>1, SignersGrow DEF HandlersInv, EnoughShares
<1> QED BY <1>1, <1>2 DEF HandlersInv

\* Every step keeps the invariant on the handlers of QCs.
LEMMA HandlersInvNext == TypeOK /\ HandlersInv /\ [Next]_vars => HandlersInv'
<1> SUFFICES ASSUME TypeOK, HandlersInv, [Next]_vars PROVE HandlersInv'
  OBVIOUS
<1>1. ASSUME NEW n \in Nodes, ProposeBlockLoop(n) PROVE HandlersInv'
  <2>1. UNCHANGED <<qcCreated, pendingBlocksQC, status, partialSigs, go>>
    BY <1>1 DEF ProposeBlockLoop, selectBlock, ProposeBlock, LoseSortition, voteVars,
          chainVars
  <2> QED BY <2>1, HandlersInvFrame DEF assembling
<1>2. ASSUME NEW n \in Nodes, HandleMsgsLoop(n) PROVE HandlersInv'
  <2>1. UNCHANGED <<qcCreated, pendingBlocksQC, status>>
    BY <1>2 DEF HandleMsgsLoop, handleNewBlockMsg, handleVoteMsg, voteVars, chainVars
  <2>2. \A m \in Nodes : /\ partialSigs[m] \subseteq partialSigs'[m]
                        /\ assembling(m)' \subseteq assembling(m)
    BY <1>2 DEF HandleMsgsLoop, handleNewBlockMsg, handleVoteMsg, voteVars, assembling,
          Call, TypeOK
  <2> QED BY <2>1, <2>2, HandlersInvFrame
<1>3. ASSUME NEW n \in Nodes, Crash(n) PROVE HandlersInv'
  <2>1. UNCHANGED <<qcCreated, pendingBlocksQC, partialSigs, go>>
    BY <1>3 DEF Crash, voteVars, chainVars
  <2>2. HandlersReturn'
    BY <1>3 DEF Crash, HandlersInv, HandlersReturn, TypeOK
  <2> QED BY <2>1, <2>2 DEF HandlersInv, HeightsMarked, AssembledOnce, EnoughShares,
                           assembling, Signers
<1>4. ASSUME NEW n \in Nodes, NEW g \in go[n], Resume(n, g) PROVE HandlersInv'
  <2>1. CASE handleNewBlock(n, g) \/ BroadcastVote(n, g) \/ castVote(n, g)
             \/ tryUpdateCandidateChain(n, g) \/ tryExtendCandidateChain(n, g)
    <3>1. UNCHANGED <<qcCreated, pendingBlocksQC, status, partialSigs>>
      BY <2>1 DEF handleNewBlock, BroadcastVote, castVote, tryUpdateCandidateChain,
            tryExtendCandidateChain, voteVars, chainVars
    <3>2. \A m \in Nodes : assembling(m)' \subseteq assembling(m)
      BY <2>1 DEF handleNewBlock, BroadcastVote, castVote, tryUpdateCandidateChain,
            tryExtendCandidateChain, assembling, Finish, Call, TypeOK
    <3> QED BY <3>1, <3>2, HandlersInvFrame
  <2>2. CASE checkIfQuorumVotes(n, g)
    <3>1. UNCHANGED <<pendingBlocksQC, status, partialSigs>>
      BY <2>2 DEF checkIfQuorumVotes, chainVars
    <3>2. CASE ~HasNewQuorum(n, g.block)
      <4>1. UNCHANGED qcCreated /\ \A m \in Nodes : assembling(m)' \subseteq assembling(m)
        BY <2>2, <3>2 DEF checkIfQuorumVotes, assembling, Finish, TypeOK
      <4> QED BY <3>1, <4>1, HandlersInvFrame
    <3>3. CASE HasNewQuorum(n, g.block)
      <4> DEFINE new == Call("buildBlockWithQC", g.block)
      <4>1. qcCreated' = [qcCreated EXCEPT ![n] = @ \cup {Height(g.block)}]
        BY <2>2, <3>3 DEF checkIfQuorumVotes
      <4>2. /\ assembling(n)' \subseteq assembling(n) \cup {new}
            /\ \A m \in Nodes \ {n} : assembling(m)' = assembling(m)
        BY <2>2, <3>3 DEF checkIfQuorumVotes, assembling, Finish, TypeOK
      <4>3. Height(g.block) \notin qcCreated[n]
        BY <3>3 DEF HasNewQuorum
      <4>4. new.block = g.block
        BY DEF Call
      <4>5. HeightsMarked'
        BY <3>1, <4>1, <4>2, <4>4 DEF HandlersInv, HeightsMarked, TypeOK
      <4>6. AssembledOnce'
        BY <3>1, <4>2, <4>3, <4>4 DEF HandlersInv, HeightsMarked, AssembledOnce
      <4>7. EnoughShares'
        <5> SUFFICES ASSUME NEW m \in Nodes, NEW h \in go'[m], h.fn = "buildBlockWithQC"
                     PROVE  Cardinality(Signers(m, h.block)') >= quorumNum
          BY DEF EnoughShares
        <5>1. Signers(m, h.block)' = Signers(m, h.block)
          BY <3>1 DEF Signers
        <5>2. h \in go[m] \/ (m = n /\ h = new)
          BY <4>2 DEF assembling
        <5> QED BY <3>3, <4>4, <5>1, <5>2 DEF HasNewQuorum, HandlersInv, EnoughShares
      <4> QED BY <3>1, <4>5, <4>6, <4>7 DEF HandlersInv, HandlersReturn
    <3> QED BY <3>2, <3>3
  <2>3. CASE buildBlockWithQC(n, g)
    <3> DEFINE new == Call("handleNewBlockQC", g.block)
    <3>1. UNCHANGED <<pendingBlocksQC, qcCreated, partialSigs>>
      BY <2>3 DEF buildBlockWithQC, voteVars, chainVars
    <3>2. Cardinality(Signers(n, g.block)) >= quorumNum
      BY <2>3 DEF buildBlockWithQC, HandlersInv, EnoughShares
    <3>3. UNCHANGED status /\ Finish(n, g, {new})
      BY <2>3, <3>2 DEF buildBlockWithQC
    <3>4. /\ assembling(n)' = (assembling(n) \ {g}) \cup {new}
          /\ \A m \in Nodes \ {n} : assembling(m)' = assembling(m)
          /\ \A m \in Nodes : \A h \in go'[m] : h.fn = "buildBlockWithQC" => h \in go[m]
      BY <3>3 DEF assembling, Finish, Call, TypeOK
    <3>5. g \in assembling(n) /\ new.block = g.block
      BY <2>3 DEF buildBlockWithQC, assembling, Call
    <3>6. HeightsMarked'
      BY <3>1, <3>4, <3>5 DEF HandlersInv, HeightsMarked
    <3>7. AssembledOnce'
      BY <3>1, <3>4, <3>5 DEF HandlersInv, AssembledOnce
    <3>8. EnoughShares'
      BY <3>1, <3>4 DEF HandlersInv, EnoughShares, Signers
    <3> QED BY <3>3, <3>6, <3>7, <3>8 DEF HandlersInv, HandlersReturn
  <2>4. CASE handleNewBlockQC(n, g)
    <3>1. g \in assembling(n)
      BY <2>4 DEF handleNewBlockQC, assembling
    <3>2. AtHeight(pendingBlocksQC[n], Height(g.block)) = {}
      BY <3>1 DEF HandlersInv, AssembledOnce, AtHeight
    <3>3. /\ pendingBlocksQC' = [pendingBlocksQC EXCEPT ![n] = @ \cup {g.block}]
          /\ UNCHANGED <<status, qcCreated, partialSigs>>
      BY <2>4, <3>2 DEF handleNewBlockQC, voteVars
    <3>4. /\ assembling(n)' = assembling(n) \ {g}
          /\ \A m \in Nodes \ {n} : assembling(m)' = assembling(m)
          /\ \A m \in Nodes : \A h \in go'[m] : h.fn = "buildBlockWithQC" => h \in go[m]
      BY <2>4, <3>2 DEF handleNewBlockQC, assembling, Finish, Call, TypeOK
    <3>5. HeightsMarked'
      BY <3>1, <3>3, <3>4 DEF HandlersInv, HeightsMarked, TypeOK
    <3>6. AssembledOnce'
      BY <3>1, <3>3, <3>4 DEF HandlersInv, AssembledOnce, TypeOK
    <3>7. EnoughShares'
      BY <3>3, <3>4 DEF HandlersInv, EnoughShares, Signers
    <3> QED BY <3>3, <3>5, <3>6, <3>7 DEF HandlersInv, HandlersReturn
  <2>5. CASE CommitAncestorByBlockQC(n, g)
    <3>1. UNCHANGED <<pendingBlocksQC, qcCreated, partialSigs>>
      BY <2>5 DEF CommitAncestorByBlockQC, voteVars
    <3>2. \A m \in Nodes : assembling(m)' = assembling(m)
      BY <2>5 DEF CommitAncestorByBlockQC, assembling, Finish, Call, TypeOK
    <3>3. HandlersReturn'
      BY <2>5 DEF CommitAncestorByBlockQC, HandlersInv, HandlersReturn, TypeOK
    <3>4. \A m \in Nodes : \A h \in go'[m] : h.fn = "buildBlockWithQC" => h \in go[m]
      BY <3>2 DEF assembling
    <3> QED BY <3>1, <3>2, <3>3, <3>4
            DEF HandlersInv, HeightsMarked, AssembledOnce, EnoughShares, Signers
  <2>6. CASE tryExtendChain(n, g)
    <3>1. UNCHANGED <<status, qcCreated, partialSigs>>
      BY <2>6 DEF tryExtendChain, voteVars
    <3>2. \A m \in Nodes : /\ assembling(m)' = assembling(m)
                          /\ pendingBlocksQC'[m] \subseteq pendingBlocksQC[m]
      BY <2>6 DEF tryExtendChain, assembling, Finish, Call, chainVars, TypeOK
    <3>3. \A m \in Nodes : \A h \in go'[m] : h.fn = "buildBlockWithQC" => h \in go[m]
      BY <3>2 DEF assembling
    <3> QED BY <3>1, <3>2, <3>3
            DEF HandlersInv, HeightsMarked, AssembledOnce, EnoughShares, HandlersReturn,
                Signers
  <2> QED BY <1>4, <2>1, <2>2, <2>3, <2>4, <2>5, <2>6 DEF Resume
<1>5. CASE UNCHANGED vars
  BY <1>5, HandlersInvFrame DEF vars, voteVars, chainVars, assembling
<1> QED BY <1>1, <1>2, <1>3, <1>4, <1>5 DEF Next

\* handleNewBlockQC never takes its early return, which keeps n.lock, and
\* buildBlockWithQC always has the shares that tbls.Recover demands.
THEOREM NoHandlerFails == Spec => []HandlersReturn
<1>1. HandlersInv => HandlersReturn
  BY DEF HandlersInv
<1> QED BY <1>1, HandlersInvInit, TypeCorrect, HandlersInvNext, PTL DEF Spec
=============================================================================
