--------------------------- MODULE ConsensusProofs ---------------------------
(***************************************************************************)
(* The nodes implement Consensus: every step of Node is, under the mapping *)
(* Abstract, a step of Consensus or no step at all.                        *)
(***************************************************************************)
EXTENDS NodeProofs

-----------------------------------------------------------------------------
(***************************************************************************)
(* What is proposed.                                                       *)
(***************************************************************************)
\* A block that has reached some node, or is on its way, is a proposed one.
LEMMA ProposedMeans ==
    /\ proposedBlocks = UNION {received(n) : n \in Nodes}
    /\ proposedBlocks' = UNION {received(n)' : n \in Nodes}
BY DEF proposedBlocks

\* The loop of a proposer proposes one block on top of the one it selected, or
\* none, also if broadcast reaches no node (Node.ProposeBlockLoop).
LEMMA LoopProposes ==
    ASSUME TypeOK, NEW n \in Nodes, ProposeBlockLoop(n)
    PROVE  \/ proposedBlocks' = proposedBlocks
           \/ \E previous \in selected[n], cmds \in Batches :
                 proposedBlocks' = proposedBlocks \cup {NewBlock(n, previous, cmds)}
<1>1. CASE selectBlock(n) \/ LoseSortition(n)
  BY <1>1 DEF selectBlock, LoseSortition, candidateVars, proposedBlocks, received
<1>2. CASE ProposeBlock(n)
  <2>1. PICK previous \in selected[n], cmds \in Batches, to \in Recipients :
            broadcast([type |-> "proposal", sender |-> n,
                       block |-> NewBlock(n, previous, cmds)], to)
    BY <1>2 DEF ProposeBlock
  <2> DEFINE new == NewBlock(n, previous, cmds)
             msg == [type |-> "proposal", sender |-> n, block |-> new]
  <2>2. UNCHANGED <<pendingBlocks, go>>
    BY <1>2 DEF ProposeBlock, candidateVars
  <2>3. \A p \in Nodes : net'[p] = IF p \in to THEN net[p] \cup {msg} ELSE net[p]
    BY <2>1 DEF broadcast
  <2>4. msg.type = "proposal" /\ msg.block = new
    OBVIOUS
  <2> HIDE DEF new, msg
  <2>5. \A p \in Nodes :
            received(p)' = IF p \in to THEN received(p) \cup {new} ELSE received(p)
    BY <2>2, <2>3, <2>4 DEF received
  <2>6. CASE \E p \in Nodes : p \in to
    <3>1. proposedBlocks' = proposedBlocks \cup {new}
      BY <2>5, <2>6, ProposedMeans
    <3> QED BY <3>1 DEF new
  <2>7. CASE ~\E p \in Nodes : p \in to
    BY <2>5, <2>7, ProposedMeans
  <2> QED BY <2>6, <2>7
<1> QED BY <1>1, <1>2 DEF ProposeBlockLoop

\* Taking a proposal off msgCh leaves it with handleNewBlock
\* (Node.HandleMsgsLoop).
LEMMA MsgsKeepReceived ==
    ASSUME TypeOK, NEW n \in Nodes, HandleMsgsLoop(n)
    PROVE  \A p \in Nodes : received(p)' = received(p)
<1>1. PICK m \in net[n] : handleNewBlockMsg(n, m) \/ handleVoteMsg(n, m)
  BY DEF HandleMsgsLoop
<1>2. UNCHANGED pendingBlocks /\ net' = [net EXCEPT ![n] = @ \ {m}]
  BY <1>1 DEF handleNewBlockMsg, handleVoteMsg, candidateVars
<1>3. \A p \in Nodes : net'[p] = IF p = n THEN net[p] \ {m} ELSE net[p]
  BY <1>2 DEF TypeOK
<1>4. CASE handleNewBlockMsg(n, m)
  <2>1. \A p \in Nodes : go'[p] = IF p = n
            THEN go[p] \cup {Call("handleNewBlock", m.block), Call("BroadcastVote", m.block)}
            ELSE go[p]
    BY <1>4 DEF handleNewBlockMsg, TypeOK
  <2>2. m.type = "proposal"
    BY <1>4 DEF handleNewBlockMsg
  <2>3. ASSUME NEW p \in Nodes PROVE received(p)' = received(p)
    <3>1. CASE p # n
      BY <1>2, <1>3, <2>1, <3>1 DEF received
    <3>2. CASE p = n
      <4>1. {g.block : g \in {x \in go'[p] : x.fn = "handleNewBlock"}}
              = {g.block : g \in {x \in go[p] : x.fn = "handleNewBlock"}} \cup {m.block}
        <5>1. /\ Call("handleNewBlock", m.block).fn = "handleNewBlock"
              /\ Call("handleNewBlock", m.block).block = m.block
              /\ Call("BroadcastVote", m.block).fn # "handleNewBlock"
          BY DEF Call
        <5> QED BY <2>1, <3>2, <5>1
      <4>2. {x.block : x \in {y \in net[p] : y.type = "proposal"}}
              = {x.block : x \in {y \in net'[p] : y.type = "proposal"}} \cup {m.block}
        BY <1>3, <2>2, <3>2
      <4> QED BY <1>2, <4>1, <4>2 DEF received
    <3> QED BY <3>1, <3>2
  <2> QED BY <2>3
<1>5. CASE handleVoteMsg(n, m)
  <2>1. \A p \in Nodes : go'[p] = IF p = n
            THEN go[p] \cup {Call("checkIfQuorumVotes", m.block)} ELSE go[p]
    BY <1>5 DEF handleVoteMsg, TypeOK
  <2>2. m.type = "vote"
    BY <1>5 DEF handleVoteMsg
  <2>3. ASSUME NEW p \in Nodes PROVE received(p)' = received(p)
    <3>1. {x \in net'[p] : x.type = "proposal"} = {x \in net[p] : x.type = "proposal"}
      BY <1>3, <2>2
    <3>2. {x \in go'[p] : x.fn = "handleNewBlock"} = {x \in go[p] : x.fn = "handleNewBlock"}
      <4>1. Call("checkIfQuorumVotes", m.block).fn # "handleNewBlock"
        BY DEF Call
      <4> QED BY <2>1, <4>1
    <3> QED BY <1>2, <3>1, <3>2 DEF received
  <2> QED BY <2>3
<1> QED BY <1>1, <1>4, <1>5

\* A goroutine neither proposes nor loses a block: handleNewBlock stores its own
\* (Node.handleNewBlock).
LEMMA HandlersKeepReceived ==
    ASSUME TypeOK, NEW n \in Nodes, NEW g \in go[n], Resume(n, g)
    PROVE  \A p \in Nodes : received(p)' = received(p)
<1>1. CASE handleNewBlock(n, g)
  <2>1. UNCHANGED net /\ g.fn = "handleNewBlock"
    BY <1>1 DEF handleNewBlock
  <2>2. \A p \in Nodes :
          /\ pendingBlocks'[p] = IF p = n THEN pendingBlocks[p] \cup {g.block}
                                          ELSE pendingBlocks[p]
          /\ go'[p] = IF p = n
                      THEN (go[p] \ {g}) \cup {Call("tryUpdateCandidateChain", g.block),
                                               Call("checkIfQuorumVotes", g.block)}
                      ELSE go[p]
    BY <1>1 DEF handleNewBlock, Finish, TypeOK
  <2>3. ASSUME NEW p \in Nodes PROVE received(p)' = received(p)
    <3>1. CASE p # n
      BY <2>1, <2>2, <3>1 DEF received
    <3>2. CASE p = n
      <4>1. {x \in go[p] : x.fn = "handleNewBlock"}
              = {x \in go'[p] : x.fn = "handleNewBlock"} \cup {g}
        <5>1. /\ Call("tryUpdateCandidateChain", g.block).fn # "handleNewBlock"
              /\ Call("checkIfQuorumVotes", g.block).fn # "handleNewBlock"
          BY DEF Call
        <5> QED BY <2>1, <2>2, <3>2, <5>1
      <4>2. {x.block : x \in {y \in go[p] : y.fn = "handleNewBlock"}}
              = {x.block : x \in {y \in go'[p] : y.fn = "handleNewBlock"}} \cup {g.block}
        BY <4>1
      <4> QED BY <2>1, <2>2, <3>2, <4>2 DEF received
    <3> QED BY <3>1, <3>2
  <2> QED BY <2>3
<1>2. CASE ~handleNewBlock(n, g)
  <2>1. UNCHANGED pendingBlocks /\ g.fn # "handleNewBlock"
    BY <1>2 DEF Resume, BroadcastVote, castVote, tryUpdateCandidateChain, tryExtendCandidateChain,
          checkIfQuorumVotes, buildBlockWithQC, handleNewBlockQC, CommitAncestorByBlockQC,
          tryExtendChain, candidateVars
  <2>2. \A p \in Nodes : {x \in net'[p] : x.type = "proposal"}
                            = {x \in net[p] : x.type = "proposal"}
    <3>1. CASE UNCHANGED net
      BY <3>1
    <3>2. CASE ~UNCHANGED net
      <4> DEFINE vote == [type |-> "vote", sender |-> n, block |-> g.block]
      <4>1. \E to \in Recipients : broadcast(vote, to)
        BY <1>2, <3>2 DEF Resume, BroadcastVote, castVote, tryUpdateCandidateChain,
              tryExtendCandidateChain, checkIfQuorumVotes, buildBlockWithQC,
              handleNewBlockQC, CommitAncestorByBlockQC, tryExtendChain
      <4>2. vote.type # "proposal"
        OBVIOUS
      <4> HIDE DEF vote
      <4> QED BY <4>1, <4>2 DEF broadcast
    <3> QED BY <3>1, <3>2
  <2>3. \A p \in Nodes : {x \in go'[p] : x.fn = "handleNewBlock"}
                            = {x \in go[p] : x.fn = "handleNewBlock"}
    BY <1>2, <2>1, OthersWait, ResumeSpawns
  <2> QED BY <2>1, <2>2, <2>3 DEF received
<1> QED BY <1>1, <1>2

\* Only a loop proposes.
LEMMA OthersKeepProposed ==
    /\ TypeOK => \A n \in Nodes : HandleMsgsLoop(n) => proposedBlocks' = proposedBlocks
    /\ TypeOK => \A n \in Nodes : \A g \in go[n] :
                    Resume(n, g) => proposedBlocks' = proposedBlocks
    /\ \A n \in Nodes : Crash(n) => proposedBlocks' = proposedBlocks
    /\ UNCHANGED vars => proposedBlocks' = proposedBlocks
<1>1. ASSUME \A p \in Nodes : received(p)' = received(p)
      PROVE  proposedBlocks' = proposedBlocks
  BY <1>1, ProposedMeans
<1>2. ASSUME NEW n \in Nodes, Crash(n) PROVE proposedBlocks' = proposedBlocks
  BY <1>2 DEF Crash, candidateVars, proposedBlocks, received
<1>3. UNCHANGED vars => proposedBlocks' = proposedBlocks
  BY DEF vars, candidateVars, proposedBlocks, received
<1> QED BY <1>1, <1>2, <1>3, MsgsKeepReceived, HandlersKeepReceived

\* What is proposed stays proposed.
LEMMA ProposedGrows ==
    ASSUME TypeOK, [Next]_vars
    PROVE  proposedBlocks \subseteq proposedBlocks'
BY OthersKeepProposed, LoopProposes DEF Next

-----------------------------------------------------------------------------
(***************************************************************************)
(* What is behind the votes, the marks and the QCs of the nodes.           *)
(***************************************************************************)
\* A proposer builds on a proposed block.
SelectedProposed ==
    \A n \in Nodes : selected[n] \subseteq proposedBlocks \cup {Genesis}

\* A node votes, and has voted, for proposed blocks.
VotesProposed ==
    \A n \in Nodes :
        /\ voted[n] \subseteq proposedBlocks
        /\ \A g \in go[n] : g.fn \in {"BroadcastVote", "castVote"} => g.block \in proposedBlocks

\* A height is marked in qcCreated for a block with a quorum.
MarkedForQuorum ==
    \A n \in Nodes : \A h \in qcCreated[n] :
        \E b \in proposedBlocks : Height(b) = h /\ Cardinality(voters(b)) >= quorumNum

\* What a node has a QC for is decided.
CertifiedDecided ==
    \A n \in Nodes : certified(n) \subseteq decidedBlocks \cup {Genesis}

ConsensusInv == SelectedProposed /\ VotesProposed /\ MarkedForQuorum /\ CertifiedDecided

\* Nothing is proposed at first (NewNode).
LEMMA ProposedInit == Init => proposedBlocks = {}
<1> SUFFICES ASSUME Init PROVE \A n \in Nodes : received(n) = {}
  BY ProposedMeans
<1> QED BY DEF Init, received

LEMMA ConsensusInvInit == Init => ConsensusInv
<1> SUFFICES ASSUME Init PROVE ConsensusInv
  OBVIOUS
<1>1. \A n \in Nodes : certified(n) = {Genesis}
  BY DEF Init, certified
<1> QED BY <1>1 DEF Init, ConsensusInv, SelectedProposed, VotesProposed, MarkedForQuorum,
                    CertifiedDecided

\* A mark stays in qcCreated (Node.checkIfQuorumVotes).
LEMMA MarksGrow ==
    ASSUME TypeOK, [Next]_vars
    PROVE  \A n \in Nodes : qcCreated[n] \subseteq qcCreated'[n]
<1>1. ASSUME NEW n \in Nodes, ProposeBlockLoop(n) \/ HandleMsgsLoop(n) \/ Crash(n)
      PROVE  UNCHANGED qcCreated
  BY <1>1 DEF ProposeBlockLoop, selectBlock, ProposeBlock, LoseSortition, HandleMsgsLoop,
        handleNewBlockMsg, handleVoteMsg, Crash, voteVars
<1>2. ASSUME NEW n \in Nodes, NEW g \in go[n], Resume(n, g)
      PROVE  \A m \in Nodes : qcCreated[m] \subseteq qcCreated'[m]
  <2>1. CASE checkIfQuorumVotes(n, g)
    BY <2>1 DEF checkIfQuorumVotes, TypeOK
  <2>2. CASE ~checkIfQuorumVotes(n, g)
    BY <1>2, <2>2 DEF Resume, handleNewBlock, BroadcastVote, castVote, tryUpdateCandidateChain,
          tryExtendCandidateChain, buildBlockWithQC, handleNewBlockQC,
          CommitAncestorByBlockQC, tryExtendChain, voteVars
  <2> QED BY <2>1, <2>2
<1>3. CASE UNCHANGED vars
  BY <1>3 DEF vars, voteVars
<1> QED BY <1>1, <1>2, <1>3 DEF Next

\* What is decided stays decided.
LEMMA DecidedGrows ==
    ASSUME TypeOK, [Next]_vars
    PROVE  decidedBlocks \subseteq decidedBlocks'
<1> SUFFICES ASSUME NEW b \in decidedBlocks PROVE b \in decidedBlocks'
  OBVIOUS
<1>1. b \in proposedBlocks'
  BY ProposedGrows DEF decidedBlocks
<1>2. Cardinality(voters(b)') >= quorumNum
  BY VotersGrow DEF decidedBlocks
<1>3. \E n \in Nodes : Height(b) \in qcCreated'[n]
  BY MarksGrow DEF decidedBlocks
<1> QED BY <1>1, <1>2, <1>3 DEF decidedBlocks

\* The candidates are proposed (Node.candidateBlocks).
LEMMA CandidatesProposed ==
    ASSUME NEW n \in Nodes, NEW h
    PROVE  candidateBlocks(n, h) \subseteq proposedBlocks \cup {Genesis}
<1>1. pendingBlocks[n] \subseteq received(n)
  BY DEF received
<1>2. pendingBlocks[n] \subseteq proposedBlocks
  BY <1>1, ProposedMeans
<1> QED BY <1>2 DEF candidateBlocks, AtHeight

\* Every step keeps the proposers and the voters with what is proposed.
LEMMA SelectedProposedNext ==
    ASSUME TypeOK, SelectedProposed, [Next]_vars
    PROVE  SelectedProposed'
<1>1. \A m \in Nodes : selected'[m] \subseteq selected[m] \cup proposedBlocks \cup {Genesis}
  <2>1. ASSUME NEW n \in Nodes, selectBlock(n)
        PROVE  \A m \in Nodes :
                  selected'[m] \subseteq selected[m] \cup proposedBlocks \cup {Genesis}
    BY <2>1, CandidatesProposed DEF selectBlock, TypeOK
  <2>2. ASSUME NEW n \in Nodes, ProposeBlock(n) \/ LoseSortition(n)
        PROVE  \A m \in Nodes : selected'[m] \subseteq selected[m]
    BY <2>2 DEF ProposeBlock, LoseSortition, TypeOK
  <2>3. ASSUME NEW n \in Nodes, HandleMsgsLoop(n) \/ Crash(n) \/ \E g \in go[n] : Resume(n, g)
        PROVE  UNCHANGED selected
    BY <2>3 DEF HandleMsgsLoop, handleNewBlockMsg, handleVoteMsg, Crash, Resume,
          handleNewBlock, BroadcastVote, castVote, tryUpdateCandidateChain, tryExtendCandidateChain,
          checkIfQuorumVotes, buildBlockWithQC, handleNewBlockQC, CommitAncestorByBlockQC,
          tryExtendChain, loopVars
  <2>4. UNCHANGED vars => UNCHANGED selected
    BY DEF vars, loopVars
  <2> QED BY <2>1, <2>2, <2>3, <2>4 DEF Next, ProposeBlockLoop
<1> QED BY <1>1, ProposedGrows DEF SelectedProposed

\* Every step keeps the votes with what is proposed.
LEMMA VotesProposedNext ==
    ASSUME TypeOK, VotesProposed, [Next]_vars
    PROVE  VotesProposed'
<1>1. proposedBlocks \subseteq proposedBlocks'
  BY ProposedGrows
<1>2. ASSUME UNCHANGED voted,
             \A m \in Nodes : \A h \in go'[m] :
                h.fn \in {"BroadcastVote", "castVote"} => h \in go[m]
      PROVE  VotesProposed'
  BY <1>1, <1>2 DEF VotesProposed
<1>3. ASSUME NEW n \in Nodes, ProposeBlockLoop(n) \/ Crash(n)
      PROVE  VotesProposed'
  <2>1. UNCHANGED <<voted, go>>
    BY <1>3 DEF ProposeBlockLoop, selectBlock, ProposeBlock, LoseSortition, Crash, voteVars
  <2> QED BY <1>2, <2>1
<1>4. ASSUME NEW n \in Nodes, HandleMsgsLoop(n)
      PROVE  VotesProposed'
  <2>1. PICK x \in net[n] : handleNewBlockMsg(n, x) \/ handleVoteMsg(n, x)
    BY <1>4 DEF HandleMsgsLoop
  <2>2. UNCHANGED voted
    BY <2>1 DEF handleNewBlockMsg, handleVoteMsg, voteVars
  <2>3. CASE handleNewBlockMsg(n, x)
    <3>1. x.block \in received(n)
      BY <2>3 DEF handleNewBlockMsg, received
    <3>2. x.block \in proposedBlocks
      BY <3>1, ProposedMeans
    <3>3. \A m \in Nodes : \A h \in go'[m] : h.fn \in {"BroadcastVote", "castVote"} =>
              h \in go[m] \/ h.block = x.block
      BY <2>3 DEF handleNewBlockMsg, Call, TypeOK
    <3> QED BY <1>1, <2>2, <3>2, <3>3 DEF VotesProposed
  <2>4. CASE handleVoteMsg(n, x)
    <3>1. \A m \in Nodes : \A h \in go'[m] :
              h.fn \in {"BroadcastVote", "castVote"} => h \in go[m]
      BY <2>4 DEF handleVoteMsg, Call, TypeOK
    <3> QED BY <1>2, <2>2, <3>1
  <2> QED BY <2>1, <2>3, <2>4
<1>5. ASSUME NEW n \in Nodes, NEW g \in go[n], Resume(n, g)
      PROVE  VotesProposed'
  <2>1. CASE BroadcastVote(n, g)
    <3>1. UNCHANGED voted /\ g.block \in proposedBlocks
      BY <2>1 DEF BroadcastVote, VotesProposed, voteVars
    <3>2. \A m \in Nodes : \A h \in go'[m] : h \in go[m] \/ h.block = g.block
      BY <2>1 DEF BroadcastVote, Finish, Call, TypeOK
    <3> QED BY <1>1, <3>1, <3>2 DEF VotesProposed
  <2>2. CASE castVote(n, g)
    <3>1. g.block \in proposedBlocks
      BY <2>2 DEF castVote, VotesProposed
    <3>2. \A m \in Nodes : voted'[m] \subseteq voted[m] \cup {g.block}
      BY <2>2 DEF castVote, TypeOK
    <3>3. \A m \in Nodes : go'[m] \subseteq go[m]
      BY <2>2 DEF castVote, Finish, TypeOK
    <3> QED BY <1>1, <3>1, <3>2, <3>3 DEF VotesProposed
  <2>3. CASE ~BroadcastVote(n, g) /\ ~castVote(n, g)
    <3>1. UNCHANGED voted
      BY <1>5, <2>3 DEF Resume, handleNewBlock, tryUpdateCandidateChain,
            tryExtendCandidateChain, checkIfQuorumVotes, buildBlockWithQC,
            handleNewBlockQC, CommitAncestorByBlockQC, tryExtendChain, voteVars
    <3>2. \A m \in Nodes : \A h \in go'[m] :
              h.fn \in {"BroadcastVote", "castVote"} => h \in go[m]
      BY <1>5, <2>3 DEF Resume, handleNewBlock, tryUpdateCandidateChain,
            tryExtendCandidateChain, checkIfQuorumVotes, buildBlockWithQC,
            handleNewBlockQC, CommitAncestorByBlockQC, tryExtendChain, Finish, Call, TypeOK
    <3> QED BY <1>2, <3>1, <3>2
  <2> QED BY <2>1, <2>2, <2>3
<1>6. CASE UNCHANGED vars
  BY <1>2, <1>6 DEF vars, voteVars
<1> QED BY <1>3, <1>4, <1>5, <1>6 DEF Next

\* A mark is set, and a QC begins, in checkIfQuorumVotes only, where the votes
\* are counted.
LEMMA DecisionsNext ==
    ASSUME TypeOK, QCInv, ConsensusInv, [Next]_vars
    PROVE  MarkedForQuorum' /\ CertifiedDecided'
<1>1. proposedBlocks \subseteq proposedBlocks'
  BY ProposedGrows
<1>2. ASSUME NEW n \in Nodes, NEW h \in qcCreated[n]
      PROVE  \E b \in proposedBlocks' : Height(b) = h /\ Cardinality(voters(b)') >= quorumNum
  BY <1>1, VotersGrow DEF ConsensusInv, MarkedForQuorum
<1>3. ASSUME NEW n \in Nodes, ProposeBlockLoop(n) \/ HandleMsgsLoop(n) \/ Crash(n)
      PROVE  /\ UNCHANGED qcCreated
             /\ \A m \in Nodes : certified(m)' \subseteq certified(m)
  <2>1. UNCHANGED <<qcCreated, chain, pendingBlocksQC>>
    BY <1>3 DEF ProposeBlockLoop, selectBlock, ProposeBlock, LoseSortition,
          HandleMsgsLoop, handleNewBlockMsg, handleVoteMsg, Crash, voteVars, chainVars
  <2>2. \A m \in Nodes : certified(m)' \subseteq certified(m)
    BY <1>3, <2>1 DEF ProposeBlockLoop, selectBlock, ProposeBlock, LoseSortition,
          HandleMsgsLoop, handleNewBlockMsg, handleVoteMsg, Crash, certified,
          Call, TypeOK
  <2> QED BY <2>1, <2>2
<1>4. ASSUME UNCHANGED qcCreated, \A m \in Nodes : certified(m)' \subseteq certified(m)
      PROVE  MarkedForQuorum' /\ CertifiedDecided'
  BY <1>2, <1>4, DecidedGrows DEF ConsensusInv, MarkedForQuorum, CertifiedDecided
<1>5. ASSUME NEW n \in Nodes, NEW g \in go[n], Resume(n, g)
      PROVE  MarkedForQuorum' /\ CertifiedDecided'
  <2>1. ASSUME HasNewQuorum(n, g.block)
        PROVE  g.block \in proposedBlocks' /\ Cardinality(voters(g.block)') >= quorumNum
    <3>1. g.block \in received(n)
      BY <2>1 DEF HasNewQuorum, received
    <3>2. Cardinality(voters(g.block)) >= quorumNum
      BY <2>1, SignersVoted DEF HasNewQuorum, QCInv
    <3> QED BY <1>1, <3>1, <3>2, VotersGrow, ProposedMeans
  <2>2. CASE checkIfQuorumVotes(n, g) /\ HasNewQuorum(n, g.block)
    <3>1. qcCreated' = [qcCreated EXCEPT ![n] = @ \cup {Height(g.block)}]
      BY <2>2 DEF checkIfQuorumVotes
    <3>2. MarkedForQuorum'
      BY <1>2, <2>1, <2>2, <3>1 DEF MarkedForQuorum, TypeOK
    <3>3. g.block \in decidedBlocks'
      BY <2>1, <2>2, <3>1 DEF decidedBlocks, TypeOK
    <3>4. \A m \in Nodes : certified(m)' \subseteq certified(m) \cup {g.block}
      BY <1>5, CertifiedFrom
    <3> QED BY <3>2, <3>3, <3>4, DecidedGrows DEF ConsensusInv, CertifiedDecided
  <2>3. CASE ~(checkIfQuorumVotes(n, g) /\ HasNewQuorum(n, g.block))
    <3>1. UNCHANGED qcCreated
      BY <1>5, <2>3 DEF Resume, handleNewBlock, BroadcastVote, castVote, tryUpdateCandidateChain,
            tryExtendCandidateChain, checkIfQuorumVotes, buildBlockWithQC,
            handleNewBlockQC, CommitAncestorByBlockQC, tryExtendChain, voteVars
    <3>2. \A m \in Nodes : certified(m)' \subseteq certified(m)
      BY <1>5, <2>3, CertifiedFrom
    <3> QED BY <1>4, <3>1, <3>2
  <2> QED BY <2>2, <2>3
<1>6. CASE UNCHANGED vars
  BY <1>4, <1>6 DEF vars, voteVars, chainVars, certified
<1> QED BY <1>3, <1>4, <1>5, <1>6 DEF Next

\* The invariant holds in every reachable state.
LEMMA ConsensusInvInvariant == Spec => []ConsensusInv
<1>1. TypeOK /\ QCInv /\ ConsensusInv /\ [Next]_vars => ConsensusInv'
  BY SelectedProposedNext, VotesProposedNext, DecisionsNext DEF ConsensusInv
<1> QED BY <1>1, ConsensusInvInit, TypeCorrect, QCInvInvariant, PTL DEF Spec

-----------------------------------------------------------------------------
(***************************************************************************)
(* The refinement, handler by handler.                                     *)
(***************************************************************************)
\* The blocks in the chain of n.
chainBlocks(n) == {e.block : e \in chain[n]}

\* Consensus speaks of the same blocks and of the same quorums.
LEMMA SameBlocks ==
    /\ Abstract!Genesis = Genesis
    /\ Abstract!quorumNum = quorumNum
    /\ \A p, b, c : Abstract!NewBlock(p, b, c) = NewBlock(p, b, c)
    /\ \A b : Abstract!Height(b) = Height(b)
    /\ \A b, i : Abstract!Ancestor(b, i) = Ancestor(b, i)
    /\ \A S, h : Abstract!AtHeight(S, h) = AtHeight(S, h)
    /\ \A S : Abstract!Cardinality(S) = Cardinality(S)
<1>1. Abstract!Genesis = Genesis
  BY DEF Genesis, Abstract!Genesis
<1>2. \A S : Abstract!Cardinality(S) = Cardinality(S)
  BY DEF Cardinality, Abstract!Cardinality
<1>3. Abstract!quorumNum = quorumNum
  BY <1>2 DEF quorumNum, QuorumOf, Abstract!quorumNum, Abstract!QuorumOf
<1>4. \A p, b, c : Abstract!NewBlock(p, b, c) = NewBlock(p, b, c)
  BY DEF NewBlock, Abstract!NewBlock
<1>5. \A b : Abstract!Height(b) = Height(b)
  BY DEF Height, Abstract!Height
<1>6. \A b, i : Abstract!Ancestor(b, i) = Ancestor(b, i)
  BY DEF Ancestor, Abstract!Ancestor
<1>7. \A S, h : Abstract!AtHeight(S, h) = AtHeight(S, h)
  BY <1>5 DEF AtHeight, Abstract!AtHeight
<1> QED BY <1>1, <1>2, <1>3, <1>4, <1>5, <1>6, <1>7

\* The initial state of the nodes is one of Consensus (NewNode).
LEMMA AbstractInit == Init => Abstract!Init
<1> SUFFICES ASSUME Init PROVE Abstract!Init
  OBVIOUS
<1>1. proposedBlocks = {} /\ decidedBlocks = {}
  BY ProposedInit DEF decidedBlocks
<1>2. \A n \in Nodes : {e.block : e \in chain[n]} = {Genesis}
  BY DEF Init
<1> QED BY <1>1, <1>2, SameBlocks DEF Init, Abstract!Init

\* A step that proposes nothing, sets no mark and casts no vote decides nothing.
LEMMA DecidedKept ==
    ASSUME proposedBlocks' = proposedBlocks, UNCHANGED <<voted, qcCreated>>
    PROVE  decidedBlocks' = decidedBlocks
BY DEF decidedBlocks, voters

\* ProposeBlock is Propose, or nothing if no node is reached; nobody has voted
\* for the new block yet.
LEMMA LoopRefines ==
    ASSUME TypeOK, ConsensusInv, NEW n \in Nodes, ProposeBlockLoop(n)
    PROVE  \/ Abstract!Propose(n)
           \/ UNCHANGED <<proposedBlocks, voted, decidedBlocks, chain>>
<1>1. UNCHANGED <<voted, qcCreated, chain>>
  BY DEF ProposeBlockLoop, selectBlock, ProposeBlock, LoseSortition, voteVars, chainVars
<1>2. CASE proposedBlocks' = proposedBlocks
  BY <1>1, <1>2, DecidedKept
<1>3. CASE proposedBlocks' # proposedBlocks
  <2>1. PICK previous \in selected[n], cmds \in Batches :
            proposedBlocks' = proposedBlocks \cup {NewBlock(n, previous, cmds)}
    BY <1>3, LoopProposes
  <2> DEFINE new == NewBlock(n, previous, cmds)
  <2>2. previous \in proposedBlocks \cup {Genesis}
    BY DEF ConsensusInv, SelectedProposed
  <2>3. voters(new) = {}
    BY <1>3, <2>1 DEF ConsensusInv, VotesProposed, voters
  <2>4. ~(Cardinality(voters(new)) >= quorumNum)
    BY <2>3, FS_EmptySet, QuorumIsThreshold, NodesFinite
  <2> HIDE DEF new
  <2>5. decidedBlocks' = decidedBlocks
    BY <1>1, <2>1, <2>4 DEF decidedBlocks, voters, new
  <2> QED BY <1>1, <2>1, <2>2, <2>5, SameBlocks DEF Abstract!Propose
<1> QED BY <1>2, <1>3

\* castVote is CastVote, or nothing if n has voted for the height: where a
\* height is marked already, there is a quorum for another block, or for this
\* one without the new vote, so that the vote decides nothing.
LEMMA VoteRefines ==
    ASSUME TypeOK, QCInv, ConsensusInv, [Next]_vars,
           NEW n \in Nodes, NEW g \in go[n], Resume(n, g), castVote(n, g)
    PROVE  \/ Abstract!CastVote(n)
           \/ UNCHANGED <<proposedBlocks, voted, decidedBlocks, chain>>
<1>1. UNCHANGED <<qcCreated, chain>> /\ proposedBlocks' = proposedBlocks
  BY OthersKeepProposed DEF castVote, chainVars
<1>2. CASE HasVoted(n, g.block)
  BY <1>1, <1>2, DecidedKept DEF castVote
<1>3. CASE ~HasVoted(n, g.block)
  <2>1. voted' = [voted EXCEPT ![n] = @ \cup {g.block}]
    BY <1>3 DEF castVote
  <2>2. g.block \in proposedBlocks /\ AtHeight(voted[n], Height(g.block)) = {}
    BY <1>3 DEF ConsensusInv, VotesProposed, castVote, HasVoted
  <2>3. VoteInv'
    BY VoteInvNext DEF QCInv
  <2>4. ASSUME NEW b \in decidedBlocks' PROVE b \in decidedBlocks
    <3>1. PICK m \in Nodes : Height(b) \in qcCreated[m]
      BY <1>1 DEF decidedBlocks
    <3>2. PICK c \in proposedBlocks :
             Height(c) = Height(b) /\ Cardinality(voters(c)) >= quorumNum
      BY <3>1 DEF ConsensusInv, MarkedForQuorum
    <3>3. Cardinality(voters(c)') >= quorumNum /\ Cardinality(voters(b)') >= quorumNum
      BY <3>2, VotersGrow DEF decidedBlocks
    <3>4. b = c
      BY <2>3, <3>2, <3>3, QuorumsAgree DEF VoteInv, VotedOnce, voters
    <3> QED BY <1>1, <3>1, <3>2, <3>4 DEF decidedBlocks
  <2>5. decidedBlocks' = decidedBlocks
    BY <2>4, DecidedGrows
  <2> QED BY <1>1, <2>1, <2>2, <2>5, SameBlocks DEF Abstract!CastVote
<1> QED BY <1>2, <1>3

\* checkIfQuorumVotes is Decide, or nothing if it finds no new quorum: the block
\* it counts the votes of is the only one at its height with a quorum.
LEMMA CheckRefines ==
    ASSUME TypeOK, QCInv, ConsensusInv, [Next]_vars,
           NEW n \in Nodes, NEW g \in go[n], Resume(n, g), checkIfQuorumVotes(n, g)
    PROVE  \/ Abstract!Decide
           \/ UNCHANGED <<proposedBlocks, voted, decidedBlocks, chain>>
<1>1. UNCHANGED <<voted, chain>> /\ proposedBlocks' = proposedBlocks
  BY OthersKeepProposed DEF checkIfQuorumVotes, chainVars
<1>2. CASE ~HasNewQuorum(n, g.block)
  BY <1>1, <1>2, DecidedKept DEF checkIfQuorumVotes
<1>3. CASE HasNewQuorum(n, g.block)
  <2>1. qcCreated' = [qcCreated EXCEPT ![n] = @ \cup {Height(g.block)}]
    BY <1>3 DEF checkIfQuorumVotes
  <2>2. Cardinality(voters(g.block)) >= quorumNum
    BY <1>3, SignersVoted DEF HasNewQuorum, QCInv
  <2>3. g.block \in proposedBlocks
    <3>1. g.block \in received(n)
      BY <1>3 DEF HasNewQuorum, received
    <3> QED BY <3>1, ProposedMeans
  <2>4. g.block \in decidedBlocks'
    BY <1>1, <2>1, <2>2, <2>3 DEF decidedBlocks, voters, TypeOK
  <2>5. ASSUME NEW b \in decidedBlocks', b \notin decidedBlocks PROVE b = g.block
    <3>1. Cardinality(voters(b)) >= quorumNum /\ b \in proposedBlocks
      BY <1>1, <2>5 DEF decidedBlocks, voters
    <3>2. Height(b) = Height(g.block)
      BY <2>1, <2>5, <3>1 DEF decidedBlocks, TypeOK
    <3> QED BY <2>2, <3>1, <3>2, QuorumsAgree DEF QCInv, VoteInv, VotedOnce, voters
  <2>6. decidedBlocks' = decidedBlocks \cup {g.block}
    BY <2>4, <2>5, DecidedGrows
  <2> QED BY <1>1, <2>2, <2>3, <2>6, SameBlocks DEF Abstract!Decide, voters
<1> QED BY <1>2, <1>3

\* What is in chain.blocks after a write.
LEMMA WrittenBlocks ==
    ASSUME NEW n \in Nodes, NEW entries
    PROVE  {e.block : e \in Written(n, entries)}
              = {e.block : e \in entries}
                \cup {c \in chainBlocks(n) : \A x \in entries : Height(x.block) # Height(c)}
BY DEF Written, chainBlocks

\* What Consensus calls a commit.
LEMMA CommitMeans ==
    ASSUME NEW n \in Nodes, NEW b \in decidedBlocks,
           NEW low \in 1..Height(b), NEW high \in 1..Height(b),
           UNCHANGED <<proposedBlocks, voted, decidedBlocks>>,
           chainBlocks(n)' = {Ancestor(b, i) : i \in low..high}
                             \cup {c \in chainBlocks(n) : Height(c) \notin low..high},
           \A m \in Nodes \ {n} : chainBlocks(m)' = chainBlocks(m)
    PROVE  Abstract!Commit(n)
<1> DEFINE old == [m \in Nodes |-> {e.block : e \in chain[m]}]
           new == {Abstract!Ancestor(b, i) : i \in low..high}
                  \cup {c \in old[n] : Abstract!Height(c) \notin low..high}
<1>1. \A m \in Nodes : old[m] = chainBlocks(m) /\ old'[m] = chainBlocks(m)'
  BY DEF chainBlocks
<1>2. new = chainBlocks(n)'
  <2>1. {Abstract!Ancestor(b, i) : i \in low..high} = {Ancestor(b, i) : i \in low..high}
    BY SameBlocks
  <2>2. {c \in old[n] : Abstract!Height(c) \notin low..high}
           = {c \in chainBlocks(n) : Height(c) \notin low..high}
    BY <1>1, SameBlocks
  <2> QED BY <2>1, <2>2
<1> HIDE DEF new
<1>3. old' = [old EXCEPT ![n] = new]
  <2>1. \A m \in Nodes : old'[m] = [old EXCEPT ![n] = new][m]
    BY <1>1, <1>2
  <2>2. old' = [m \in Nodes |-> old'[m]]
    OBVIOUS
  <2>3. [old EXCEPT ![n] = new] = [m \in Nodes |-> [old EXCEPT ![n] = new][m]]
    OBVIOUS
  <2> HIDE DEF old
  <2> QED BY <2>1, <2>2, <2>3
<1>4. low \in 1..Abstract!Height(b) /\ high \in 1..Abstract!Height(b)
  BY SameBlocks
<1>5. old' = [old EXCEPT ![n] = {Abstract!Ancestor(b, i) : i \in low..high}
                                 \cup {c \in @ : Abstract!Height(c) \notin low..high}]
  <2> HIDE DEF old
  <2> QED BY <1>3 DEF new
<1>6. \E d \in decidedBlocks : \E l, h \in 1..Abstract!Height(d) :
         old' = [old EXCEPT ![n] = {Abstract!Ancestor(d, i) : i \in l..h}
                                   \cup {c \in @ : Abstract!Height(c) \notin l..h}]
  <2> HIDE DEF old
  <2> QED BY <1>4, <1>5
<1> QED BY <1>6 DEF Abstract!Commit

\* CommitAncestorByBlockQC is Commit of the ancestors of a decided block above
\* chain.height, or nothing if there is none.
LEMMA CommitRefines ==
    ASSUME TypeOK, ConsensusInv,
           NEW n \in Nodes, NEW g \in go[n], Resume(n, g), CommitAncestorByBlockQC(n, g)
    PROVE  \/ Abstract!Commit(n)
           \/ UNCHANGED <<proposedBlocks, voted, decidedBlocks, chain>>
<1> DEFINE b == g.block
           low == chainHeight[n] + 1
           high == Height(b) - 1
           committed == {[block |-> Ancestor(b, i), qc |-> b] : i \in low .. high}
<1>1. UNCHANGED <<voted, qcCreated>> /\ proposedBlocks' = proposedBlocks
  BY OthersKeepProposed DEF CommitAncestorByBlockQC, voteVars
<1>2. decidedBlocks' = decidedBlocks
  BY <1>1, DecidedKept
<1>3. CASE UNCHANGED chain
  BY <1>1, <1>2, <1>3
<1>4. CASE ~UNCHANGED chain
  <2>1. chain' = [chain EXCEPT ![n] = Written(n, committed)]
    BY <1>4 DEF CommitAncestorByBlockQC
  <2>2. low \in Nat /\ low >= 1 /\ Height(b) \in Nat /\ b \in Block
    BY BlockProperties DEF TypeOK, Goroutine
  <2>3. CASE low > high
    <3>1. committed = {}
      BY <2>2, <2>3
    <3>2. Written(n, committed) = chain[n]
      BY <3>1 DEF Written
    <3> QED BY <1>4, <2>1, <3>2 DEF TypeOK
  <2>4. CASE low <= high
    <3>1. low \in 1..Height(b) /\ high \in 1..Height(b)
      BY <2>2, <2>4
    <3>2. b # Genesis
      BY <2>2, <2>4, EmptySeq DEF Genesis, Height
    <3>3. b \in decidedBlocks
      BY <3>2 DEF CommitAncestorByBlockQC, certified, ConsensusInv, CertifiedDecided
    <3>4. \A i \in low..high : Height(Ancestor(b, i)) = i
      BY <2>2, AncestorProperties
    <3> DEFINE entry(i) == [block |-> Ancestor(b, i), qc |-> b]
    <3>5. /\ committed = {entry(i) : i \in low..high}
          /\ \A i : entry(i).block = Ancestor(b, i)
      OBVIOUS
    <3> HIDE DEF b, low, high, entry, committed
    <3>6. {e.block : e \in committed} = {Ancestor(b, i) : i \in low..high}
      BY <3>5
    <3>7. {c \in chainBlocks(n) : \A x \in committed : Height(x.block) # Height(c)}
             = {c \in chainBlocks(n) : Height(c) \notin low..high}
      BY <3>4, <3>5
    <3>8. {e.block : e \in Written(n, committed)}
             = {Ancestor(b, i) : i \in low..high}
               \cup {c \in chainBlocks(n) : Height(c) \notin low..high}
      <4>1. {e.block : e \in Written(n, committed)}
             = {e.block : e \in committed}
               \cup {c \in chainBlocks(n) : \A x \in committed : Height(x.block) # Height(c)}
        BY WrittenBlocks
      <4> QED BY <3>6, <3>7, <4>1
    <3>9. chainBlocks(n)' = {e.block : e \in Written(n, committed)}
      BY <2>1 DEF chainBlocks, TypeOK
    <3>10. \A m \in Nodes \ {n} : chainBlocks(m)' = chainBlocks(m)
      BY <2>1 DEF chainBlocks, TypeOK
    <3> QED BY <1>1, <1>2, <3>1, <3>3, <3>8, <3>9, <3>10, CommitMeans
  <2> QED BY <2>2, <2>3, <2>4
<1> QED BY <1>3, <1>4

\* tryExtendChain is Commit of the one block that is certified at the height
\* above chain.height, or nothing if there is none.
LEMMA ExtendRefines ==
    ASSUME TypeOK, QCUnique, ConsensusInv,
           NEW n \in Nodes, NEW g \in go[n], Resume(n, g), tryExtendChain(n, g)
    PROVE  \/ Abstract!Commit(n)
           \/ UNCHANGED <<proposedBlocks, voted, decidedBlocks, chain>>
<1> DEFINE next == AtHeight(pendingBlocksQC[n], chainHeight[n] + 1)
<1>1. UNCHANGED <<voted, qcCreated>> /\ proposedBlocks' = proposedBlocks
  BY OthersKeepProposed DEF tryExtendChain, voteVars
<1>2. decidedBlocks' = decidedBlocks
  BY <1>1, DecidedKept
<1>3. CASE next = {}
  BY <1>1, <1>2, <1>3 DEF tryExtendChain, chainVars
<1>4. CASE next # {}
  <2>1. PICK b \in next : TRUE
    BY <1>4
  <2>2. b \in pendingBlocksQC[n] /\ Height(b) = chainHeight[n] + 1
    BY DEF AtHeight
  <2>3. next = {b}
    BY <2>2 DEF AtHeight, QCUnique, certified
  <2>4. b \in Block /\ chainHeight[n] \in Nat
    BY <2>2 DEF TypeOK
  <2>5. Height(b) \in 1..Height(b) /\ b # Genesis
    BY <2>2, <2>4, EmptySeq DEF Genesis, Height
  <2>6. b \in decidedBlocks
    BY <2>2, <2>5 DEF certified, ConsensusInv, CertifiedDecided
  <2>7. Ancestor(b, Height(b)) = b
    BY <2>4, SubSeqFull, LenProperties DEF Ancestor, Height, Block
  <2> DEFINE entries == {[block |-> x, qc |-> x] : x \in next}
             entry == [block |-> b, qc |-> b]
  <2>8. chain' = [chain EXCEPT ![n] = Written(n, entries)]
    BY <1>4 DEF tryExtendChain
  <2>9. entry.block = b
    OBVIOUS
  <2>10. entries = {entry}
    BY <2>3
  <2> HIDE DEF entries, entry, next
  <2>11. chainBlocks(n)' = {b} \cup {c \in chainBlocks(n) : Height(b) # Height(c)}
    <3>1. {e.block : e \in entries} = {b}
      BY <2>9, <2>10
    <3>2. {c \in chainBlocks(n) : \A x \in entries : Height(x.block) # Height(c)}
             = {c \in chainBlocks(n) : Height(b) # Height(c)}
      BY <2>9, <2>10
    <3>3. chainBlocks(n)' = {e.block : e \in Written(n, entries)}
      BY <2>8 DEF chainBlocks, TypeOK
    <3>4. {e.block : e \in Written(n, entries)}
             = {e.block : e \in entries}
               \cup {c \in chainBlocks(n) : \A x \in entries : Height(x.block) # Height(c)}
      BY WrittenBlocks
    <3> QED BY <3>1, <3>2, <3>3, <3>4
  <2>12. chainBlocks(n)' = {Ancestor(b, i) : i \in Height(b)..Height(b)}
                           \cup {c \in chainBlocks(n) : Height(c) \notin Height(b)..Height(b)}
    <3>1. Height(b)..Height(b) = {Height(b)}
      BY <2>2, <2>4
    <3>2. {Ancestor(b, i) : i \in Height(b)..Height(b)} = {b}
      BY <2>7, <3>1
    <3>3. {c \in chainBlocks(n) : Height(c) \notin Height(b)..Height(b)}
             = {c \in chainBlocks(n) : Height(b) # Height(c)}
      BY <3>1
    <3> QED BY <2>11, <3>2, <3>3
  <2>13. \A m \in Nodes \ {n} : chainBlocks(m)' = chainBlocks(m)
    BY <2>8 DEF chainBlocks, TypeOK
  <2> QED BY <1>1, <1>2, <2>5, <2>6, <2>12, <2>13, CommitMeans
<1> QED BY <1>3, <1>4

\* Every step is a step of Consensus or changes nothing there.
LEMMA AbstractNext ==
    ASSUME TypeOK, QCInv, ConsensusInv, [Next]_vars
    PROVE  [Abstract!Next]_Abstract!vars
<1>1. UNCHANGED <<proposedBlocks, voted, decidedBlocks, chain>> => UNCHANGED Abstract!vars
  BY DEF Abstract!vars
<1>2. ASSUME NEW n \in Nodes, HandleMsgsLoop(n) \/ Crash(n)
      PROVE  UNCHANGED <<proposedBlocks, voted, decidedBlocks, chain>>
  <2>1. UNCHANGED <<voted, qcCreated, chain>>
    BY <1>2 DEF HandleMsgsLoop, handleNewBlockMsg, handleVoteMsg, Crash, voteVars, chainVars
  <2> QED BY <1>2, <2>1, OthersKeepProposed, DecidedKept
<1>3. ASSUME NEW n \in Nodes, NEW g \in go[n], Resume(n, g)
      PROVE  \/ Abstract!CastVote(n) \/ Abstract!Decide \/ Abstract!Commit(n)
             \/ UNCHANGED <<proposedBlocks, voted, decidedBlocks, chain>>
  <2>1. CASE ~(castVote(n, g) \/ checkIfQuorumVotes(n, g)
               \/ CommitAncestorByBlockQC(n, g) \/ tryExtendChain(n, g))
    <3>1. UNCHANGED <<voted, qcCreated, chain>>
      BY <1>3, <2>1 DEF Resume, handleNewBlock, BroadcastVote, tryUpdateCandidateChain,
            tryExtendCandidateChain, buildBlockWithQC, handleNewBlockQC, voteVars, chainVars
    <3> QED BY <1>3, <3>1, OthersKeepProposed, DecidedKept
  <2> QED BY <1>3, <2>1, VoteRefines, CheckRefines, CommitRefines, ExtendRefines,
             CertifiedOnce
<1>4. CASE UNCHANGED vars
  <2>1. UNCHANGED <<voted, qcCreated, chain>>
    BY <1>4 DEF vars, voteVars, chainVars
  <2> QED BY <1>1, <1>4, <2>1, OthersKeepProposed, DecidedKept
<1> QED BY <1>1, <1>2, <1>3, <1>4, LoopRefines DEF Next, Abstract!Next

\* The nodes, with all their goroutines, messages in any order and crashes,
\* implement Consensus: nobody votes twice for a height or for what was not
\* proposed, a QC comes from a quorum, and a node commits a certified block or
\* ancestors of one.
THEOREM NodesImplementConsensus == Spec => ImplementsConsensus
BY AbstractInit, AbstractNext, TypeCorrect, QCInvInvariant, ConsensusInvInvariant, PTL
   DEF Spec, ImplementsConsensus, Abstract!Spec
=============================================================================
