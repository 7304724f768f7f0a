-------------------------------- MODULE Node --------------------------------
(***************************************************************************)
(* The consensus of core/node.go: a cluster of nodes that propose blocks,  *)
(* vote for them, assemble quorum certificates (QCs) out of the votes and  *)
(* commit blocks to their chains.                                          *)
(*                                                                         *)
(* Every handler of the code runs in a goroutine of its own and holds      *)
(* n.lock while it works, so a handler is one action here, and a `go f(b)` *)
(* statement adds an element to go[n], which runs in any order with all    *)
(* the others.  A set, not a bag, of goroutines is kept: a second pending  *)
(* call with the same arguments has no effect that the first, or a call    *)
(* spawned later, does not have.                                           *)
(*                                                                         *)
(* Every Go map keyed by height is the set of the values it holds; a value *)
(* carries its own height.                                                 *)
(*                                                                         *)
(* A definition whose comment starts with "Faulty variant" is not part of  *)
(* the specification: it is the definition after it with a plausible bug,  *)
(* and the property it names fails if it takes that definition's place.    *)
(***************************************************************************)
EXTENDS Blocks

CONSTANTS
    Proposers,  \* the nodes whose configuration sets can_propose_block
    MaxHeight,  \* bound: no block above this height is proposed
    MaxCrashes  \* bound: how many nodes may stop

ASSUME ProposersAssumption == Proposers \subseteq Nodes
ASSUME BoundsAssumption == MaxHeight \in Nat /\ MaxCrashes \in Nat

VARIABLES
    net,              \* net[n]: messages sent to n that it has not handled
    go,               \* go[n]: goroutines of n that wait to run
    voted,            \* the blocks n voted for; n.voted keeps their heights
    pendingBlocks,    \* the blocks n received
    partialSigs,      \* the votes n received
    qcCreated,        \* the heights n has created a QC for
    pendingBlocksQC,  \* blocks with a QC that wait for the chain to reach them
    candidateHeight,  \* candidateChain.height
    chain,            \* chain.blocks
    chainHeight,      \* chain.height
    heightUpdates,    \* values in, or blocked on, candidateHeightUpdated
    selected,         \* the previousBlock of ProposeBlockLoop, {} if it waits
    status            \* whether n runs, and if not, what stopped it

loopVars == <<heightUpdates, selected>>
voteVars == <<voted, partialSigs, qcCreated>>
chainVars == <<pendingBlocksQC, chain, chainHeight>>
candidateVars == <<pendingBlocks, candidateHeight>>
vars == <<net, go, voteVars, candidateVars, chainVars, loopVars, status>>

-----------------------------------------------------------------------------
Message == [type : {"proposal", "vote"}, sender : Nodes, block : Block]
Vote == [sender : Nodes, block : Block]

\* A block of the committed chain, with the block that its QC certifies: an
\* ancestor is stored with the QC of the descendant that committed it.
BlockWithQC == [block : Block, qc : Block]

Functions == {"handleNewBlock", "BroadcastVote", "castVote", "tryUpdateCandidateChain",
              "tryExtendCandidateChain", "checkIfQuorumVotes",
              "buildBlockWithQC", "handleNewBlockQC",
              "CommitAncestorByBlockQC", "tryExtendChain"}
Goroutine == [fn : Functions, block : Block]

Status == {"running", "lockLeaked", "recoverPanic", "nilDeref", "crashed"}

\* The process of n runs; and n.lock can be taken.
Alive(n) == status[n] \in {"running", "lockLeaked"}
Running(n) == status[n] = "running"

Call(f, b) == [fn |-> f, block |-> b]

\* Goroutine g of n ends after spawning the calls in new.
Finish(n, g, new) == go' = [go EXCEPT ![n] = (@ \ {g}) \cup new]

(***************************************************************************)
(* broadcast sends to the peers one by one in the random order of a map    *)
(* and gives up at the first error, so a peer that is down cuts it short   *)
(* after an arbitrary set of the others.  Its callers ignore the error.    *)
(* While all the nodes run, sending succeeds here.                         *)
(***************************************************************************)
Recipients == IF \A p \in Nodes : Alive(p) THEN {Nodes} ELSE SUBSET Nodes

broadcast(m, to) ==
    net' = [p \in Nodes |-> IF p \in to THEN net[p] \cup {m} ELSE net[p]]

(***************************************************************************)
(* candidateChain.blocks[h].  tryExtendCandidateChain stores the very map  *)
(* pendingBlocks[h], so a block that handleNewBlock adds to the one later  *)
(* is in the other at once.                                                *)
(***************************************************************************)
candidateBlocks(n, h) ==
    CASE h = 0 -> {Genesis}
      [] h \in 1..candidateHeight[n] -> AtHeight(pendingBlocks[n], h)
      [] OTHER -> {}

\* The nodes whose votes for b have reached n.
Signers(n, b) == {s \in Nodes : [sender |-> s, block |-> b] \in partialSigs[n]}

-----------------------------------------------------------------------------
Init ==
    /\ net = [n \in Nodes |-> {}]
    /\ go = [n \in Nodes |-> {}]
    /\ voted = [n \in Nodes |-> {}]
    /\ pendingBlocks = [n \in Nodes |-> {}]
    /\ partialSigs = [n \in Nodes |-> {}]
    /\ qcCreated = [n \in Nodes |-> {}]
    /\ pendingBlocksQC = [n \in Nodes |-> {}]
    /\ candidateHeight = [n \in Nodes |-> 0]
    /\ chain = [n \in Nodes |-> {[block |-> Genesis, qc |-> Genesis]}]
    /\ chainHeight = [n \in Nodes |-> 0]
    /\ heightUpdates = [n \in Nodes |-> 1]
    /\ selected = [n \in Nodes |-> {}]
    /\ status = [n \in Nodes |-> "running"]

(***************************************************************************)
(* One round of ProposeBlockLoop: take a value from candidateHeightUpdated *)
(* and pick a block at the top of the candidate chain, without n.lock;     *)
(* then run the sortition and either propose, or put a value back.  The    *)
(* sortition itself, a private coin of the node, is a free choice here.    *)
(***************************************************************************)
\* Faulty variant (TypeOK): does not wait for a value in the channel.
selectBlockAtOnce(n) ==
    /\ n \in Proposers
    /\ Alive(n)
    /\ selected[n] = {}
    /\ heightUpdates' = [heightUpdates EXCEPT ![n] = @ - 1]
    /\ \E b \in candidateBlocks(n, candidateHeight[n]) :
          selected' = [selected EXCEPT ![n] = {b}]
    /\ UNCHANGED <<net, go, voteVars, candidateVars, chainVars, status>>

selectBlock(n) ==
    /\ n \in Proposers
    /\ Alive(n)
    /\ selected[n] = {}
    /\ heightUpdates[n] > 0
    /\ heightUpdates' = [heightUpdates EXCEPT ![n] = @ - 1]
    /\ \E b \in candidateBlocks(n, candidateHeight[n]) :
          selected' = [selected EXCEPT ![n] = {b}]
    /\ UNCHANGED <<net, go, voteVars, candidateVars, chainVars, status>>

\* Faulty variant (Agreement, AncestorsCommitted): proposes a block for every
\* batch it could package.
ProposeBlocks(n) ==
    /\ Alive(n)
    /\ \E previous \in selected[n], to \in Recipients :
          /\ Height(previous) < MaxHeight
          /\ net' = [p \in Nodes |-> IF p \notin to THEN net[p] ELSE
                      net[p] \cup {[type |-> "proposal", sender |-> n,
                                    block |-> NewBlock(n, previous, cmds)] : cmds \in Batches}]
    /\ selected' = [selected EXCEPT ![n] = {}]
    /\ UNCHANGED <<go, voteVars, candidateVars, chainVars, heightUpdates, status>>

ProposeBlock(n) ==
    /\ Alive(n)
    /\ \E previous \in selected[n], cmds \in Batches, to \in Recipients :
          /\ Height(previous) < MaxHeight
          /\ broadcast([type |-> "proposal", sender |-> n,
                        block |-> NewBlock(n, previous, cmds)], to)
    /\ selected' = [selected EXCEPT ![n] = {}]
    /\ UNCHANGED <<go, voteVars, candidateVars, chainVars, heightUpdates, status>>

\* Faulty variant (ProposerNeverStalls): puts no value back.
LoseSortitionForGood(n) ==
    /\ Alive(n)
    /\ selected[n] # {}
    /\ selected' = [selected EXCEPT ![n] = {}]
    /\ UNCHANGED <<net, go, voteVars, candidateVars, chainVars, heightUpdates, status>>

LoseSortition(n) ==
    /\ Alive(n)
    /\ selected[n] # {}
    /\ selected' = [selected EXCEPT ![n] = {}]
    /\ heightUpdates' = [heightUpdates EXCEPT ![n] = @ + 1]
    /\ UNCHANGED <<net, go, voteVars, candidateVars, chainVars, status>>

-----------------------------------------------------------------------------
(***************************************************************************)
(* HandleMsgsLoop takes a message off msgCh and starts its handler.  For a *)
(* block, handleNewBlockMsg only spawns the two calls below; for a vote,   *)
(* the handler runs in the same step, since its delay is the network's.    *)
(***************************************************************************)
handleNewBlockMsg(n, m) ==
    /\ m.type = "proposal"
    /\ Alive(n)
    /\ net' = [net EXCEPT ![n] = @ \ {m}]
    /\ go' = [go EXCEPT ![n] = @ \cup {Call("handleNewBlock", m.block),
                                       Call("BroadcastVote", m.block)}]
    /\ UNCHANGED <<voteVars, candidateVars, chainVars, loopVars, status>>

handleVoteMsg(n, m) ==
    /\ m.type = "vote"
    /\ Running(n)
    /\ net' = [net EXCEPT ![n] = @ \ {m}]
    /\ partialSigs' = [partialSigs EXCEPT
                         ![n] = @ \cup {[sender |-> m.sender, block |-> m.block]}]
    /\ go' = [go EXCEPT ![n] = @ \cup {Call("checkIfQuorumVotes", m.block)}]
    /\ UNCHANGED <<voted, qcCreated, candidateVars, chainVars, loopVars, status>>

-----------------------------------------------------------------------------
(***************************************************************************)
(* The goroutines of node n.  The first conjunct names the function that   *)
(* g calls; g is in go[n].                                                 *)
(***************************************************************************)
\* Faulty variant (NoLostQuorum, EventuallyCertified): leaves the check to the
\* votes.
handleNewBlockUnchecked(n, g) ==
    /\ g.fn = "handleNewBlock"
    /\ pendingBlocks' = [pendingBlocks EXCEPT ![n] = @ \cup {g.block}]
    /\ Finish(n, g, {Call("tryUpdateCandidateChain", g.block)})
    /\ UNCHANGED <<net, voteVars, candidateHeight, chainVars, loopVars, status>>

handleNewBlock(n, g) ==
    /\ g.fn = "handleNewBlock"
    /\ pendingBlocks' = [pendingBlocks EXCEPT ![n] = @ \cup {g.block}]
    /\ Finish(n, g, {Call("tryUpdateCandidateChain", g.block),
                     Call("checkIfQuorumVotes", g.block)})
    /\ UNCHANGED <<net, voteVars, candidateHeight, chainVars, loopVars, status>>

\* Faulty variant (ImplementsConsensus): one vote for a block, not for a height.
HasVotedForBlock(n, b) == b \in voted[n]

\* n.voted[b.Height].
HasVoted(n, b) == AtHeight(voted[n], Height(b)) # {}

\* BroadcastVote looks at n.voted with n.lock held for reading, signs the vote,
\* and takes n.lock again.
BroadcastVote(n, g) ==
    /\ g.fn = "BroadcastVote"
    /\ Finish(n, g, IF HasVoted(n, g.block) THEN {} ELSE {Call("castVote", g.block)})
    /\ UNCHANGED <<net, voteVars, candidateVars, chainVars, loopVars, status>>

\* Faulty variant (QCUnique): relies on the first look at n.voted.
castVoteUnchecked(n, g) ==
    /\ g.fn = "castVote"
    /\ voted' = [voted EXCEPT ![n] = @ \cup {g.block}]
    /\ \E to \in Recipients :
          broadcast([type |-> "vote", sender |-> n, block |-> g.block], to)
    /\ Finish(n, g, {})
    /\ UNCHANGED <<partialSigs, qcCreated, candidateVars, chainVars, loopVars, status>>

\* The second half of BroadcastVote: another vote may have been cast meanwhile.
castVote(n, g) ==
    /\ g.fn = "castVote"
    /\ IF ~HasVoted(n, g.block)
       THEN /\ voted' = [voted EXCEPT ![n] = @ \cup {g.block}]
            /\ \E to \in Recipients :
                  broadcast([type |-> "vote", sender |-> n, block |-> g.block], to)
       ELSE UNCHANGED <<voted, net>>
    /\ Finish(n, g, {})
    /\ UNCHANGED <<partialSigs, qcCreated, candidateVars, chainVars, loopVars, status>>

\* Faulty variant (NoLostCandidate): takes the height above the candidate
\* chain for one that the chain has.
tryUpdateCandidateChainOffByOne(n, g) ==
    /\ g.fn = "tryUpdateCandidateChain"
    /\ Finish(n, g, IF Height(g.block) <= candidateHeight[n] + 1 THEN {}
                    ELSE {Call("tryExtendCandidateChain", Genesis)})
    /\ UNCHANGED <<net, voteVars, candidateVars, chainVars, loopVars, status>>

\* Adding the block to the candidates of its height is no change: see
\* candidateBlocks.
tryUpdateCandidateChain(n, g) ==
    /\ g.fn = "tryUpdateCandidateChain"
    /\ Finish(n, g, IF Height(g.block) <= candidateHeight[n] THEN {}
                    ELSE {Call("tryExtendCandidateChain", Genesis)})
    /\ UNCHANGED <<net, voteVars, candidateVars, chainVars, loopVars, status>>

\* Faulty variant (OneProposalPerHeight): wakes the loop up once more when
\* there is nothing to extend the chain with.
tryExtendCandidateChainAlwaysWaking(n, g) ==
    /\ g.fn = "tryExtendCandidateChain"
    /\ heightUpdates' = [heightUpdates EXCEPT ![n] = @ + 1]
    /\ IF AtHeight(pendingBlocks[n], candidateHeight[n] + 1) # {}
       THEN /\ candidateHeight' = [candidateHeight EXCEPT ![n] = @ + 1]
            /\ Finish(n, g, {Call("tryExtendCandidateChain", Genesis)})
       ELSE /\ Finish(n, g, {})
            /\ UNCHANGED candidateHeight
    /\ UNCHANGED <<net, voteVars, pendingBlocks, chainVars, selected, status>>

\* Faulty variant (AncestorsAreCandidates): extends by a block of any height.
tryExtendCandidateChainAnyHeight(n, g) ==
    /\ g.fn = "tryExtendCandidateChain"
    /\ \E b \in pendingBlocks[n] :
          /\ Height(b) > candidateHeight[n]
          /\ candidateHeight' = [candidateHeight EXCEPT ![n] = Height(b)]
    /\ heightUpdates' = [heightUpdates EXCEPT ![n] = @ + 1]
    /\ Finish(n, g, {})
    /\ UNCHANGED <<net, voteVars, pendingBlocks, chainVars, selected, status>>

tryExtendCandidateChain(n, g) ==
    /\ g.fn = "tryExtendCandidateChain"
    /\ IF AtHeight(pendingBlocks[n], candidateHeight[n] + 1) # {}
       THEN /\ candidateHeight' = [candidateHeight EXCEPT ![n] = @ + 1]
            /\ heightUpdates' = [heightUpdates EXCEPT ![n] = @ + 1]
            /\ Finish(n, g, {Call("tryExtendCandidateChain", Genesis)})
       ELSE /\ Finish(n, g, {})
            /\ UNCHANGED <<candidateHeight, heightUpdates>>
    /\ UNCHANGED <<net, voteVars, pendingBlocks, chainVars, selected, status>>

\* Faulty variant (HandlersReturn): one vote too few.
HasAlmostQuorum(n, b) ==
    /\ Cardinality(Signers(n, b)) >= quorumNum - 1
    /\ Height(b) \notin qcCreated[n]
    /\ b \in pendingBlocks[n]

\* n has the votes for a QC of b, has created none for the height, and has b.
HasNewQuorum(n, b) ==
    /\ Cardinality(Signers(n, b)) >= quorumNum
    /\ Height(b) \notin qcCreated[n]
    /\ b \in pendingBlocks[n]

checkIfQuorumVotes(n, g) ==
    /\ g.fn = "checkIfQuorumVotes"
    /\ IF HasNewQuorum(n, g.block)
       THEN /\ qcCreated' = [qcCreated EXCEPT ![n] = @ \cup {Height(g.block)}]
            /\ Finish(n, g, {Call("buildBlockWithQC", g.block)})
       ELSE /\ Finish(n, g, {})
            /\ UNCHANGED qcCreated
    /\ UNCHANGED <<net, voted, partialSigs, candidateVars, chainVars, loopVars, status>>

\* extractPartialSigs passes at most quorumNum signatures on, and tbls.Recover,
\* asked for quorumNum of them, panics on fewer.
buildBlockWithQC(n, g) ==
    /\ g.fn = "buildBlockWithQC"
    /\ IF Cardinality(Signers(n, g.block)) >= quorumNum
       THEN /\ Finish(n, g, {Call("handleNewBlockQC", g.block)})
            /\ UNCHANGED status
       ELSE /\ Finish(n, g, {})
            /\ status' = [status EXCEPT ![n] = "recoverPanic"]
    /\ UNCHANGED <<net, voteVars, candidateVars, chainVars, loopVars>>

\* A second QC for a height returns without releasing n.lock.
handleNewBlockQC(n, g) ==
    /\ g.fn = "handleNewBlockQC"
    /\ IF AtHeight(pendingBlocksQC[n], Height(g.block)) = {}
       THEN /\ pendingBlocksQC' = [pendingBlocksQC EXCEPT ![n] = @ \cup {g.block}]
            /\ Finish(n, g, {Call("CommitAncestorByBlockQC", g.block)})
            /\ UNCHANGED status
       ELSE /\ status' = [status EXCEPT ![n] = "lockLeaked"]
            /\ Finish(n, g, {})
            /\ UNCHANGED pendingBlocksQC
    /\ UNCHANGED <<net, voteVars, candidateVars, chain, chainHeight, loopVars>>

\* Faulty variant (ChainsGrow): cuts the chain above what is written.
WrittenAndCut(n, entries) ==
    entries \cup {e \in chain[n] :
                     \A x \in entries : Height(x.block) > Height(e.block)}

\* Faulty variant (ChainHasNoHoles): appends instead of writing by height.
Appended(n, entries) == entries \cup chain[n]

\* chain.blocks of n after entries are written into it.
Written(n, entries) ==
    entries \cup {e \in chain[n] :
                     \A x \in entries : Height(x.block) # Height(e.block)}

\* The two early ways out of CommitAncestorByBlockQC: chain.blocks and
\* candidateChain.blocks have the same length, or b's parent is no candidate.
NothingToCommit(n, b) ==
    \/ Cardinality(chain[n]) = candidateHeight[n] + 1
    \/ Previous(b) \notin candidateBlocks(n, Height(b) - 1)

\* The heights at which the walk down from b's parent dereferences a block
\* that is not in the candidate chain.
MissingAncestors(n, b) ==
    {i \in chainHeight[n] + 1 .. Height(b) - 2 :
        Ancestor(b, i) \notin candidateBlocks(n, i)}

\* After it, the same goroutine of handleNewBlockQC spawns tryExtendChain.
CommitAncestorByBlockQC(n, g) ==
    LET b == g.block
        committed == {[block |-> Ancestor(b, i), qc |-> b] :
                         i \in chainHeight[n] + 1 .. Height(b) - 1}
    IN  /\ g.fn = "CommitAncestorByBlockQC"
        /\ IF NothingToCommit(n, b)
           THEN UNCHANGED <<chain, chainHeight, status>>
           ELSE IF MissingAncestors(n, b) = {}
           THEN /\ chain' = [chain EXCEPT ![n] = Written(n, committed)]
                /\ chainHeight' = [chainHeight EXCEPT ![n] = Height(b) - 1]
                /\ UNCHANGED status
           ELSE /\ status' = [status EXCEPT ![n] = "nilDeref"]
                /\ UNCHANGED <<chain, chainHeight>>
        /\ Finish(n, g, {Call("tryExtendChain", Genesis)})
        /\ UNCHANGED <<net, voteVars, candidateVars, pendingBlocksQC, loopVars>>

\* Faulty variant (NoLostQC): extends the chain by one block only.
tryExtendChainOnce(n, g) ==
    LET newHeight == chainHeight[n] + 1
        next == AtHeight(pendingBlocksQC[n], newHeight)
    IN  /\ g.fn = "tryExtendChain"
        /\ IF next # {}
           THEN /\ chain' = [chain EXCEPT
                     ![n] = Written(n, {[block |-> b, qc |-> b] : b \in next})]
                /\ chainHeight' = [chainHeight EXCEPT ![n] = newHeight]
                /\ pendingBlocksQC' = [pendingBlocksQC EXCEPT ![n] = @ \ next]
           ELSE UNCHANGED chainVars
        /\ Finish(n, g, {})
        /\ UNCHANGED <<net, voteVars, candidateVars, loopVars, status>>

\* Faulty variant (ImplementsConsensus): takes the next block from
\* pendingBlocks, where it may not have a QC.
tryExtendChainUncertified(n, g) ==
    LET newHeight == chainHeight[n] + 1
        next == AtHeight(pendingBlocks[n], newHeight)
    IN  /\ g.fn = "tryExtendChain"
        /\ IF next # {}
           THEN /\ \E b \in next :
                     chain' = [chain EXCEPT ![n] = Written(n, {[block |-> b, qc |-> b]})]
                /\ chainHeight' = [chainHeight EXCEPT ![n] = newHeight]
                /\ Finish(n, g, {Call("tryExtendChain", Genesis)})
           ELSE /\ Finish(n, g, {})
                /\ UNCHANGED <<chain, chainHeight>>
        /\ UNCHANGED <<net, voteVars, candidateVars, pendingBlocksQC, loopVars, status>>

tryExtendChain(n, g) ==
    LET newHeight == chainHeight[n] + 1
        next == AtHeight(pendingBlocksQC[n], newHeight)
    IN  /\ g.fn = "tryExtendChain"
        /\ IF next # {}
           THEN /\ chain' = [chain EXCEPT
                     ![n] = Written(n, {[block |-> b, qc |-> b] : b \in next})]
                /\ chainHeight' = [chainHeight EXCEPT ![n] = newHeight]
                /\ pendingBlocksQC' = [pendingBlocksQC EXCEPT ![n] = @ \ next]
                /\ Finish(n, g, {Call("tryExtendChain", Genesis)})
           ELSE /\ Finish(n, g, {})
                /\ UNCHANGED chainVars
        /\ UNCHANGED <<net, voteVars, candidateVars, loopVars, status>>

-----------------------------------------------------------------------------
\* A node stops: the process dies, or the machine becomes unreachable.
Crash(n) ==
    /\ Alive(n)
    /\ Cardinality({p \in Nodes : status[p] = "crashed"}) < MaxCrashes
    /\ status' = [status EXCEPT ![n] = "crashed"]
    /\ UNCHANGED <<net, go, voteVars, candidateVars, chainVars, loopVars>>

ProposeBlockLoop(n) == selectBlock(n) \/ ProposeBlock(n) \/ LoseSortition(n)

HandleMsgsLoop(n) ==
    \E m \in net[n] : handleNewBlockMsg(n, m) \/ handleVoteMsg(n, m)

\* Every goroutine takes n.lock first.
Resume(n, g) ==
    /\ Running(n)
    /\ \/ handleNewBlock(n, g)
       \/ BroadcastVote(n, g)
       \/ castVote(n, g)
       \/ tryUpdateCandidateChain(n, g)
       \/ tryExtendCandidateChain(n, g)
       \/ checkIfQuorumVotes(n, g)
       \/ buildBlockWithQC(n, g)
       \/ handleNewBlockQC(n, g)
       \/ CommitAncestorByBlockQC(n, g)
       \/ tryExtendChain(n, g)

Next ==
    \E n \in Nodes :
       \/ ProposeBlockLoop(n)
       \/ HandleMsgsLoop(n)
       \/ \E g \in go[n] : Resume(n, g)
       \/ Crash(n)

Spec == Init /\ [][Next]_vars

\* A goroutine that waits gets n.lock, and a message in msgCh is taken.
Fairness ==
    \A n \in Nodes : /\ WF_vars(\E g \in go[n] : Resume(n, g))
                    /\ WF_vars(HandleMsgsLoop(n))

LiveSpec == Spec /\ Fairness

-----------------------------------------------------------------------------
(***************************************************************************)
(* What the nodes guarantee to each other.                                 *)
(***************************************************************************)
voters(b) == {s \in Nodes : b \in voted[s]}

\* The blocks that n holds, or is assembling, a QC for.
certified(n) ==
    pendingBlocksQC[n]
    \cup {g.block : g \in {x \in go[n] : x.fn \in
             {"buildBlockWithQC", "handleNewBlockQC", "CommitAncestorByBlockQC"}}}
    \cup {e.qc : e \in chain[n]}

TypeOK ==
    /\ net \in [Nodes -> SUBSET Message]
    /\ go \in [Nodes -> SUBSET Goroutine]
    /\ voted \in [Nodes -> SUBSET Block]
    /\ pendingBlocks \in [Nodes -> SUBSET Block]
    /\ partialSigs \in [Nodes -> SUBSET Vote]
    /\ qcCreated \in [Nodes -> SUBSET Nat]
    /\ pendingBlocksQC \in [Nodes -> SUBSET Block]
    /\ candidateHeight \in [Nodes -> Nat]
    /\ chain \in [Nodes -> SUBSET BlockWithQC]
    /\ chainHeight \in [Nodes -> Nat]
    /\ heightUpdates \in [Nodes -> Nat]
    /\ selected \in [Nodes -> SUBSET Block]
    /\ status \in [Nodes -> Status]

\* No two nodes, and no node twice, certify different blocks of one height:
\* whatever order proposals and votes arrive in, the voted map lets a node
\* vote once for a height, and two quorums share a voter.
QCUnique ==
    \A m, n \in Nodes : \A b \in certified(m), c \in certified(n) :
        Height(b) = Height(c) => b = c

\* A committed block is certified by the QC it is stored with: it is on the
\* path that the block of the QC ends, and two thirds of the nodes voted for
\* that block, although CommitAncestorByBlockQC stores the QC of a descendant.
ChainCertified ==
    \A n \in Nodes : \A e \in chain[n] :
        /\ Height(e.block) <= Height(e.qc)
        /\ e.block = Ancestor(e.qc, Height(e.block))
        /\ e.qc # Genesis =>
              3 * Cardinality(voters(e.qc)) >= 2 * Cardinality(Nodes)

\* chain.blocks holds one block at each height from 0 up to the highest, and
\* chain.height is one of these, so that Chain.String, which looks all of them
\* up, finds each; two functions write to the chain, at heights of their own,
\* and one of them may lower chain.height.
ChainHasNoHoles ==
    \A n \in Nodes :
        LET heights == {Height(e.block) : e \in chain[n]}
        IN  /\ heights = 0 .. Cardinality(chain[n]) - 1
            /\ chainHeight[n] \in heights

\* No handler ends with n.lock held, and none is stopped by tbls.Recover: the
\* qcCreated map, set in one goroutine, keeps a second QC of a height from
\* handleNewBlockQC, which would return without releasing the lock.
HandlersReturn ==
    \A n \in Nodes : status[n] \notin {"lockLeaked", "recoverPanic"}

\* A block with a quorum of votes and no QC is about to be checked, whether
\* the block or the last of its votes came last.
NoLostQuorum ==
    \A n \in Nodes : \A b \in pendingBlocks[n] :
        /\ Cardinality(Signers(n, b)) >= quorumNum
        /\ Height(b) \notin qcCreated[n]
        => Call("checkIfQuorumVotes", b) \in go[n]

\* A pending block on top of the candidate chain is about to extend it,
\* whatever order the blocks arrived in.
NoLostCandidate ==
    \A n \in Nodes :
        AtHeight(pendingBlocks[n], candidateHeight[n] + 1) # {}
        => \E g \in go[n] :
              \/ g.fn = "tryExtendCandidateChain"
              \/ /\ g.fn = "tryUpdateCandidateChain"
                 /\ Height(g.block) > candidateHeight[n]

\* A QC for the height above chain.height is about to extend the chain,
\* whatever order the QCs were created in.
NoLostQC ==
    \A n \in Nodes :
        AtHeight(pendingBlocksQC[n], chainHeight[n] + 1) # {}
        => \E g \in go[n] : g.fn \in {"CommitAncestorByBlockQC", "tryExtendChain"}

\* While no node stops, a proposer whose loop finds candidateHeightUpdated
\* empty has a block of its own on the way that will fill it again, although
\* its value may have been taken for a height another node's block won.
ProposerNeverStalls ==
    (\A p \in Nodes : Running(p)) =>
        \A n \in Proposers :
            heightUpdates[n] = 0 /\ selected[n] = {} =>
                \E b \in pendingBlocks[n] \cup {g.block : g \in go[n]}
                          \cup {m.block : m \in net[n]} :
                    /\ Height(b) = candidateHeight[n] + 1
                    /\ b[Height(b)].proposer = n

-----------------------------------------------------------------------------
(***************************************************************************)
(* The nodes as an implementation of Consensus.                            *)
(***************************************************************************)
\* The blocks that have reached n, or are on their way to it.
received(n) ==
    pendingBlocks[n]
    \cup {m.block : m \in {x \in net[n] : x.type = "proposal"}}
    \cup {g.block : g \in {x \in go[n] : x.fn = "handleNewBlock"}}

proposedBlocks == UNION {received(n) : n \in Nodes}

\* The blocks with a quorum for which a node has decided to create a QC. A node
\* may forget a QC, when another block is written over the one it came with.
decidedBlocks ==
    {b \in proposedBlocks :
        /\ Cardinality(voters(b)) >= quorumNum
        /\ \E n \in Nodes : Height(b) \in qcCreated[n]}

Abstract == INSTANCE Consensus WITH
    proposed <- proposedBlocks,
    ballots <- voted,
    decided <- decidedBlocks,
    committed <- [n \in Nodes |-> {e.block : e \in chain[n]}]

\* Every step of a node, of its handlers and of the network is a step of
\* Consensus or changes nothing there: no handler, in whatever order it runs,
\* votes twice, certifies without a quorum, or commits what is not certified.
ImplementsConsensus == Abstract!Spec

-----------------------------------------------------------------------------
(***************************************************************************)
(* What holds only if a single node proposes.                              *)
(***************************************************************************)
\* The node proposes once at each height, although two values may be in
\* candidateHeightUpdated while its candidate chain has not grown.
OneProposalPerHeight ==
    \A b, c \in proposedBlocks : Height(b) = Height(c) => b = c

\* No two nodes commit different blocks at one height
\* (compareChainsIgnoreQC in the tests).
Agreement ==
    \A m, n \in Nodes : \A e \in chain[m], f \in chain[n] :
        Height(e.block) = Height(f.block) => e.block = f.block

\* Below a committed block its parent is committed, so all its ancestors are,
\* although tryExtendChain does not look at PreviousHash.
AncestorsCommitted ==
    \A n \in Nodes : \A e \in chain[n] :
        Height(e.block) > 0 => \E f \in chain[n] : f.block = Previous(e.block)

\* A committed block is never replaced or dropped, although chain.height may be
\* lowered, after which CommitAncestorByBlockQC and tryExtendChain write at the
\* heights above it once more.
ChainsGrow ==
    [][\A n \in Nodes :
          {e.block : e \in chain[n]} \subseteq {e.block : e \in chain'[n]}]_chain

\* The walk down from a block with a QC finds each ancestor among the
\* candidates and never dereferences a missing one.
AncestorsAreCandidates == \A n \in Nodes : status[n] # "nilDeref"

\* A block that is proposed ends up certified at every node, whatever order the
\* proposal and the votes reach it in.
EventuallyCertified ==
    \A h \in 1..MaxHeight :
        (\E n \in Nodes : \E m \in net[n] : Height(m.block) = h)
        ~> (\A n \in Nodes : h \in qcCreated[n])

-----------------------------------------------------------------------------
(***************************************************************************)
(* What the code says of its chain but does not keep.                      *)
(***************************************************************************)
\* A block that has its QC and comes next after a chain as long as the candidate
\* chain is about to be committed: "the extension of chain will be conducted in
\* function tryExtendChain()" (CommitAncestorByBlockQC).  But that function looks
\* above chain.height, which a late QC may have left below the end of the chain.
ExtensionConducted ==
    \A n \in Nodes : \A b \in pendingBlocksQC[n] :
        Height(b) = Cardinality(chain[n]) /\ Height(b) = candidateHeight[n] + 1
        => \E g \in go[n] : g.fn \in {"CommitAncestorByBlockQC", "tryExtendChain"}
=============================================================================
