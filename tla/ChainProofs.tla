----------------------------- MODULE ChainProofs -----------------------------
(***************************************************************************)
(* What the chains of the nodes hold: for every cluster first, then for    *)
(* the clusters in which a single node proposes.                           *)
(***************************************************************************)
EXTENDS ConsensusProofs

-----------------------------------------------------------------------------
(***************************************************************************)
(* A chain has no holes.  An interval of heights, from 0 up, is extended   *)
(* by an interval that starts no further than one above it, since          *)
(* chain.height lies in the first; and no height has two entries, so that  *)
(* the length of chain.blocks counts the heights.                          *)
(***************************************************************************)
\* The heights in chain.blocks of n.
heights(n) == {Height(e.block) : e \in chain[n]}

OneEntryPerHeight ==
    \A n \in Nodes : \A e, f \in chain[n] : Height(e.block) = Height(f.block) => e = f

HeightsFilled ==
    \A n \in Nodes : \E top \in Nat : heights(n) = 0..top /\ chainHeight[n] \in 0..top

ChainInv == OneEntryPerHeight /\ HeightsFilled

\* The chain begins with genesis (NewNode).
LEMMA ChainInvInit == Init => ChainInv
<1> SUFFICES ASSUME Init PROVE ChainInv
  OBVIOUS
<1> DEFINE first == [block |-> Genesis, qc |-> Genesis]
<1>1. Height(Genesis) = 0
  BY EmptySeq DEF Height, Genesis
<1>2. first.block = Genesis
  OBVIOUS
<1>3. \A n \in Nodes : chain[n] = {first} /\ chainHeight[n] = 0
  BY DEF Init
<1> HIDE DEF first
<1>4. \A n \in Nodes : heights(n) = {0}
  BY <1>1, <1>2, <1>3 DEF heights
<1>5. 0..0 = {0} /\ 0 \in Nat
  OBVIOUS
<1>6. HeightsFilled
  BY <1>3, <1>4, <1>5 DEF HeightsFilled
<1>7. OneEntryPerHeight
  BY <1>3 DEF OneEntryPerHeight
<1> QED BY <1>6, <1>7 DEF ChainInv

\* Two handlers write to the chain.
LEMMA ChainWriters ==
    ASSUME TypeOK, [Next]_vars, NEW m \in Nodes
    PROVE  \/ chain'[m] = chain[m] /\ chainHeight'[m] = chainHeight[m]
           \/ \E g \in go[m] : /\ Resume(m, g)
                              /\ (CommitAncestorByBlockQC(m, g) \/ tryExtendChain(m, g))
<1>1. ASSUME NEW n \in Nodes, ProposeBlockLoop(n) \/ HandleMsgsLoop(n) \/ Crash(n)
      PROVE  UNCHANGED <<chain, chainHeight>>
  BY <1>1 DEF ProposeBlockLoop, selectBlock, ProposeBlock, LoseSortition, HandleMsgsLoop,
        handleNewBlockMsg, handleVoteMsg, Crash, chainVars
<1>2. ASSUME NEW n \in Nodes, NEW g \in go[n], Resume(n, g),
             ~(CommitAncestorByBlockQC(n, g) \/ tryExtendChain(n, g))
      PROVE  UNCHANGED <<chain, chainHeight>>
  BY <1>2 DEF Resume, handleNewBlock, BroadcastVote, castVote, tryUpdateCandidateChain,
        tryExtendCandidateChain, checkIfQuorumVotes, buildBlockWithQC, handleNewBlockQC,
        chainVars
<1>3. ASSUME NEW n \in Nodes, NEW g \in go[n], n # m,
             CommitAncestorByBlockQC(n, g) \/ tryExtendChain(n, g)
      PROVE  chain'[m] = chain[m] /\ chainHeight'[m] = chainHeight[m]
  BY <1>3 DEF CommitAncestorByBlockQC, tryExtendChain, chainVars, TypeOK
<1>4. UNCHANGED vars => UNCHANGED <<chain, chainHeight>>
  BY DEF vars, chainVars
<1> QED BY <1>1, <1>2, <1>3, <1>4 DEF Next

\* What a write leaves: the heights written join the others, and if no two
\* entries written are of one height, no two of the chain become so.
LEMMA WrittenHeights ==
    ASSUME NEW n \in Nodes, NEW entries, OneEntryPerHeight,
           \A x, y \in entries : Height(x.block) = Height(y.block) => x = y
    PROVE  /\ {Height(e.block) : e \in Written(n, entries)}
                 = {Height(e.block) : e \in entries} \cup heights(n)
           /\ \A e, f \in Written(n, entries) : Height(e.block) = Height(f.block) => e = f
<1>1. \A e, f \in Written(n, entries) : Height(e.block) = Height(f.block) => e = f
  BY DEF Written, OneEntryPerHeight
<1>2. \A h : (\E e \in Written(n, entries) : Height(e.block) = h)
                <=> (\E e \in entries : Height(e.block) = h) \/ (\E e \in chain[n] : Height(e.block) = h)
  BY DEF Written
<1>3. \A h : h \in {Height(e.block) : e \in Written(n, entries)}
                <=> h \in {Height(e.block) : e \in entries} \cup heights(n)
  BY <1>2 DEF heights
<1> QED BY <1>1, <1>3

\* An interval joined by one that begins inside it or right above it.
LEMMA JoinedIntervals ==
    ASSUME NEW top \in Nat, NEW low \in 1 .. top + 1, NEW high \in Nat
    PROVE  \E t \in Nat : /\ (low..high) \cup (0..top) = 0..t
                          /\ high >= low => high \in 0..t
                          /\ 0..top \subseteq 0..t
<1>1. CASE high <= top
  BY <1>1
<1>2. CASE high > top
  <2>1. (low..high) \cup (0..top) = 0..high
    BY <1>2
  <2> QED BY <1>2, <2>1
<1> QED BY <1>1, <1>2

\* Every step keeps the invariant on the chains.
LEMMA ChainInvNext == TypeOK /\ QCUnique /\ ChainInv /\ [Next]_vars => ChainInv'
<1> SUFFICES ASSUME TypeOK, QCUnique, ChainInv, [Next]_vars, NEW n \in Nodes
             PROVE  /\ \A e, f \in chain'[n] : Height(e.block) = Height(f.block) => e = f
                    /\ \E top \in Nat : /\ {Height(e.block) : e \in chain'[n]} = 0..top
                                        /\ chainHeight'[n] \in 0..top
  BY DEF ChainInv, OneEntryPerHeight, HeightsFilled, heights
<1>1. PICK top \in Nat : heights(n) = 0..top /\ chainHeight[n] \in 0..top
  BY DEF ChainInv, HeightsFilled
<1>2. CASE chain'[n] = chain[n] /\ chainHeight'[n] = chainHeight[n]
  BY <1>1, <1>2 DEF ChainInv, OneEntryPerHeight, heights
<1>3. ASSUME NEW g \in go[n], CommitAncestorByBlockQC(n, g),
             ~(chain'[n] = chain[n] /\ chainHeight'[n] = chainHeight[n])
      PROVE  /\ \A e, f \in chain'[n] : Height(e.block) = Height(f.block) => e = f
             /\ \E t \in Nat : /\ {Height(e.block) : e \in chain'[n]} = 0..t
                               /\ chainHeight'[n] \in 0..t
  <2> DEFINE b == g.block
             low == chainHeight[n] + 1
             high == Height(b) - 1
             entry(i) == [block |-> Ancestor(b, i), qc |-> b]
             committed == {entry(i) : i \in low..high}
  <2>1. ~NothingToCommit(n, b) /\ MissingAncestors(n, b) = {}
    BY <1>3 DEF CommitAncestorByBlockQC
  <2>2. chain'[n] = Written(n, committed) /\ chainHeight'[n] = high
    BY <1>3, <2>1 DEF CommitAncestorByBlockQC, TypeOK
  <2>3. b \in Block /\ Height(b) \in Nat
    BY BlockProperties DEF TypeOK, Goroutine
  <2>4. high \in Nat
    <3>1. candidateBlocks(n, high) # {}
      BY <2>1 DEF NothingToCommit
    <3> QED BY <2>3, <3>1 DEF candidateBlocks, TypeOK
  <2>5. low \in 1 .. top + 1
    BY <1>1
  <2>6. \A i \in low..high : Height(entry(i).block) = i
    <3>1. ASSUME NEW i \in low..high PROVE Height(Ancestor(b, i)) = i
      BY <2>3, <2>5, AncestorProperties
    <3> QED BY <3>1
  <2> HIDE DEF entry
  <2>7. {Height(e.block) : e \in committed} = low..high
    <3> HIDE DEF low, high
    <3> QED BY <2>6
  <2>8. \A x, y \in committed : Height(x.block) = Height(y.block) => x = y
    <3> HIDE DEF low, high
    <3> QED BY <2>6
  <2> HIDE DEF committed, low, high
  <2>9. /\ {Height(e.block) : e \in Written(n, committed)} = (low..high) \cup (0..top)
        /\ \A e, f \in Written(n, committed) : Height(e.block) = Height(f.block) => e = f
    BY <1>1, <2>7, <2>8, WrittenHeights DEF ChainInv
  <2>10. PICK t \in Nat : /\ (low..high) \cup (0..top) = 0..t
                          /\ high >= low => high \in 0..t
                          /\ 0..top \subseteq 0..t
    BY <2>4, <2>5, JoinedIntervals
  <2>11. high \in 0..t
    <3>1. CASE high >= low
      BY <2>10, <3>1
    <3>2. CASE high < low
      <4>1. high \in 0..top
        BY <1>1, <2>4, <3>2 DEF low
      <4> QED BY <2>10, <4>1
    <3> QED BY <2>4, <2>5, <3>1, <3>2
  <2> QED BY <2>2, <2>9, <2>10, <2>11
<1>4. ASSUME NEW g \in go[n], tryExtendChain(n, g),
             ~(chain'[n] = chain[n] /\ chainHeight'[n] = chainHeight[n])
      PROVE  /\ \A e, f \in chain'[n] : Height(e.block) = Height(f.block) => e = f
             /\ \E t \in Nat : /\ {Height(e.block) : e \in chain'[n]} = 0..t
                               /\ chainHeight'[n] \in 0..t
  <2> DEFINE newHeight == chainHeight[n] + 1
             next == AtHeight(pendingBlocksQC[n], newHeight)
             entries == {[block |-> x, qc |-> x] : x \in next}
  <2>1. next # {} /\ chain'[n] = Written(n, entries) /\ chainHeight'[n] = newHeight
    BY <1>4 DEF tryExtendChain, TypeOK, chainVars
  <2>2. PICK b \in next : next = {b} /\ Height(b) = newHeight
    BY <2>1 DEF AtHeight, QCUnique, certified
  <2> DEFINE entry == [block |-> b, qc |-> b]
  <2>3. entries = {entry} /\ entry.block = b
    BY <2>2
  <2> HIDE DEF entries, entry
  <2>4. {Height(e.block) : e \in entries} = {newHeight}
    BY <2>2, <2>3
  <2>5. newHeight \in 1 .. top + 1 /\ newHeight \in Nat
    BY <1>1
  <2> HIDE DEF newHeight, next
  <2>6. newHeight..newHeight = {newHeight}
    BY <2>5
  <2>7. /\ {Height(e.block) : e \in Written(n, entries)} = (newHeight..newHeight) \cup (0..top)
        /\ \A e, f \in Written(n, entries) : Height(e.block) = Height(f.block) => e = f
    BY <1>1, <2>3, <2>4, <2>6, WrittenHeights DEF ChainInv
  <2>8. PICK t \in Nat : /\ (newHeight..newHeight) \cup (0..top) = 0..t
                         /\ newHeight >= newHeight => newHeight \in 0..t
                         /\ 0..top \subseteq 0..t
    BY <2>5, JoinedIntervals
  <2> QED BY <2>1, <2>5, <2>7, <2>8
<1> QED BY <1>2, <1>3, <1>4, ChainWriters

\* The invariant holds in every reachable state.
LEMMA ChainInvInvariant == Spec => []ChainInv
<1>1. TypeOK /\ QCInv /\ ChainInv /\ [Next]_vars => ChainInv'
  BY CertifiedOnce, ChainInvNext
<1> QED BY <1>1, ChainInvInit, TypeCorrect, QCInvInvariant, PTL DEF Spec

\* chain.blocks holds exactly one block at each height up to the highest, and
\* chain.height is one of them, although CommitAncestorByBlockQC and
\* tryExtendChain both write to it and the first may lower chain.height.
THEOREM ChainWithoutHoles == Spec => []ChainHasNoHoles
<1>1. TypeOK /\ ChainInv => ChainHasNoHoles
  <2> SUFFICES ASSUME TypeOK, ChainInv, NEW n \in Nodes
               PROVE  /\ heights(n) = 0 .. Cardinality(chain[n]) - 1
                      /\ chainHeight[n] \in heights(n)
    BY DEF ChainHasNoHoles, heights
  <2>1. PICK top \in Nat : heights(n) = 0..top /\ chainHeight[n] \in 0..top
    BY DEF ChainInv, HeightsFilled
  <2>2. Cardinality(chain[n]) = top + 1
    <3> DEFINE at == [h \in 0..top |-> CHOOSE e \in chain[n] : Height(e.block) = h]
    <3>1. \A h \in 0..top : at[h] \in chain[n] /\ Height(at[h].block) = h
      <4>1. \A h \in 0..top : \E e \in chain[n] : Height(e.block) = h
        BY <2>1 DEF heights
      <4> QED BY <4>1
    <3>2. \A e \in chain[n] : Height(e.block) \in 0..top
      BY <2>1 DEF heights
    <3> HIDE DEF at
    <3>3. \A e \in chain[n] : e = at[Height(e.block)]
      BY <3>1, <3>2 DEF ChainInv, OneEntryPerHeight
    <3>4. at \in [0..top -> chain[n]]
      BY <3>1 DEF at
    <3>5. at \in Bijection(0..top, chain[n])
      BY <3>1, <3>2, <3>3, <3>4 DEF Bijection, Injection, Surjection, IsInjective
    <3>6. ExistsBijection(0..top, chain[n])
      BY <3>5 DEF ExistsBijection
    <3>7. IsFiniteSet(0..top) /\ Cardinality(0..top) = top + 1
      BY FS_Interval
    <3> QED BY <3>6, <3>7, FS_Bijection
  <2> QED BY <2>1, <2>2
<1> QED BY <1>1, TypeCorrect, ChainInvInvariant, PTL

-----------------------------------------------------------------------------
(***************************************************************************)
(* New blocks and their ancestors.                                         *)
(***************************************************************************)
\* What ProposeBlock makes: a block one above the one it builds on, whose other
\* ancestors are the ancestors of that block (Node.ProposeBlockLoop).
LEMMA NewBlockMeans ==
    ASSUME NEW p \in Nodes, NEW b \in Block, NEW cmds \in Batches
    PROVE  /\ NewBlock(p, b, cmds) \in Block
           /\ Height(NewBlock(p, b, cmds)) = Height(b) + 1
           /\ NewBlock(p, b, cmds)[Height(b) + 1].proposer = p
           /\ \A i \in 1..Height(b) : Ancestor(NewBlock(p, b, cmds), i) = Ancestor(b, i)
<1> DEFINE content == [proposer |-> p, cmds |-> cmds]
<1>1. content \in Content /\ content.proposer = p
  BY DEF Content
<1>2. b \in Seq(Content) /\ Len(b) \in Nat
  BY LenProperties DEF Block
<1> HIDE DEF content
<1>3. /\ Append(b, content) \in Seq(Content)
      /\ Len(Append(b, content)) = Len(b) + 1
      /\ Append(b, content)[Len(b) + 1] = content
  BY <1>1, <1>2, AppendProperties
<1>4. ASSUME NEW i \in 1..Len(b)
      PROVE  SubSeq(Append(b, content), 1, i) = SubSeq(b, 1, i)
  <2>1. Append(b, content) = b \o <<content>> /\ <<content>> \in Seq(Content)
    BY <1>1, <1>2, AppendIsConcat
  <2>2. SubSeq(b \o <<content>>, 1, i) = SubSeq(b, 1, i)
    BY <1>2, <2>1, SubSeqOfConcat1
  <2> QED BY <2>1, <2>2
<1> QED BY <1>1, <1>3, <1>4 DEF NewBlock, Block, Height, Ancestor, content

\* A block is its own ancestor, and an ancestor of an ancestor is one
\* (Node.CommitAncestorByBlockQC follows PreviousHash).
LEMMA AncestorsNest ==
    ASSUME NEW b \in Block
    PROVE  /\ Ancestor(b, Height(b)) = b
           /\ Ancestor(b, 0) = Genesis
           /\ \A i \in 1..Height(b) : \A j \in 1..i : Ancestor(Ancestor(b, i), j) = Ancestor(b, j)
<1>1. b \in Seq(Content) /\ Len(b) \in Nat
  BY LenProperties DEF Block
<1>2. SubSeq(b, 1, Len(b)) = b
  BY <1>1, SubSeqFull
<1>3. SubSeq(b, 1, 0) = << >>
  BY SubSeqEmpty
<1>4. ASSUME NEW i \in 1..Len(b), NEW j \in 1..i
      PROVE  SubSeq(SubSeq(b, 1, i), 1, j) = SubSeq(b, 1, j)
  <2>1. SubSeq(SubSeq(b, 1, i), 1, j) = SubSeq(b, 1 + 1 - 1, 1 + j - 1)
    BY <1>1, SubSeqOfSubSeq
  <2> QED BY <2>1
<1> QED BY <1>2, <1>3, <1>4 DEF Ancestor, Height, Genesis

\* The proposed blocks are blocks.
LEMMA ProposedType ==
    ASSUME TypeOK
    PROVE  proposedBlocks \subseteq Block
<1>1. ASSUME NEW n \in Nodes PROVE received(n) \subseteq Block
  BY DEF received, TypeOK, Message, Goroutine
<1> QED BY <1>1, ProposedMeans

-----------------------------------------------------------------------------
(***************************************************************************)
(* A proposer does not stall.  Either its value is in the channel, or it   *)
(* is about to propose, or the block it proposed last is one above its     *)
(* candidate chain and has reached it, or will.                            *)
(***************************************************************************)
\* A selected block is at the top of the candidate chain, unless the chain has
\* grown and woken the loop up since.
SelectedAtTop(n) ==
    \A b \in selected[n] :
        /\ Height(b) <= candidateHeight[n]
        /\ Height(b) < candidateHeight[n] => heightUpdates[n] >= 1

OwnBlockAbove(n) ==
    heightUpdates[n] = 0 /\ selected[n] = {} =>
        \E b \in received(n) : /\ Height(b) = candidateHeight[n] + 1
                               /\ b[Height(b)].proposer = n

LoopInv ==
    (\A p \in Nodes : Running(p)) =>
        \A n \in Proposers : SelectedAtTop(n) /\ OwnBlockAbove(n)

\* A step of another node, or of a handler that has nothing to do with the loop.
LEMMA LoopInvFrame ==
    ASSUME LoopInv, \A p \in Nodes : Running(p), NEW n \in Proposers,
           selected'[n] = selected[n], heightUpdates'[n] = heightUpdates[n],
           candidateHeight'[n] = candidateHeight[n],
           received(n) \subseteq received(n)'
    PROVE  SelectedAtTop(n)' /\ OwnBlockAbove(n)'
BY DEF LoopInv, SelectedAtTop, OwnBlockAbove

\* Every step keeps the invariant on the loops.
LEMMA LoopInvNext == TypeOK /\ LoopInv /\ [Next]_vars => LoopInv'
<1> SUFFICES ASSUME TypeOK, LoopInv, [Next]_vars, \A p \in Nodes : Running(p)',
                    NEW n \in Proposers
             PROVE  SelectedAtTop(n)' /\ OwnBlockAbove(n)'
  BY DEF LoopInv
<1>1. \A p \in Nodes : Running(p)
  <2>1. ASSUME NEW q \in Nodes, ProposeBlockLoop(q) \/ HandleMsgsLoop(q)
        PROVE  UNCHANGED status
    BY <2>1 DEF ProposeBlockLoop, selectBlock, ProposeBlock, LoseSortition, HandleMsgsLoop,
          handleNewBlockMsg, handleVoteMsg
  <2>2. ASSUME NEW q \in Nodes, Crash(q) \/ \E g \in go[q] : Resume(q, g)
        PROVE  /\ \A p \in Nodes \ {q} : status'[p] = status[p]
               /\ Running(q) \/ ~Running(q)'
    BY <2>2 DEF Crash, Resume, handleNewBlock, BroadcastVote, castVote, tryUpdateCandidateChain,
          tryExtendCandidateChain, checkIfQuorumVotes, buildBlockWithQC, handleNewBlockQC,
          CommitAncestorByBlockQC, tryExtendChain, TypeOK, Running
  <2>3. UNCHANGED vars => UNCHANGED status
    BY DEF vars
  <2> QED BY <2>1, <2>2, <2>3 DEF Next, Running
<1>2. Nodes \in Recipients /\ Recipients = {Nodes}
  BY <1>1 DEF Recipients, Alive, Running
<1>3. n \in Nodes /\ heightUpdates[n] \in Nat /\ candidateHeight[n] \in Nat
  BY ProposersAssumption DEF TypeOK
<1>4. ASSUME NEW q \in Nodes, ProposeBlockLoop(q), q # n
      PROVE  SelectedAtTop(n)' /\ OwnBlockAbove(n)'
  <2>1. /\ selected'[n] = selected[n]
        /\ UNCHANGED <<candidateHeight, pendingBlocks, go>>
        /\ heightUpdates'[n] = heightUpdates[n]
        /\ net[n] \subseteq net'[n]
    BY <1>3, <1>4 DEF ProposeBlockLoop, selectBlock, ProposeBlock, LoseSortition,
          candidateVars, broadcast, TypeOK
  <2>2. received(n) \subseteq received(n)'
    BY <2>1 DEF received
  <2> QED BY <1>1, <2>1, <2>2, LoopInvFrame
<1>5. CASE selectBlock(n)
  <2>1. PICK b \in candidateBlocks(n, candidateHeight[n]) : selected'[n] = {b}
    BY <1>3, <1>5 DEF selectBlock, TypeOK
  <2>2. Height(b) = candidateHeight[n]
    BY <1>3, <2>1, EmptySeq DEF candidateBlocks, AtHeight, Genesis, Height
  <2>3. UNCHANGED candidateHeight
    BY <1>5 DEF selectBlock, candidateVars
  <2> QED BY <1>3, <2>1, <2>2, <2>3 DEF SelectedAtTop, OwnBlockAbove
<1>6. CASE ProposeBlock(n)
  <2>1. PICK previous \in selected[n], cmds \in Batches, to \in Recipients :
            broadcast([type |-> "proposal", sender |-> n,
                       block |-> NewBlock(n, previous, cmds)], to)
    BY <1>6 DEF ProposeBlock
  <2> DEFINE new == NewBlock(n, previous, cmds)
             msg == [type |-> "proposal", sender |-> n, block |-> new]
  <2>2. net'[n] = net[n] \cup {msg}
    BY <1>2, <1>3, <2>1 DEF broadcast
  <2>3. msg.type = "proposal" /\ msg.block = new
    OBVIOUS
  <2>4. previous \in Block
    BY <1>3 DEF TypeOK
  <2>5. Height(new) = Height(previous) + 1 /\ new[Height(new)].proposer = n
    BY <1>3, <2>4, NewBlockMeans
  <2> HIDE DEF new, msg
  <2>6. new \in received(n)'
    BY <2>2, <2>3 DEF received
  <2>7. UNCHANGED <<candidateHeight, heightUpdates>> /\ selected'[n] = {}
    BY <1>3, <1>6 DEF ProposeBlock, candidateVars, TypeOK
  <2>8. heightUpdates[n] = 0 => Height(previous) = candidateHeight[n]
    <3>1. Height(previous) \in Nat
      BY <2>4, BlockProperties
    <3> QED BY <1>1, <1>3, <3>1 DEF LoopInv, SelectedAtTop
  <2> QED BY <2>5, <2>6, <2>7, <2>8 DEF SelectedAtTop, OwnBlockAbove
<1>7. CASE LoseSortition(n)
  <2>1. selected'[n] = {} /\ heightUpdates'[n] = heightUpdates[n] + 1
    BY <1>3, <1>7 DEF LoseSortition, TypeOK
  <2> QED BY <1>3, <2>1 DEF SelectedAtTop, OwnBlockAbove
<1>8. ASSUME NEW q \in Nodes, HandleMsgsLoop(q)
      PROVE  SelectedAtTop(n)' /\ OwnBlockAbove(n)'
  <2>1. UNCHANGED <<selected, heightUpdates, candidateHeight>>
    BY <1>8 DEF HandleMsgsLoop, handleNewBlockMsg, handleVoteMsg, candidateVars, loopVars
  <2> QED BY <1>1, <1>3, <1>8, <2>1, LoopInvFrame, MsgsKeepReceived
<1>9. ASSUME NEW q \in Nodes, NEW g \in go[q], Resume(q, g)
      PROVE  SelectedAtTop(n)' /\ OwnBlockAbove(n)'
  <2>1. received(n) \subseteq received(n)'
    BY <1>3, <1>9, HandlersKeepReceived
  <2>2. UNCHANGED selected
    BY <1>9 DEF Resume, handleNewBlock, BroadcastVote, castVote, tryUpdateCandidateChain,
          tryExtendCandidateChain, checkIfQuorumVotes, buildBlockWithQC, handleNewBlockQC,
          CommitAncestorByBlockQC, tryExtendChain, loopVars
  <2>3. CASE candidateHeight'[n] = candidateHeight[n] /\ heightUpdates'[n] = heightUpdates[n]
    BY <1>1, <2>1, <2>2, <2>3, LoopInvFrame
  <2>4. CASE ~(candidateHeight'[n] = candidateHeight[n] /\ heightUpdates'[n] = heightUpdates[n])
    <3>1. tryExtendCandidateChain(q, g)
      BY <1>9, <2>4 DEF Resume, handleNewBlock, BroadcastVote, castVote, tryUpdateCandidateChain,
            checkIfQuorumVotes, buildBlockWithQC, handleNewBlockQC,
            CommitAncestorByBlockQC, tryExtendChain, loopVars, candidateVars
    <3>2. /\ candidateHeight'[n] = candidateHeight[n] + 1
          /\ heightUpdates'[n] = heightUpdates[n] + 1
      BY <1>3, <2>4, <3>1 DEF tryExtendCandidateChain, TypeOK
    <3>3. \A b \in selected[n] : Height(b) \in Nat /\ Height(b) <= candidateHeight[n]
      BY <1>1, <1>3, BlockProperties DEF LoopInv, SelectedAtTop, TypeOK
    <3> QED BY <1>3, <2>2, <3>2, <3>3 DEF SelectedAtTop, OwnBlockAbove
  <2> QED BY <2>3, <2>4
<1>10. ASSUME NEW q \in Nodes, Crash(q) PROVE FALSE
  BY <1>10 DEF Crash, TypeOK, Running
<1>11. CASE UNCHANGED vars
  BY <1>1, <1>11, LoopInvFrame DEF vars, loopVars, candidateVars, received
<1> QED BY <1>4, <1>5, <1>6, <1>7, <1>8, <1>9, <1>10, <1>11 DEF Next, ProposeBlockLoop

\* While all nodes run, a proposer whose channel is empty and whose loop waits
\* has its own block on the way to it, one above its candidate chain.
THEOREM ProposersGoOn == Spec => []ProposerNeverStalls
<1>1. Init => LoopInv
  BY ProposersAssumption DEF Init, LoopInv, SelectedAtTop, OwnBlockAbove
<1>2. TypeOK /\ LoopInv => ProposerNeverStalls
  BY DEF LoopInv, OwnBlockAbove, ProposerNeverStalls, received
<1> QED BY <1>1, <1>2, TypeCorrect, LoopInvNext, PTL DEF Spec

-----------------------------------------------------------------------------
(***************************************************************************)
(* What holds of the blocks proposed and of the candidates, however many   *)
(* nodes propose.                                                          *)
(***************************************************************************)
\* A proposed block has been built on a proposed one, down to genesis.
AncestorsProposed ==
    \A b \in proposedBlocks : \A i \in 1..Height(b) : Ancestor(b, i) \in proposedBlocks

\* Each step proposes blocks on top of proposed ones only.
LEMMA AncestorsProposedInvariant == Spec => []AncestorsProposed
<1>1. Init => AncestorsProposed
  BY ProposedInit DEF AncestorsProposed
<1>2. TypeOK /\ ConsensusInv /\ AncestorsProposed /\ [Next]_vars => AncestorsProposed'
  <2> SUFFICES ASSUME TypeOK, ConsensusInv, AncestorsProposed, [Next]_vars
               PROVE  AncestorsProposed'
    OBVIOUS
  <2>1. CASE proposedBlocks' = proposedBlocks
    BY <2>1 DEF AncestorsProposed
  <2>2. CASE proposedBlocks' # proposedBlocks
    <3>1. PICK n \in Nodes : ProposeBlockLoop(n)
      BY <2>2, OthersKeepProposed DEF Next
    <3>2. PICK previous \in selected[n], cmds \in Batches :
              proposedBlocks' = proposedBlocks \cup {NewBlock(n, previous, cmds)}
      BY <2>2, <3>1, LoopProposes
    <3> DEFINE new == NewBlock(n, previous, cmds)
    <3>3. previous \in Block /\ previous \in proposedBlocks \cup {Genesis}
      BY DEF TypeOK, ConsensusInv, SelectedProposed
    <3>4. /\ new \in Block
          /\ Height(new) = Height(previous) + 1
          /\ \A i \in 1..Height(previous) : Ancestor(new, i) = Ancestor(previous, i)
          /\ Ancestor(new, Height(new)) = new
          /\ Height(previous) \in Nat
      BY <3>3, NewBlockMeans, AncestorsNest, BlockProperties
    <3>5. Height(Genesis) = 0
      BY EmptySeq DEF Height, Genesis
    <3> HIDE DEF new
    <3>6. ASSUME NEW i \in 1..Height(new) PROVE Ancestor(new, i) \in proposedBlocks'
      <4>1. CASE i = Height(new)
        BY <3>2, <3>4, <4>1 DEF new
      <4>2. CASE i # Height(new)
        <5>1. i \in 1..Height(previous)
          BY <3>4, <4>2
        <5>2. previous \in proposedBlocks
          BY <3>3, <3>5, <5>1
        <5> QED BY <3>2, <3>4, <5>1, <5>2 DEF AncestorsProposed
      <4> QED BY <4>1, <4>2
    <3> QED BY <3>2, <3>6 DEF AncestorsProposed, new
  <2> QED BY <2>1, <2>2
<1> QED BY <1>1, <1>2, TypeCorrect, ConsensusInvInvariant, PTL DEF Spec

\* The candidate chain has a block at each of its heights.
CandidatesFilled ==
    \A n \in Nodes : \A i \in 1..candidateHeight[n] : AtHeight(pendingBlocks[n], i) # {}

\* The candidate chain grows by one height at a time, when there is a block
\* (Node.tryExtendCandidateChain).
LEMMA CandidatesFilledInvariant == Spec => []CandidatesFilled
<1>1. Init => CandidatesFilled
  BY DEF Init, CandidatesFilled
<1>2. TypeOK /\ CandidatesFilled /\ [Next]_vars => CandidatesFilled'
  <2> SUFFICES ASSUME TypeOK, CandidatesFilled, [Next]_vars,
                      NEW m \in Nodes, NEW i \in 1..candidateHeight'[m]
               PROVE  AtHeight(pendingBlocks'[m], i) # {}
    BY DEF CandidatesFilled, AtHeight
  <2>1. CASE UNCHANGED candidateVars
    BY <2>1 DEF CandidatesFilled, candidateVars
  <2>2. ASSUME NEW n \in Nodes, NEW g \in go[n], handleNewBlock(n, g)
        PROVE  AtHeight(pendingBlocks'[m], i) # {}
    <3>1. pendingBlocks[m] \subseteq pendingBlocks'[m] /\ UNCHANGED candidateHeight
      BY <2>2 DEF handleNewBlock, TypeOK
    <3> QED BY <3>1 DEF CandidatesFilled, AtHeight
  <2>3. ASSUME NEW n \in Nodes, NEW g \in go[n], tryExtendCandidateChain(n, g)
        PROVE  AtHeight(pendingBlocks'[m], i) # {}
    <3>1. UNCHANGED pendingBlocks
      BY <2>3 DEF tryExtendCandidateChain
    <3>2. CASE i \in 1..candidateHeight[m]
      BY <3>1, <3>2 DEF CandidatesFilled
    <3>3. CASE i \notin 1..candidateHeight[m]
      <4>1. candidateHeight[m] \in Nat /\ candidateHeight'[m] # candidateHeight[m]
        BY <3>3 DEF TypeOK
      <4>2. /\ AtHeight(pendingBlocks[m], candidateHeight[m] + 1) # {}
            /\ candidateHeight'[m] = candidateHeight[m] + 1
        BY <2>3, <4>1 DEF tryExtendCandidateChain, TypeOK
      <4>3. i = candidateHeight[m] + 1
        BY <3>3, <4>1, <4>2
      <4> QED BY <3>1, <4>2, <4>3
    <3> QED BY <3>2, <3>3
  <2>4. ASSUME NEW n \in Nodes,
               \/ ProposeBlockLoop(n) \/ HandleMsgsLoop(n) \/ Crash(n)
               \/ \E g \in go[n] : /\ Resume(n, g)
                                  /\ ~handleNewBlock(n, g)
                                  /\ ~tryExtendCandidateChain(n, g)
        PROVE  UNCHANGED candidateVars
    BY <2>4 DEF ProposeBlockLoop, selectBlock, ProposeBlock, LoseSortition, HandleMsgsLoop,
          handleNewBlockMsg, handleVoteMsg, Crash, Resume, BroadcastVote, castVote,
          tryUpdateCandidateChain, checkIfQuorumVotes, buildBlockWithQC, handleNewBlockQC,
          CommitAncestorByBlockQC, tryExtendChain
  <2>5. UNCHANGED vars => UNCHANGED candidateVars
    BY DEF vars
  <2> QED BY <2>1, <2>2, <2>3, <2>4, <2>5 DEF Next
<1> QED BY <1>1, <1>2, TypeCorrect, PTL DEF Spec

\* What is in a chain is genesis or a proposed block (Node.ChainCertified).
LEMMA ChainsProposed ==
    ASSUME TypeOK, ConsensusInv, EntriesLinked, AncestorsProposed,
           NEW n \in Nodes, NEW e \in chain[n]
    PROVE  e.block \in Block /\ e.block \in proposedBlocks \cup {Genesis}
<1>1. e.block \in Block /\ e.qc \in Block
  BY DEF TypeOK, BlockWithQC
<1>2. e.qc \in proposedBlocks \cup {Genesis}
  BY DEF certified, ConsensusInv, CertifiedDecided, decidedBlocks
<1>3. Height(e.block) <= Height(e.qc) /\ e.block = Ancestor(e.qc, Height(e.block))
  BY DEF EntriesLinked
<1>4. Height(e.block) \in Nat /\ Height(e.qc) \in Nat
  BY <1>1, BlockProperties
<1>5. CASE Height(e.block) = 0
  BY <1>1, <1>5, BlockProperties
<1>6. CASE Height(e.block) # 0
  <2>1. Height(Genesis) = 0
    BY EmptySeq DEF Height, Genesis
  <2>2. e.qc \in proposedBlocks /\ Height(e.block) \in 1..Height(e.qc)
    BY <1>2, <1>3, <1>4, <1>6, <2>1
  <2> QED BY <1>1, <1>3, <2>2 DEF AncestorsProposed
<1> QED BY <1>5, <1>6

-----------------------------------------------------------------------------
(***************************************************************************)
(* A single proposer p.  Its loop owns one token, which is in the channel  *)
(* or with the block it selected; it gives the token up with a proposal,   *)
(* and gets it back only when its candidate chain reaches that proposal.   *)
(***************************************************************************)
OnlyLoop(p) == \A n \in Nodes \ {p} : selected[n] = {}

OneToken(p) ==
    /\ heightUpdates[p] <= 1
    /\ selected[p] # {} => heightUpdates[p] = 0

\* A selected block is at the top of the candidate chain.
SelectsTop(p) == \A b \in selected[p] : Height(b) = candidateHeight[p]

\* With the token in its hands, p has proposed nothing above its candidates;
\* without it, nothing but at the next height.
ProposesNext(p) ==
    \A b \in proposedBlocks :
        /\ Height(b) <= candidateHeight[p] + 1
        /\ heightUpdates[p] = 1 \/ selected[p] # {} => Height(b) <= candidateHeight[p]

SingleInv(p) ==
    OnlyLoop(p) /\ OneToken(p) /\ SelectsTop(p) /\ ProposesNext(p) /\ OneProposalPerHeight

\* The token is in the channel at first (NewNode).
LEMMA SingleInvInit == ASSUME NEW p \in Nodes PROVE Init => SingleInv(p)
BY ProposedInit DEF Init, SingleInv, OnlyLoop, OneToken, SelectsTop, ProposesNext,
   OneProposalPerHeight

\* Every step keeps the invariant, if p alone may propose.
LEMMA SingleInvNext ==
    ASSUME NEW p \in Nodes, Proposers \subseteq {p},
           TypeOK, SingleInv(p), [Next]_vars
    PROVE  SingleInv(p)'
<1>1. candidateHeight[p] \in Nat /\ heightUpdates[p] \in Nat
  BY DEF TypeOK
<1>2. \A b \in proposedBlocks : Height(b) \in Nat
  BY ProposedType, BlockProperties
<1>3. ASSUME UNCHANGED selected, proposedBlocks' = proposedBlocks,
             heightUpdates'[p] = heightUpdates[p], candidateHeight'[p] = candidateHeight[p]
      PROVE  SingleInv(p)'
  BY <1>3 DEF SingleInv, OnlyLoop, OneToken, SelectsTop, ProposesNext, OneProposalPerHeight
<1>4. ASSUME NEW n \in Nodes, selectBlock(n) PROVE SingleInv(p)'
  <2>1. n = p
    BY <1>4 DEF selectBlock
  <2>2. PICK b \in candidateBlocks(p, candidateHeight[p]) :
            selected' = [selected EXCEPT ![p] = {b}]
    BY <1>4, <2>1 DEF selectBlock
  <2>3. Height(b) = candidateHeight[p]
    BY <1>1, <2>2, EmptySeq DEF candidateBlocks, AtHeight, Genesis, Height
  <2>4. /\ heightUpdates[p] = 1 /\ heightUpdates'[p] = 0
        /\ UNCHANGED candidateHeight
    BY <1>1, <1>4, <2>1 DEF selectBlock, SingleInv, OneToken, candidateVars, TypeOK
  <2>5. selected'[p] = {b} /\ \A m \in Nodes \ {p} : selected'[m] = selected[m]
    BY <2>2 DEF TypeOK
  <2>6. proposedBlocks' = proposedBlocks
    BY <1>4 DEF selectBlock, candidateVars, proposedBlocks, received
  <2> QED BY <2>3, <2>4, <2>5, <2>6
          DEF SingleInv, OnlyLoop, OneToken, SelectsTop, ProposesNext, OneProposalPerHeight
<1>5. ASSUME NEW n \in Nodes, LoseSortition(n) PROVE SingleInv(p)'
  <2>1. n = p
    BY <1>5 DEF LoseSortition, SingleInv, OnlyLoop
  <2>2. /\ heightUpdates[p] = 0 /\ selected[p] # {} /\ heightUpdates'[p] = 1
        /\ selected'[p] = {} /\ \A m \in Nodes \ {p} : selected'[m] = selected[m]
        /\ UNCHANGED candidateHeight
    BY <1>5, <2>1 DEF LoseSortition, SingleInv, OneToken, candidateVars, TypeOK
  <2>3. proposedBlocks' = proposedBlocks
    BY <1>5 DEF LoseSortition, candidateVars, proposedBlocks, received
  <2> QED BY <2>2, <2>3
          DEF SingleInv, OnlyLoop, OneToken, SelectsTop, ProposesNext, OneProposalPerHeight
<1>6. ASSUME NEW n \in Nodes, ProposeBlock(n) PROVE SingleInv(p)'
  <2>1. selected[n] # {}
    BY <1>6 DEF ProposeBlock
  <2>2. n = p
    BY <2>1 DEF SingleInv, OnlyLoop
  <2>3. /\ heightUpdates[p] = 0 /\ heightUpdates'[p] = 0
        /\ selected'[p] = {} /\ \A m \in Nodes \ {p} : selected'[m] = selected[m]
        /\ UNCHANGED candidateHeight
    BY <1>6, <2>1, <2>2 DEF ProposeBlock, SingleInv, OneToken, candidateVars, TypeOK
  <2>4. \A b \in proposedBlocks : Height(b) <= candidateHeight[p]
    BY <2>1, <2>2 DEF SingleInv, ProposesNext
  <2>5. \A b \in proposedBlocks' \ proposedBlocks : Height(b) = candidateHeight[p] + 1
    <3>1. CASE proposedBlocks' = proposedBlocks
      BY <3>1
    <3>2. CASE proposedBlocks' # proposedBlocks
      <4>1. PICK previous \in selected[n], cmds \in Batches :
               proposedBlocks' = proposedBlocks \cup {NewBlock(n, previous, cmds)}
        BY <1>6, <3>2, LoopProposes DEF ProposeBlockLoop
      <4>2. Height(NewBlock(n, previous, cmds)) = Height(previous) + 1
        BY NewBlockMeans DEF TypeOK
      <4>3. Height(previous) = candidateHeight[p]
        BY <2>2 DEF SingleInv, SelectsTop
      <4> QED BY <4>1, <4>2, <4>3
    <3> QED BY <3>1, <3>2
  <2>6. \A b, c \in proposedBlocks' \ proposedBlocks : b = c
    BY <1>6, LoopProposes DEF ProposeBlockLoop
  <2>7. OneProposalPerHeight'
    BY <1>1, <1>2, <2>4, <2>5, <2>6 DEF SingleInv, OneProposalPerHeight
  <2>8. \A b \in proposedBlocks' : Height(b) <= candidateHeight[p] + 1
    BY <1>1, <1>2, <2>4, <2>5
  <2> QED BY <2>3, <2>7, <2>8 DEF SingleInv, OnlyLoop, OneToken, SelectsTop, ProposesNext
<1>7. ASSUME NEW n \in Nodes, HandleMsgsLoop(n) \/ Crash(n) PROVE SingleInv(p)'
  <2>1. UNCHANGED <<selected, heightUpdates, candidateHeight>>
    BY <1>7 DEF HandleMsgsLoop, handleNewBlockMsg, handleVoteMsg, Crash, candidateVars,
          loopVars
  <2> QED BY <1>3, <1>7, <2>1, OthersKeepProposed
<1>8. ASSUME NEW n \in Nodes, NEW g \in go[n], Resume(n, g) PROVE SingleInv(p)'
  <2>1. proposedBlocks' = proposedBlocks
    BY <1>8, OthersKeepProposed
  <2>2. UNCHANGED selected
    BY <1>8 DEF Resume, handleNewBlock, BroadcastVote, castVote, tryUpdateCandidateChain,
          tryExtendCandidateChain, checkIfQuorumVotes, buildBlockWithQC, handleNewBlockQC,
          CommitAncestorByBlockQC, tryExtendChain, loopVars
  <2>3. CASE heightUpdates'[p] = heightUpdates[p] /\ candidateHeight'[p] = candidateHeight[p]
    BY <1>3, <2>1, <2>2, <2>3
  <2>4. CASE ~(heightUpdates'[p] = heightUpdates[p] /\ candidateHeight'[p] = candidateHeight[p])
    <3>1. tryExtendCandidateChain(n, g)
      BY <1>8, <2>4 DEF Resume, handleNewBlock, BroadcastVote, castVote, tryUpdateCandidateChain,
            checkIfQuorumVotes, buildBlockWithQC, handleNewBlockQC,
            CommitAncestorByBlockQC, tryExtendChain, loopVars, candidateVars
    <3>2. /\ n = p
          /\ AtHeight(pendingBlocks[p], candidateHeight[p] + 1) # {}
          /\ candidateHeight'[p] = candidateHeight[p] + 1
          /\ heightUpdates'[p] = heightUpdates[p] + 1
      BY <2>4, <3>1 DEF tryExtendCandidateChain, TypeOK
    <3>3. \E b \in proposedBlocks : Height(b) = candidateHeight[p] + 1
      <4>1. PICK b \in pendingBlocks[p] : Height(b) = candidateHeight[p] + 1
        BY <3>2 DEF AtHeight
      <4>2. b \in received(p)
        BY DEF received
      <4> QED BY <4>1, <4>2, ProposedMeans
    <3>4. heightUpdates[p] # 1 /\ selected[p] = {}
      BY <1>1, <3>3 DEF SingleInv, ProposesNext
    <3>5. heightUpdates[p] = 0
      BY <1>1, <3>4 DEF SingleInv, OneToken
    <3>6. ProposesNext(p)'
      BY <1>1, <1>2, <2>1, <3>2 DEF SingleInv, ProposesNext
    <3> QED BY <2>1, <2>2, <3>2, <3>4, <3>5, <3>6
            DEF SingleInv, OnlyLoop, OneToken, SelectsTop, OneProposalPerHeight
  <2> QED BY <2>3, <2>4
<1>9. CASE UNCHANGED vars
  BY <1>3, <1>9, OthersKeepProposed DEF vars, loopVars, candidateVars
<1> QED BY <1>4, <1>5, <1>6, <1>7, <1>8, <1>9 DEF Next, ProposeBlockLoop

\* A cluster with one proposer has one proposal at each height, although the
\* proposer selects a block and proposes in steps of their own, which its
\* handlers get between.
THEOREM SingleProposals ==
    ASSUME NEW p \in Nodes, Proposers \subseteq {p}
    PROVE  Spec => []OneProposalPerHeight
<1>1. Init => SingleInv(p)
  BY SingleInvInit
<1>2. TypeOK /\ SingleInv(p) /\ [Next]_vars => SingleInv(p)'
  BY SingleInvNext
<1>3. SingleInv(p) => OneProposalPerHeight
  BY DEF SingleInv
<1> QED BY <1>1, <1>2, <1>3, TypeCorrect, PTL DEF Spec

\* With one proposal at each height, the nodes commit the same blocks: what a
\* chain holds is an ancestor of a proposed block, which is a proposed one.
THEOREM SingleAgreement ==
    ASSUME NEW p \in Nodes, Proposers \subseteq {p}
    PROVE  Spec => []Agreement
<1>1. TypeOK /\ ConsensusInv /\ EntriesLinked /\ AncestorsProposed /\ OneProposalPerHeight
        => Agreement
  <2> SUFFICES ASSUME TypeOK, ConsensusInv, EntriesLinked, AncestorsProposed,
                      OneProposalPerHeight, NEW m \in Nodes, NEW n \in Nodes,
                      NEW e \in chain[m], NEW f \in chain[n],
                      Height(e.block) = Height(f.block)
               PROVE  e.block = f.block
    BY DEF Agreement
  <2>1. /\ e.block \in Block /\ e.block \in proposedBlocks \cup {Genesis}
        /\ f.block \in Block /\ f.block \in proposedBlocks \cup {Genesis}
    BY ChainsProposed
  <2>2. CASE e.block = Genesis \/ f.block = Genesis
    <3>1. Height(Genesis) = 0
      BY EmptySeq DEF Height, Genesis
    <3> QED BY <2>1, <2>2, <3>1, BlockProperties
  <2>3. CASE e.block # Genesis /\ f.block # Genesis
    BY <2>1, <2>3 DEF OneProposalPerHeight
  <2> QED BY <2>2, <2>3
<1>2. Spec => []EntriesLinked
  BY EntriesLinkedInvariant
<1> QED BY <1>1, <1>2, TypeCorrect, ConsensusInvInvariant, AncestorsProposedInvariant,
           SingleProposals, PTL

\* Below each block of a chain its parent is in the chain, although
\* tryExtendChain does not look at PreviousHash: the chain has no holes, and
\* there is no other block for the height below.
THEOREM SingleAncestorsCommitted ==
    ASSUME NEW p \in Nodes, Proposers \subseteq {p}
    PROVE  Spec => []AncestorsCommitted
<1>1. TypeOK /\ ConsensusInv /\ EntriesLinked /\ AncestorsProposed /\ OneProposalPerHeight
        /\ ChainInv => AncestorsCommitted
  <2> SUFFICES ASSUME TypeOK, ConsensusInv, EntriesLinked, AncestorsProposed,
                      OneProposalPerHeight, ChainInv,
                      NEW n \in Nodes, NEW e \in chain[n], Height(e.block) > 0
               PROVE  \E f \in chain[n] : f.block = Previous(e.block)
    BY DEF AncestorsCommitted
  <2> DEFINE below == Height(e.block) - 1
  <2>1. e.block \in Block /\ e.block \in proposedBlocks \cup {Genesis}
    BY ChainsProposed
  <2>2. Height(e.block) \in Nat /\ below \in Nat
    BY <2>1, BlockProperties
  <2>3. PICK top \in Nat : heights(n) = 0..top
    BY DEF ChainInv, HeightsFilled
  <2>4. below \in heights(n)
    <3>1. Height(e.block) \in 0..top
      BY <2>3 DEF heights
    <3> QED BY <2>2, <2>3, <3>1
  <2>5. PICK f \in chain[n] : Height(f.block) = below
    BY <2>4 DEF heights
  <2>6. f.block \in Block /\ f.block \in proposedBlocks \cup {Genesis}
    BY ChainsProposed
  <2>7. Previous(e.block) = Ancestor(e.block, below)
    BY DEF Previous
  <2>8. Height(Ancestor(e.block, below)) = below
    BY <2>1, <2>2, AncestorProperties
  <2>9. CASE below = 0
    <3>1. f.block = Genesis
      BY <2>5, <2>6, <2>9, BlockProperties
    <3>2. Ancestor(e.block, 0) = Genesis
      BY <2>1, AncestorsNest
    <3> QED BY <2>7, <2>9, <3>1, <3>2
  <2>10. CASE below # 0
    <3>1. Height(Genesis) = 0
      BY EmptySeq DEF Height, Genesis
    <3>2. e.block \in proposedBlocks /\ f.block \in proposedBlocks
      <4>1. e.block # Genesis
        BY <3>1
      <4>2. f.block # Genesis
        BY <2>5, <2>10, <3>1
      <4> QED BY <2>1, <2>6, <4>1, <4>2
    <3>3. below \in 1..Height(e.block)
      BY <2>2, <2>10
    <3>4. Ancestor(e.block, below) \in proposedBlocks
      BY <3>2, <3>3 DEF AncestorsProposed
    <3> QED BY <2>5, <2>7, <2>8, <3>2, <3>4 DEF OneProposalPerHeight
  <2> QED BY <2>9, <2>10
<1>2. Spec => []EntriesLinked /\ []ChainInv
  BY EntriesLinkedInvariant, ChainInvInvariant
<1> QED BY <1>1, <1>2, TypeCorrect, ConsensusInvInvariant, AncestorsProposedInvariant,
           SingleProposals, PTL

\* The blocks of the chains are genesis and proposed blocks (Node.ChainsGrow).
ChainsOfProposed ==
    \A n \in Nodes : \A e \in chain[n] :
        e.block \in Block /\ e.block \in proposedBlocks \cup {Genesis}

\* What a write takes out of a chain has the height of a block that it puts
\* there, so that no height is lost (Node.Written).
LEMMA WritersKeepHeights ==
    ASSUME TypeOK, [Next]_vars, NEW n \in Nodes, NEW e \in chain[n]
    PROVE  \E f \in chain'[n] : Height(f.block) = Height(e.block)
<1>1. ASSUME NEW entries, chain'[n] = Written(n, entries)
      PROVE  \E f \in chain'[n] : Height(f.block) = Height(e.block)
  BY <1>1 DEF Written
<1>2. ASSUME NEW g \in go[n], CommitAncestorByBlockQC(n, g) \/ tryExtendChain(n, g)
      PROVE  chain'[n] = chain[n] \/ \E entries : chain'[n] = Written(n, entries)
  BY <1>2 DEF CommitAncestorByBlockQC, tryExtendChain, chainVars, TypeOK
<1> QED BY <1>1, <1>2, ChainWriters

\* A committed block stays committed: the two writers of the chain may write at
\* its height again, but there is no other proposed block to write.
THEOREM SingleChainsGrow ==
    ASSUME NEW p \in Nodes, Proposers \subseteq {p}
    PROVE  Spec => ChainsGrow
<1>1. TypeOK /\ ConsensusInv /\ EntriesLinked /\ AncestorsProposed => ChainsOfProposed
  BY ChainsProposed DEF ChainsOfProposed
<1>2. ASSUME TypeOK, ChainsOfProposed, ChainsOfProposed', OneProposalPerHeight', [Next]_vars
      PROVE  \A n \in Nodes :
                {e.block : e \in chain[n]} \subseteq {e.block : e \in chain'[n]}
  <2> SUFFICES ASSUME NEW n \in Nodes, NEW e \in chain[n]
               PROVE  \E f \in chain'[n] : f.block = e.block
    OBVIOUS
  <2>1. PICK f \in chain'[n] : Height(f.block) = Height(e.block)
    BY <1>2, WritersKeepHeights
  <2>2. e.block \in Block /\ e.block \in proposedBlocks' \cup {Genesis}
    BY <1>2, ProposedGrows DEF ChainsOfProposed
  <2>3. f.block \in Block /\ f.block \in proposedBlocks' \cup {Genesis}
    BY <1>2 DEF ChainsOfProposed
  <2>4. CASE e.block = Genesis \/ f.block = Genesis
    <3>1. Height(Genesis) = 0
      BY EmptySeq DEF Height, Genesis
    <3> QED BY <2>1, <2>2, <2>3, <2>4, <3>1, BlockProperties
  <2>5. CASE e.block # Genesis /\ f.block # Genesis
    BY <1>2, <2>1, <2>2, <2>3, <2>5 DEF OneProposalPerHeight
  <2> QED BY <2>4, <2>5
<1>3. Spec => []EntriesLinked
  BY EntriesLinkedInvariant
<1> QED BY <1>1, <1>2, <1>3, TypeCorrect, ConsensusInvInvariant,
           AncestorsProposedInvariant, SingleProposals, PTL DEF Spec, ChainsGrow

\* The walk of CommitAncestorByBlockQC down from a block with a QC never meets a
\* missing block: the candidate chain has a block at each height on the way,
\* which is the ancestor, there being no other.
THEOREM SingleAncestorsFound ==
    ASSUME NEW p \in Nodes, Proposers \subseteq {p}
    PROVE  Spec => []AncestorsAreCandidates
<1>1. Init => AncestorsAreCandidates
  BY DEF Init, AncestorsAreCandidates
<1>2. TypeOK /\ ConsensusInv /\ AncestorsProposed /\ OneProposalPerHeight /\ CandidatesFilled
        /\ AncestorsAreCandidates /\ [Next]_vars => AncestorsAreCandidates'
  <2> SUFFICES ASSUME TypeOK, ConsensusInv, AncestorsProposed, OneProposalPerHeight,
                      CandidatesFilled, AncestorsAreCandidates, [Next]_vars,
                      NEW m \in Nodes, status'[m] = "nilDeref"
               PROVE  FALSE
    BY DEF AncestorsAreCandidates
  <2>1. status[m] # "nilDeref"
    BY DEF AncestorsAreCandidates
  <2>2. PICK g \in go[m] : CommitAncestorByBlockQC(m, g)
    <3>1. ASSUME NEW n \in Nodes, ProposeBlockLoop(n) \/ HandleMsgsLoop(n)
          PROVE  UNCHANGED status
      BY <3>1 DEF ProposeBlockLoop, selectBlock, ProposeBlock, LoseSortition, HandleMsgsLoop,
            handleNewBlockMsg, handleVoteMsg
    <3>2. ASSUME NEW n \in Nodes, Crash(n)
          PROVE  \A q \in Nodes : status'[q] = status[q] \/ status'[q] = "crashed"
      BY <3>2 DEF Crash, TypeOK
    <3>3. ASSUME NEW n \in Nodes, NEW g \in go[n], Resume(n, g),
                 ~(n = m /\ CommitAncestorByBlockQC(n, g))
          PROVE  status'[m] = status[m] \/ status'[m] \in {"lockLeaked", "recoverPanic"}
      BY <3>3 DEF Resume, handleNewBlock, BroadcastVote, castVote, tryUpdateCandidateChain,
            tryExtendCandidateChain, checkIfQuorumVotes, buildBlockWithQC,
            handleNewBlockQC, CommitAncestorByBlockQC, tryExtendChain, TypeOK
    <3>4. UNCHANGED vars => UNCHANGED status
      BY DEF vars
    <3> QED BY <2>1, <3>1, <3>2, <3>3, <3>4 DEF Next
  <2> DEFINE b == g.block
             top == Height(b) - 1
  <2>3. ~NothingToCommit(m, b) /\ MissingAncestors(m, b) # {}
    BY <2>1, <2>2 DEF CommitAncestorByBlockQC
  <2>4. PICK i \in chainHeight[m] + 1 .. Height(b) - 2 :
            Ancestor(b, i) \notin candidateBlocks(m, i)
    BY <2>3 DEF MissingAncestors
  <2>5. /\ b \in Block /\ Height(b) \in Nat
        /\ chainHeight[m] \in Nat /\ candidateHeight[m] \in Nat
    BY BlockProperties DEF TypeOK, Goroutine
  <2>6. i \in Nat /\ i >= 1 /\ i < top /\ i \in 1..Height(b) /\ top > 0
    BY <2>4, <2>5
  <2>7. i \in 1..candidateHeight[m]
    <3>1. candidateBlocks(m, top) # {}
      BY <2>3 DEF NothingToCommit
    <3>2. top \in 1..candidateHeight[m]
      <4> HIDE DEF top
      <4> QED BY <2>6, <3>1 DEF candidateBlocks
    <3> QED BY <2>5, <2>6, <3>2
  <2>8. b \in proposedBlocks
    <3>1. b \in certified(m)
      BY <2>2 DEF CommitAncestorByBlockQC, certified
    <3>2. b # Genesis
      BY <2>5, <2>6, EmptySeq DEF Genesis, Height
    <3> QED BY <3>1, <3>2 DEF ConsensusInv, CertifiedDecided, decidedBlocks
  <2>9. Ancestor(b, i) \in proposedBlocks /\ Height(Ancestor(b, i)) = i
    BY <2>5, <2>6, <2>8, AncestorProperties DEF AncestorsProposed
  <2>10. PICK c \in pendingBlocks[m] : Height(c) = i
    BY <2>7 DEF CandidatesFilled, AtHeight
  <2>11. c \in proposedBlocks
    <3>1. c \in received(m)
      BY DEF received
    <3> QED BY <3>1, ProposedMeans
  <2>12. c = Ancestor(b, i)
    BY <2>9, <2>10, <2>11 DEF OneProposalPerHeight
  <2>13. c \in candidateBlocks(m, i)
    BY <2>6, <2>7, <2>10 DEF candidateBlocks, AtHeight
  <2> QED BY <2>4, <2>12, <2>13
<1> QED BY <1>1, <1>2, TypeCorrect, ConsensusInvInvariant, AncestorsProposedInvariant,
           SingleProposals, CandidatesFilledInvariant, PTL DEF Spec
=============================================================================
