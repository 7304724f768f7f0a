-------------------------- MODULE SortitionProofs --------------------------
(***************************************************************************)
(* Proofs about Sortition, for every cluster and every value of the        *)
(* bounds.                                                                 *)
(***************************************************************************)
EXTENDS Sortition, FiniteSetTheorems, TLAPS

\* The draws of a height and a round that n knows of are no more losers than
\* those among a larger set of draws.
LEMMA LosersMonotone ==
    ASSUME NEW S \in SUBSET Draw, NEW T \in SUBSET S, NEW h, NEW r
    PROVE  /\ Losers(T, h, r) \subseteq Losers(S, h, r)
           /\ Cardinality(Losers(S, h, r)) \in Nat
           /\ Cardinality(Losers(T, h, r)) \in Nat
           /\ Cardinality(Losers(T, h, r)) <= Cardinality(Losers(S, h, r))
<1>1. Losers(T, h, r) \subseteq Losers(S, h, r) /\ Losers(S, h, r) \subseteq Nodes
  BY ProposersAssumption DEF Losers, Draw
<1>2. IsFiniteSet(Losers(S, h, r))
  BY <1>1, NodesAssumption, FS_Subset
<1>3. IsFiniteSet(Losers(T, h, r))
  BY <1>1, <1>2, FS_Subset
<1> QED BY <1>1, <1>2, <1>3, FS_Subset, FS_CardinalityType

\* quorumNum is a number.
LEMMA QuorumType == quorumNum \in Int
BY NodesAssumption, FS_CardinalityType DEF quorumNum, QuorumOf

-----------------------------------------------------------------------------
\* The type invariant holds initially.
LEMMA TypeInit == Init => TypeOK
BY BoundsAssumption DEF Init, TypeOK

\* A draw keeps the types, and adds the height to those the node has opened.
LEMMA DrawType ==
    ASSUME TypeOK, NEW n \in Nodes, NEW d \in Draw, draw(n, d)
    PROVE  opened' \in [Nodes -> SUBSET Heights] /\ selected' \in [Nodes -> SUBSET Heights]
BY DEF draw, Draw, TypeOK

\* Every step of the sortition keeps the types.
LEMMA TypeNext == TypeOK /\ [Next]_vars => TypeOK'
<1> SUFFICES ASSUME TypeOK, [Next]_vars PROVE TypeOK'
  OBVIOUS
<1>1. ASSUME NEW n \in Proposers, NEW d \in Draw, Win(n, d)
      PROVE  TypeOK'
  <2>1. n \in Nodes /\ draw(n, d)
    BY <1>1, ProposersAssumption DEF Win
  <2> QED BY <1>1, <2>1, DrawType DEF Win, TypeOK
<1>2. ASSUME NEW n \in Proposers, NEW d \in Draw, Lose(n, d)
      PROVE  TypeOK'
  <2>1. n \in Nodes /\ draw(n, d)
    BY <1>2, ProposersAssumption DEF Lose
  <2> QED BY <1>2, <2>1, DrawType DEF Lose, TypeOK
<1>3. ASSUME NEW n \in Nodes, NEW d \in net[n], handleSortitionMsg(n, d)
      PROVE  TypeOK'
  <2>1. d \in Draw /\ d.height \in Heights
    BY DEF TypeOK, Draw
  <2> QED BY <1>3, <2>1 DEF handleSortitionMsg, TypeOK
<1>4. ASSUME NEW n \in Nodes, BlockArrives(n)
      PROVE  TypeOK'
  BY <1>4, BoundsAssumption DEF BlockArrives, TypeOK
<1>5. ASSUME NEW n \in Proposers, selectBlock(n)
      PROVE  TypeOK'
  <2>1. n \in Nodes /\ nextHeight[n] \in Heights /\ heightUpdates[n] - 1 \in Nat
    BY <1>5, ProposersAssumption, BoundsAssumption DEF selectBlock, Heights, TypeOK
  <2> QED BY <1>5, <2>1 DEF selectBlock, TypeOK
<1>6. CASE UNCHANGED vars
  BY <1>6 DEF vars, TypeOK
<1> QED BY <1>1, <1>2, <1>3, <1>4, <1>5, <1>6 DEF Next, ProposeBlockLoop

\* The variables have their types (the maps of NewNode and the channel).
THEOREM TypeCorrect == Spec => []TypeOK
BY TypeInit, TypeNext, PTL DEF Spec

-----------------------------------------------------------------------------
\* What a node knows, or is about to be told, are the draws that lost.
AnnouncedLost == \A n \in Nodes : net[n] \cup sortitionResult[n] = lost

RoundsInv == AnnouncedLost /\ RoundNeedsQuorum

\* The result of a draw, whether it wins or loses, keeps the invariant: the
\* node draws in round 2 or above on the word of a quorum of losers.
LEMMA DrawNeedsQuorum ==
    ASSUME TypeOK, RoundsInv, NEW n \in Nodes, NEW d \in Draw, draw(n, d),
           d.round >= 2
    PROVE  Cardinality(Losers(lost, d.height, d.round - 1)) >= quorumNum
<1>1. d.height \in opened[n] /\ d.round - 1 \in QuorumRounds(n, d.height)
  BY DEF draw, NextRound, QuorumRounds, Rounds, Draw
<1>2. /\ Cardinality(Losers(sortitionResult[n], d.height, d.round - 1)) >= quorumNum
      /\ sortitionResult[n] \subseteq lost
      /\ lost \in SUBSET Draw
  BY <1>1 DEF QuorumRounds, RoundsInv, AnnouncedLost, TypeOK
<1> QED BY <1>2, LosersMonotone, QuorumType

\* Losing draws are never forgotten, so what a quorum lost stays lost.
LEMMA MoreLosers ==
    ASSUME TypeOK, TypeOK', RoundNeedsQuorum, lost \subseteq lost',
           \A d \in (won' \cup lost') \ (won \cup lost) :
              d.round >= 2 => Cardinality(Losers(lost, d.height, d.round - 1)) >= quorumNum
    PROVE  RoundNeedsQuorum'
<1> SUFFICES ASSUME NEW d \in won' \cup lost', d.round >= 2
             PROVE  Cardinality(Losers(lost', d.height, d.round - 1)) >= quorumNum
  BY DEF RoundNeedsQuorum, drawn
<1>1. Cardinality(Losers(lost, d.height, d.round - 1)) >= quorumNum
  BY DEF RoundNeedsQuorum, drawn
<1>2. lost \in SUBSET lost' /\ lost' \in SUBSET Draw
  BY DEF TypeOK
<1> QED BY <1>1, <1>2, LosersMonotone, QuorumType

\* Every step of the sortition keeps the invariant.
LEMMA RoundsInvNext == TypeOK /\ RoundsInv /\ [Next]_vars => RoundsInv'
<1> SUFFICES ASSUME TypeOK, RoundsInv, [Next]_vars PROVE RoundsInv'
  OBVIOUS
<1>0. TypeOK'
  BY TypeNext
<1>1. ASSUME NEW n \in Proposers, NEW d \in Draw, Win(n, d)
      PROVE  RoundsInv'
  <2>1. n \in Nodes /\ draw(n, d)
    BY <1>1, ProposersAssumption DEF Win
  <2>2. won' = won \cup {d} /\ lost' = lost
    BY <1>1 DEF Win
  <2>3. RoundNeedsQuorum'
    BY <1>0, <2>1, <2>2, DrawNeedsQuorum, MoreLosers DEF RoundsInv
  <2> QED BY <1>1, <2>3 DEF Win, RoundsInv, AnnouncedLost
<1>2. ASSUME NEW n \in Proposers, NEW d \in Draw, Lose(n, d)
      PROVE  RoundsInv'
  <2>1. n \in Nodes /\ draw(n, d)
    BY <1>2, ProposersAssumption DEF Lose
  <2>2. won' = won /\ lost' = lost \cup {d}
    BY <1>2 DEF Lose
  <2>3. RoundNeedsQuorum'
    BY <1>0, <2>1, <2>2, DrawNeedsQuorum, MoreLosers DEF RoundsInv
  <2>4. AnnouncedLost'
    BY <1>2 DEF Lose, RoundsInv, AnnouncedLost, TypeOK
  <2> QED BY <2>3, <2>4 DEF RoundsInv
<1>3. ASSUME NEW n \in Nodes, NEW d \in net[n], handleSortitionMsg(n, d)
      PROVE  RoundsInv'
  <2>1. d \in lost
    BY DEF RoundsInv, AnnouncedLost
  <2>2. AnnouncedLost'
    BY <1>3, <2>1 DEF handleSortitionMsg, RoundsInv, AnnouncedLost, TypeOK
  <2>3. RoundNeedsQuorum'
    BY <1>3 DEF handleSortitionMsg, RoundsInv, RoundNeedsQuorum, drawn
  <2> QED BY <2>2, <2>3 DEF RoundsInv
<1>4. ASSUME NEW n \in Nodes, BlockArrives(n)
      PROVE  RoundsInv'
  BY <1>4 DEF BlockArrives, RoundsInv, AnnouncedLost, RoundNeedsQuorum, drawn
<1>5. ASSUME NEW n \in Proposers, selectBlock(n)
      PROVE  RoundsInv'
  BY <1>5 DEF selectBlock, RoundsInv, AnnouncedLost, RoundNeedsQuorum, drawn
<1>6. CASE UNCHANGED vars
  BY <1>6 DEF vars, RoundsInv, AnnouncedLost, RoundNeedsQuorum, drawn
<1> QED BY <1>1, <1>2, <1>3, <1>4, <1>5, <1>6 DEF Next, ProposeBlockLoop

\* From round 2 on, nobody draws before a quorum has lost the round before
\* (Node.ProposeBlockLoop counts the results that handleSortitionMsg keeps).
THEOREM RoundsNeedQuorums == Spec => []RoundNeedsQuorum
<1>1. Init => RoundsInv
  BY DEF Init, RoundsInv, AnnouncedLost, RoundNeedsQuorum, drawn
<1>2. RoundsInv => RoundNeedsQuorum
  BY DEF RoundsInv
<1> QED BY <1>1, <1>2, RoundsInvNext, TypeCorrect, PTL DEF Spec

\* Two nodes that have handled what was announced to them, in whatever order,
\* are in the same round of a height that both know (Node.handleSortitionMsg).
THEOREM RoundsMeet == Spec => []RoundsConverge
<1>1. RoundsInv => RoundsConverge
  <2> SUFFICES ASSUME RoundsInv, NEW m \in Nodes, NEW n \in Nodes, net[m] \cup net[n] = {},
                      NEW h \in opened[m] \cap opened[n]
               PROVE  NextRound(m, h) = NextRound(n, h)
    BY DEF RoundsConverge
  <2>1. sortitionResult[m] = lost /\ sortitionResult[n] = lost
    BY DEF RoundsInv, AnnouncedLost
  <2> QED BY <2>1 DEF NextRound, QuorumRounds
<1>2. Init => RoundsInv
  BY DEF Init, RoundsInv, AnnouncedLost, RoundNeedsQuorum, drawn
<1> QED BY <1>1, <1>2, RoundsInvNext, TypeCorrect, PTL DEF Spec

\* With fewer proposers than votes in a quorum, no quorum ever loses a round, so
\* that nobody gets beyond round 1 (Node.ProposeBlockLoop counts the results
\* against n.quorumNum): a height whose rounds 0 and 1 are lost stays without
\* a block.
THEOREM FewProposersStayBelow ==
    ASSUME Cardinality(Proposers) < quorumNum
    PROVE  Spec => [](\A d \in drawn : d.round <= 1)
<1>1. TypeOK /\ RoundNeedsQuorum => \A d \in drawn : d.round <= 1
  <2> SUFFICES ASSUME TypeOK, RoundNeedsQuorum, NEW d \in drawn, d.round >= 2 PROVE FALSE
    BY DEF TypeOK, drawn, Draw, Rounds
  <2>1. Losers(lost, d.height, d.round - 1) \in SUBSET Proposers
    BY DEF Losers, TypeOK, Draw
  <2>2. IsFiniteSet(Proposers)
    BY ProposersAssumption, NodesAssumption, FS_Subset
  <2>3. /\ Cardinality(Losers(lost, d.height, d.round - 1)) <= Cardinality(Proposers)
        /\ Cardinality(Losers(lost, d.height, d.round - 1)) \in Nat
        /\ Cardinality(Proposers) \in Nat
    BY <2>1, <2>2, FS_Subset, FS_CardinalityType
  <2>4. Cardinality(Losers(lost, d.height, d.round - 1)) >= quorumNum
    BY DEF RoundNeedsQuorum
  <2> QED BY <2>3, <2>4, QuorumType
<1> QED BY <1>1, TypeCorrect, RoundsNeedQuorums, PTL

-----------------------------------------------------------------------------
\* What a node knows about the rounds only grows.
LEMMA ResultsGrow ==
    ASSUME TypeOK, [Next]_vars, NEW n \in Nodes
    PROVE  sortitionResult[n] \subseteq sortitionResult'[n] /\ opened[n] \subseteq opened'[n]
<1>1. ASSUME NEW m \in Proposers, NEW d \in Draw, Win(m, d) \/ Lose(m, d)
      PROVE  sortitionResult' = sortitionResult /\ opened[n] \subseteq opened'[n]
  BY <1>1 DEF Win, Lose, draw, TypeOK
<1>2. ASSUME NEW m \in Nodes, NEW d \in net[m], handleSortitionMsg(m, d)
      PROVE  sortitionResult[n] \subseteq sortitionResult'[n] /\ opened[n] \subseteq opened'[n]
  BY <1>2 DEF handleSortitionMsg, TypeOK
<1>3. ASSUME NEW m \in Nodes, BlockArrives(m)
      PROVE  sortitionResult' = sortitionResult /\ opened' = opened
  BY <1>3 DEF BlockArrives
<1>4. ASSUME NEW m \in Proposers, selectBlock(m)
      PROVE  sortitionResult' = sortitionResult /\ opened' = opened
  BY <1>4 DEF selectBlock
<1> QED BY <1>1, <1>2, <1>3, <1>4 DEF Next, ProposeBlockLoop, vars

\* A step never takes the round back that a node draws in.
LEMMA NextRoundGrows ==
    ASSUME TypeOK, TypeOK', [Next]_vars, NEW n \in Nodes, NEW h \in Heights,
           NEW r \in NextRound(n, h), NEW q \in NextRound(n, h)'
    PROVE  r <= q
<1>1. QuorumRounds(n, h) \subseteq QuorumRounds(n, h)'
  <2>1. sortitionResult[n] \in SUBSET sortitionResult'[n] /\ sortitionResult'[n] \in SUBSET Draw
    BY ResultsGrow DEF TypeOK
  <2>2. \A k \in Rounds :
           Cardinality(Losers(sortitionResult[n], h, k)) >= quorumNum
           => Cardinality(Losers(sortitionResult'[n], h, k)) >= quorumNum
    <3>1. \A S \in SUBSET Draw : \A T \in SUBSET S : \A k \in Rounds :
             Cardinality(Losers(T, h, k)) >= quorumNum
             => Cardinality(Losers(S, h, k)) >= quorumNum
      BY LosersMonotone, QuorumType
    <3> QED BY <2>1, <3>1
  <2> QED BY <2>2 DEF QuorumRounds
<1>2. \A x \in QuorumRounds(n, h)' \cup {0} : x \in Nat
  BY DEF QuorumRounds, Rounds
<1>3. CASE h \notin opened[n]
  BY <1>2, <1>3 DEF NextRound
<1>4. CASE h \in opened[n]
  <2>1. PICK x \in QuorumRounds(n, h) \cup {0} : r = x + 1
    BY <1>4 DEF NextRound
  <2>2. h \in opened'[n]
    BY <1>4, ResultsGrow
  <2>3. PICK y \in QuorumRounds(n, h)' \cup {0} :
            q = y + 1 /\ \A z \in QuorumRounds(n, h)' : z <= y
    BY <2>2 DEF NextRound
  <2> QED BY <1>1, <1>2, <2>1, <2>3
<1> QED BY <1>3, <1>4

\* The round of a node at a height never falls (Node.ProposeBlockLoop takes the
\* largest round that a quorum lost, out of a map that only grows).
THEOREM RoundsNeverFall == Spec => RoundsGoUp
<1>1. TypeOK /\ [Next]_vars =>
        [\A n \in Nodes : \A h \in Heights :
            \A r \in NextRound(n, h), q \in NextRound(n, h)' : r <= q]_vars
  BY TypeNext, NextRoundGrows
<1> QED BY <1>1, TypeCorrect, PTL DEF Spec, RoundsGoUp
=============================================================================
