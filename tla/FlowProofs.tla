------------------------------ MODULE FlowProofs ------------------------------
(***************************************************************************)
(* Proofs about Flow, for any cluster, any capacity of the buffers and any *)
(* number of rounds and crashes.                                           *)
(***************************************************************************)
EXTENDS Flow, FiniteSetTheorems, FunctionTheorems, SequenceTheorems, TLAPS

\* What a broadcast has to send.
Msg == [to : Nodes, tag : Tags]

\* A connection that has not taken more messages than it has room for.
Buffer == {q \in Seq(Tags) : Len(q) <= Capacity}

\* The same as TypeOK, with the domains of all the functions.
FlowInv ==
    /\ alive \subseteq Nodes
    /\ rounds \in [Proposers -> 0..Rounds]
    /\ sending \in [Nodes -> [Conns -> Seq(Msg)]]
    /\ buffered \in [Nodes -> [Nodes -> [Conns -> Buffer]]]
    /\ msgCh \in [Nodes -> SUBSET Tags]
    /\ ballots \in [Nodes -> Nat]
    /\ waiting \in [Nodes -> Nat]
    /\ proposed \in Nat
    /\ handled \in [Nodes -> Nat]

LEMMA FlowInvTypes == FlowInv => TypeOK
<1> SUFFICES ASSUME FlowInv PROVE TypeOK
  OBVIOUS
<1>1. ASSUME NEW n \in Nodes, NEW c \in Conns
      PROVE  sending[n][c] \in Seq([to : Nodes, tag : Tags])
  BY DEF FlowInv, Msg
<1>2. ASSUME NEW n \in Nodes, NEW c \in Conns, NEW p \in Nodes
      PROVE  buffered[n][p][c] \in Seq(Tags) /\ Len(buffered[n][p][c]) <= Capacity
  <2>1. buffered[n][p][c] \in Buffer
    BY DEF FlowInv
  <2> QED BY <2>1 DEF Buffer
<1> QED BY <1>1, <1>2 DEF FlowInv, TypeOK

\* A broadcast sends its message to each of the nodes.
LEMMA BroadcastTypes ==
    ASSUME FlowInv, NEW n \in Nodes, NEW c \in Conns, NEW tag \in Tags, broadcast(n, c, tag)
    PROVE  sending' \in [Nodes -> [Conns -> Seq(Msg)]]
<1>1. PICK order \in Bijection(1..Cardinality(Nodes), Nodes) :
          sending' = [sending EXCEPT ![n][c] =
                        [i \in DOMAIN order |-> [to |-> order[i], tag |-> tag]]]
  BY DEF broadcast
<1>2. Cardinality(Nodes) \in Nat
  BY FlowAssumption, FS_CardinalityType
<1>3. order \in [1..Cardinality(Nodes) -> Nodes]
  BY DEF Bijection, Injection
<1>4. PICK msgs : msgs = [i \in DOMAIN order |-> [to |-> order[i], tag |-> tag]]
  OBVIOUS
<1>5. \A i \in 1..Cardinality(Nodes) : [to |-> order[i], tag |-> tag] \in Msg
  BY <1>3 DEF Msg
<1>6. msgs \in [1..Cardinality(Nodes) -> Msg]
  BY <1>3, <1>4, <1>5
<1>7. msgs \in Seq(Msg)
  BY <1>2, <1>6
<1>8. sending' = [sending EXCEPT ![n][c] = msgs]
  BY <1>1, <1>4
<1> QED BY <1>7, <1>8 DEF FlowInv

\* A message goes on from a broadcast to a connection that has room for it.
LEMMA SendMsgTypes ==
    ASSUME FlowInv, NEW n \in Nodes, NEW c \in Conns, SendMsg(n, c)
    PROVE  FlowInv'
<1> DEFINE m == Head(sending[n][c])
           old == buffered[n][m.to][c]
<1>1. sending[n][c] \in Seq(Msg) /\ sending[n][c] # <<>>
  BY DEF SendMsg, FlowInv
<1>2. m \in Msg /\ Tail(sending[n][c]) \in Seq(Msg)
  BY <1>1, HeadTailProperties
<1>3. m.to \in Nodes /\ m.tag \in Tags
  BY <1>2 DEF Msg
<1>4. /\ Len(old) < Capacity
      /\ buffered' = [buffered EXCEPT ![n][m.to][c] = Append(old, m.tag)]
      /\ sending' = [sending EXCEPT ![n][c] = Tail(sending[n][c])]
  BY DEF SendMsg
<1>5. old \in Seq(Tags)
  BY <1>3 DEF FlowInv, Buffer
<1>6. Append(old, m.tag) \in Buffer
  <2>1. Append(old, m.tag) \in Seq(Tags) /\ Len(Append(old, m.tag)) = Len(old) + 1
    BY <1>3, <1>5, AppendProperties
  <2>2. Len(old) \in Nat
    BY <1>5, LenProperties
  <2> HIDE DEF old, m
  <2> QED BY <1>4, <2>1, <2>2, FlowAssumption DEF Buffer
<1> HIDE DEF m, old
<1>7. buffered' \in [Nodes -> [Nodes -> [Conns -> Buffer]]]
  BY <1>3, <1>4, <1>6 DEF FlowInv
<1>8. sending' \in [Nodes -> [Conns -> Seq(Msg)]]
  BY <1>2, <1>4 DEF FlowInv
<1> QED BY <1>7, <1>8 DEF SendMsg, FlowInv

\* handleMsg takes a message out of a connection.
LEMMA HandleMsgTypes ==
    ASSUME FlowInv, NEW n \in Nodes, NEW p \in Nodes, NEW c \in Conns, handleMsg(n, p, c)
    PROVE  FlowInv'
<1> DEFINE old == buffered[p][n][c]
<1>1. old \in Seq(Tags) /\ Len(old) <= Capacity /\ old # <<>>
  BY DEF handleMsg, FlowInv, Buffer
<1>2. /\ msgCh' = [msgCh EXCEPT ![n] = {Head(old)}]
      /\ buffered' = [buffered EXCEPT ![p][n][c] = Tail(old)]
  BY DEF handleMsg
<1> HIDE DEF old
<1>3. Head(old) \in Tags /\ Tail(old) \in Seq(Tags) /\ Len(Tail(old)) = Len(old) - 1
  BY <1>1, HeadTailProperties
<1>4. Len(old) \in Nat
  BY <1>1, LenProperties
<1>5. Tail(old) \in Buffer
  BY <1>1, <1>3, <1>4, FlowAssumption DEF Buffer
<1>6. buffered' \in [Nodes -> [Nodes -> [Conns -> Buffer]]]
  BY <1>2, <1>5 DEF FlowInv
<1>7. msgCh' \in [Nodes -> SUBSET Tags]
  BY <1>2, <1>3 DEF FlowInv
<1> QED BY <1>6, <1>7 DEF handleMsg, FlowInv

\* No connection takes more messages than its buffers have room for, and a count
\* of goroutines goes down only when there is one, so that none is below zero.
THEOREM FlowTypes == Spec => []TypeOK
<1>1. Init => FlowInv
  <2> SUFFICES ASSUME Init PROVE FlowInv
    OBVIOUS
  <2>1. <<>> \in Seq(Msg) /\ <<>> \in Buffer
    BY EmptySeq, FlowAssumption DEF Buffer
  <2>2. rounds \in [Proposers -> 0..Rounds]
    BY FlowAssumption DEF Init
  <2>3. sending \in [Nodes -> [Conns -> Seq(Msg)]]
    BY <2>1 DEF Init
  <2>4. buffered \in [Nodes -> [Nodes -> [Conns -> Buffer]]]
    BY <2>1 DEF Init
  <2> QED BY <2>2, <2>3, <2>4 DEF Init, FlowInv
<1>2. FlowInv /\ [Next]_vars => FlowInv'
  <2> SUFFICES ASSUME FlowInv, [Next]_vars PROVE FlowInv'
    OBVIOUS
  <2>1. ASSUME NEW n \in Nodes, ProposeBlockLoop(n) PROVE FlowInv'
    <3>1. rounds' \in [Proposers -> 0..Rounds]
      BY <2>1, FlowAssumption DEF ProposeBlockLoop, FlowInv
    <3>2. sending' \in [Nodes -> [Conns -> Seq(Msg)]]
      BY <2>1, BroadcastTypes DEF ProposeBlockLoop, Conns, Tags
    <3>3. proposed' \in Nat
      BY <2>1 DEF ProposeBlockLoop, FlowInv
    <3> QED BY <2>1, <3>1, <3>2, <3>3 DEF ProposeBlockLoop, FlowInv
  <2>2. ASSUME NEW n \in Nodes, BroadcastVote(n) PROVE FlowInv'
    <3>1. ballots' \in [Nodes -> Nat]
      BY <2>2 DEF BroadcastVote, FlowInv
    <3>2. sending' \in [Nodes -> [Conns -> Seq(Msg)]]
      BY <2>2, BroadcastTypes DEF BroadcastVote, Conns, Tags
    <3> QED BY <2>2, <3>1, <3>2 DEF BroadcastVote, FlowInv
  <2>3. ASSUME NEW n \in Nodes, NEW c \in Conns, SendMsgFails(n, c) PROVE FlowInv'
    <3>1. sending[n][c] \in Seq(Msg) /\ sending[n][c] # <<>>
      BY <2>3 DEF SendMsgFails, FlowInv
    <3>2. Tail(sending[n][c]) \in Seq(Msg) /\ <<>> \in Seq(Msg)
      BY <3>1, HeadTailProperties, EmptySeq
    <3>3. PICK left \in {<<>>, Tail(sending[n][c])} :
              sending' = [sending EXCEPT ![n][c] = left]
      BY <2>3 DEF SendMsgFails
    <3>4. left \in Seq(Msg)
      BY <3>2, <3>3
    <3>5. sending' \in [Nodes -> [Conns -> Seq(Msg)]]
      BY <3>3, <3>4 DEF FlowInv
    <3> QED BY <2>3, <3>5 DEF SendMsgFails, FlowInv
  <2>4. ASSUME NEW n \in Nodes, HandleMsgsLoop(n) PROVE FlowInv'
    <3>1. PICK tag \in msgCh[n] : StartHandler(n, tag)
      BY <2>4 DEF HandleMsgsLoop
    <3>2. /\ ballots' \in [Nodes -> Nat] /\ waiting' \in [Nodes -> Nat]
          /\ handled' \in [Nodes -> Nat]
      BY <3>1 DEF StartHandler, FlowInv
    <3>3. msgCh' \in [Nodes -> SUBSET Tags]
      BY <2>4 DEF HandleMsgsLoop, FlowInv
    <3> QED BY <2>4, <3>2, <3>3 DEF HandleMsgsLoop, FlowInv
  <2>5. ASSUME NEW n \in Nodes, handleVoteMsg(n) PROVE FlowInv'
    BY <2>5 DEF handleVoteMsg, FlowInv
  <2>6. ASSUME NEW n, Crash(n) PROVE FlowInv'
    BY <2>6 DEF Crash, FlowInv
  <2>7. CASE UNCHANGED vars
    BY <2>7 DEF vars, FlowInv
  <2>8. alive \subseteq Nodes
    BY DEF FlowInv
  <2> QED BY <2>1, <2>2, <2>3, <2>4, <2>5, <2>6, <2>7, <2>8, SendMsgTypes, HandleMsgTypes
          DEF Next, Step
<1> QED BY <1>1, <1>2, FlowInvTypes, PTL DEF Spec
=============================================================================
