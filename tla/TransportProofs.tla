--------------------------- MODULE TransportProofs ---------------------------
(***************************************************************************)
(* Proofs about Transport, for any number of peers, broadcasts and         *)
(* inbound connections and every limit of the pool.                        *)
(***************************************************************************)
EXTENDS Transport, TLAPS

\* The limit of the pool does not matter to the types, nor does any failure.
THEOREM TransportTypes == Spec => []TypeOK
<1>1. Init => TypeOK
  <2> SUFFICES ASSUME Init PROVE TypeOK
    OBVIOUS
  <2>1. msgCh \in 0..1
    BY DEF Init
  <2>2. /\ connPool \in [Targets -> SUBSET NetConn] /\ open \subseteq NetConn
        /\ todo \in [Broadcasts -> SUBSET Targets]
        /\ inUse \in [Broadcasts -> SUBSET NetConn]
    BY DEF Init
  <2>3. written \in [Broadcasts -> BOOLEAN] /\ listening \in BOOLEAN /\ shutdown \in BOOLEAN
    BY Zenon DEF Init
  <2>4. handler \in [Inbound -> {"none", "reading", "sending"}]
    BY DEF Init
  <2> QED BY <2>1, <2>2, <2>3, <2>4 DEF TypeOK
<1>2. TypeOK /\ [Next]_vars => TypeOK'
  <2> SUFFICES ASSUME TypeOK, [Next]_vars PROVE TypeOK'
    OBVIOUS
  <2> USE DEF TypeOK
  <2>1. ASSUME NEW b \in Broadcasts, broadcast(b) PROVE TypeOK'
    BY <2>1 DEF broadcast, inboundVars
  <2>2. ASSUME NEW b \in Broadcasts, NEW t \in Targets, ReuseConn(b, t) PROVE TypeOK'
    BY <2>2 DEF ReuseConn, inboundVars
  <2>3. ASSUME NEW b \in Broadcasts, NEW t \in Targets, dialConn(b, t) PROVE TypeOK'
    <3>1. UNCHANGED <<connPool, written, listening, handler, msgCh, shutdown>>
      BY <2>3 DEF dialConn, inboundVars
    <3>2. CASE UNCHANGED <<open, inUse>>
      BY <2>3, <3>1, <3>2 DEF dialConn
    <3>3. CASE ~UNCHANGED <<open, inUse>>
      <4>1. PICK i \in Ids : /\ open' = open \cup {[id |-> i, target |-> t]}
                             /\ inUse' = [inUse EXCEPT ![b] = {[id |-> i, target |-> t]}]
                             /\ UNCHANGED todo
        BY <2>3, <3>3 DEF dialConn
      <4>2. [id |-> i, target |-> t] \in NetConn
        BY DEF NetConn
      <4> QED BY <3>1, <4>1, <4>2
    <3> QED BY <3>2, <3>3
  <2>4. ASSUME NEW b \in Broadcasts, SendMsg(b) PROVE TypeOK'
    BY <2>4 DEF SendMsg, inboundVars
  <2>5. ASSUME NEW b \in Broadcasts, SendMsgFails(b) PROVE TypeOK'
    BY <2>5 DEF SendMsgFails, inboundVars
  <2>6. ASSUME NEW b \in Broadcasts, ReturnConn(b) PROVE TypeOK'
    BY <2>6 DEF ReturnConn, inboundVars
  <2>7. ASSUME NEW i \in Inbound, Accept(i) \/ handleConn(i) PROVE TypeOK'
    BY <2>7 DEF Accept, handleConn, ReadMsg, ReadFails, handleMsg, outbound
  <2>8. CASE AcceptFails
    <3>1. listening' \in BOOLEAN
      BY <2>8, Zenon DEF AcceptFails
    <3> QED BY <2>8, <3>1 DEF AcceptFails, outbound
  <2>9. CASE TakeMsg
    BY <2>9 DEF TakeMsg, outbound
  <2>10. CASE Close
    <3>1. shutdown' \in BOOLEAN
      BY <2>10, Zenon DEF Close
    <3> QED BY <2>10, <3>1 DEF Close, outbound, inboundVars
  <2>11. CASE UNCHANGED vars
    BY <2>11 DEF vars, outbound, inboundVars
  <2> QED BY <2>1, <2>2, <2>3, <2>4, <2>5, <2>6, <2>7, <2>8, <2>9, <2>10, <2>11 DEF Next, SendLoop
<1> QED BY <1>1, <1>2, PTL DEF Spec

-----------------------------------------------------------------------------
(***************************************************************************)
(* Each open connection has one owner: a pool, or a broadcast.             *)
(***************************************************************************)
\* The pool of a peer holds connections to that peer.
PooledByTarget == \A t \in Targets : \A c \in connPool[t] : c.target = t

\* A broadcast has at most one connection, and has written to it at most.
OneInUse ==
    \A b \in Broadcasts : /\ \A c, d \in inUse[b] : c = d
                          /\ written[b] => inUse[b] # {}

ConnInv == PooledByTarget /\ OneInUse /\ NoSharedConn /\ NoConnLeak

\* NoConnLeak, connection by connection.
LEMMA NoConnLeakMeans ==
    /\ NoConnLeak <=> \A c : c \in open <=> \/ \E t \in Targets : c \in connPool[t]
                                            \/ \E b \in Broadcasts : c \in inUse[b]
    /\ NoConnLeak' <=> \A c : c \in open' <=> \/ \E t \in Targets : c \in connPool'[t]
                                              \/ \E b \in Broadcasts : c \in inUse'[b]
BY DEF NoConnLeak

\* There is no connection at first (NewNetworkTransport).
LEMMA ConnInvInit == Init => ConnInv
BY NoConnLeakMeans DEF Init, ConnInv, PooledByTarget, OneInUse, NoSharedConn

\* GetConn moves a connection out of the pool.
LEMMA ReuseKeepsOwners ==
    ASSUME TypeOK, ConnInv, NEW b \in Broadcasts, NEW t \in Targets, ReuseConn(b, t)
    PROVE  ConnInv'
<1>1. PICK c \in connPool[t] : /\ inUse' = [inUse EXCEPT ![b] = {c}]
                               /\ connPool' = [connPool EXCEPT ![t] = @ \ {c}]
  BY DEF ReuseConn
<1>2. UNCHANGED <<open, written>> /\ inUse[b] = {}
  BY DEF ReuseConn
<1>3. /\ inUse'[b] = {c} /\ \A a \in Broadcasts \ {b} : inUse'[a] = inUse[a]
      /\ connPool'[t] = connPool[t] \ {c}
      /\ \A u \in Targets \ {t} : connPool'[u] = connPool[u]
  BY <1>1 DEF TypeOK
<1>4. c.target = t
  BY DEF ConnInv, PooledByTarget
<1>5. \A u \in Targets : c \notin connPool'[u]
  BY <1>3, <1>4 DEF ConnInv, PooledByTarget
<1>6. PooledByTarget' /\ OneInUse'
  BY <1>2, <1>3 DEF ConnInv, PooledByTarget, OneInUse
<1>7. NoSharedConn'
  BY <1>3, <1>5 DEF ConnInv, NoSharedConn
<1>8. NoConnLeak'
  BY <1>2, <1>3, NoConnLeakMeans DEF ConnInv
<1> QED BY <1>6, <1>7, <1>8 DEF ConnInv

\* dialConn makes a connection that nobody else can have.
LEMMA DialKeepsOwners ==
    ASSUME TypeOK, ConnInv, NEW b \in Broadcasts, NEW t \in Targets, dialConn(b, t)
    PROVE  ConnInv'
<1>1. UNCHANGED <<connPool, written>> /\ inUse[b] = {}
  BY DEF dialConn
<1>2. CASE UNCHANGED <<open, inUse>>
  BY <1>1, <1>2 DEF ConnInv, PooledByTarget, OneInUse, NoSharedConn, NoConnLeak
<1>3. CASE ~UNCHANGED <<open, inUse>>
  <2>1. PICK i \in Ids : /\ \A c \in open : c.id # i
                         /\ open' = open \cup {[id |-> i, target |-> t]}
                         /\ inUse' = [inUse EXCEPT ![b] = {[id |-> i, target |-> t]}]
    BY <1>3 DEF dialConn
  <2> DEFINE new == [id |-> i, target |-> t]
  <2>2. new \notin open
    BY <2>1
  <2> HIDE DEF new
  <2>3. inUse'[b] = {new} /\ \A a \in Broadcasts \ {b} : inUse'[a] = inUse[a]
    BY <2>1 DEF TypeOK, new
  <2>4. open' = open \cup {new}
    BY <2>1 DEF new
  <2>5. /\ \A u \in Targets : new \notin connPool[u]
        /\ \A a \in Broadcasts : new \notin inUse[a]
    BY <2>2, NoConnLeakMeans DEF ConnInv
  <2>6. PooledByTarget' /\ OneInUse'
    BY <1>1, <2>3 DEF ConnInv, PooledByTarget, OneInUse
  <2>7. NoSharedConn'
    BY <1>1, <2>3, <2>5 DEF ConnInv, NoSharedConn
  <2>8. NoConnLeak'
    BY <1>1, <2>3, <2>4, NoConnLeakMeans DEF ConnInv
  <2> QED BY <2>6, <2>7, <2>8 DEF ConnInv
<1> QED BY <1>2, <1>3

\* SendMsg at an error, and ReturnConn without room in the pool, close the
\* connection that the broadcast has.
LEMMA CloseKeepsOwners ==
    ASSUME TypeOK, ConnInv, NEW b \in Broadcasts,
           UNCHANGED connPool, open' = open \ inUse[b],
           inUse' = [inUse EXCEPT ![b] = {}],
           \A a \in Broadcasts : written'[a] => written[a] /\ a # b
    PROVE  ConnInv'
<1>1. inUse'[b] = {} /\ \A a \in Broadcasts \ {b} : inUse'[a] = inUse[a]
  BY DEF TypeOK
<1>2. PooledByTarget' /\ OneInUse' /\ NoSharedConn'
  BY <1>1 DEF ConnInv, PooledByTarget, OneInUse, NoSharedConn
<1>3. ASSUME NEW c \in inUse[b]
      PROVE  /\ \A t \in Targets : c \notin connPool'[t]
             /\ \A a \in Broadcasts : c \notin inUse'[a]
  BY <1>1 DEF ConnInv, NoSharedConn
<1>4. NoConnLeak'
  BY <1>1, <1>3, NoConnLeakMeans DEF ConnInv
<1> QED BY <1>2, <1>4 DEF ConnInv

\* ReturnConn gives the connection back to the pool of its peer, or closes it.
LEMMA ReturnKeepsOwners ==
    ASSUME TypeOK, ConnInv, NEW b \in Broadcasts, ReturnConn(b)
    PROVE  ConnInv'
<1>1. PICK c \in inUse[b] :
          \/ /\ connPool' = [connPool EXCEPT ![c.target] = @ \cup {c}]
             /\ UNCHANGED open
          \/ open' = open \ {c} /\ UNCHANGED connPool
  BY DEF ReturnConn
<1>2. inUse' = [inUse EXCEPT ![b] = {}] /\ written' = [written EXCEPT ![b] = FALSE]
  BY DEF ReturnConn
<1>3. inUse[b] = {c}
  BY DEF ConnInv, OneInUse
<1>4. \A a \in Broadcasts : written'[a] => written[a] /\ a # b
  BY <1>2 DEF TypeOK
<1>5. CASE open' = open \ {c} /\ UNCHANGED connPool
  BY <1>2, <1>3, <1>4, <1>5, CloseKeepsOwners
<1>6. CASE connPool' = [connPool EXCEPT ![c.target] = @ \cup {c}] /\ UNCHANGED open
  <2>1. c.target \in Targets
    BY DEF TypeOK, NetConn
  <2>2. /\ connPool'[c.target] = connPool[c.target] \cup {c}
        /\ \A u \in Targets \ {c.target} : connPool'[u] = connPool[u]
        /\ inUse'[b] = {} /\ \A a \in Broadcasts \ {b} : inUse'[a] = inUse[a]
    BY <1>2, <1>6, <2>1 DEF TypeOK
  <2>3. \A a \in Broadcasts : c \notin inUse'[a]
    BY <1>3, <2>2 DEF ConnInv, NoSharedConn
  <2>4. PooledByTarget' /\ OneInUse'
    BY <1>4, <2>2 DEF ConnInv, PooledByTarget, OneInUse
  <2>5. NoSharedConn'
    <3>1. \A a, d \in Broadcasts : a # d => inUse'[a] \cap inUse'[d] = {}
      BY <2>2 DEF ConnInv, NoSharedConn
    <3>2. ASSUME NEW a \in Broadcasts, NEW u \in Targets
          PROVE  inUse'[a] \cap connPool'[u] = {}
      <4>1. inUse'[a] \subseteq inUse[a] /\ connPool'[u] \subseteq connPool[u] \cup {c}
        BY <2>2
      <4> QED BY <2>3, <4>1 DEF ConnInv, NoSharedConn
    <3> QED BY <3>1, <3>2 DEF NoSharedConn
  <2>6. NoConnLeak'
    <3>1. \A x : (\E u \in Targets : x \in connPool'[u])
                    <=> x = c \/ \E u \in Targets : x \in connPool[u]
      BY <2>1, <2>2
    <3>2. \A x : (\E a \in Broadcasts : x \in inUse[a])
                    <=> x = c \/ \E a \in Broadcasts : x \in inUse'[a]
      BY <1>3, <2>2
    <3> QED BY <1>6, <3>1, <3>2, NoConnLeakMeans DEF ConnInv
  <2> QED BY <2>4, <2>5, <2>6 DEF ConnInv
<1> QED BY <1>1, <1>5, <1>6

\* Every step keeps the connections with their owners.
LEMMA ConnInvNext == TypeOK /\ ConnInv /\ [Next]_vars => ConnInv'
<1> SUFFICES ASSUME TypeOK, ConnInv, [Next]_vars PROVE ConnInv'
  OBVIOUS
<1>1. CASE UNCHANGED <<connPool, open, inUse, written>>
  BY <1>1 DEF ConnInv, PooledByTarget, OneInUse, NoSharedConn, NoConnLeak
<1>2. ASSUME NEW b \in Broadcasts, broadcast(b)
      PROVE  UNCHANGED <<connPool, open, inUse, written>>
  BY <1>2 DEF broadcast
<1>3. ASSUME NEW b \in Broadcasts, SendMsg(b) PROVE ConnInv'
  BY <1>3 DEF SendMsg, ConnInv, PooledByTarget, OneInUse, NoSharedConn, NoConnLeak, TypeOK
<1>4. ASSUME NEW b \in Broadcasts, SendMsgFails(b) PROVE ConnInv'
  <2>1. \A a \in Broadcasts : written'[a] => written[a] /\ a # b
    BY <1>4 DEF SendMsgFails
  <2> QED BY <1>4, <2>1, CloseKeepsOwners DEF SendMsgFails
<1>5. ASSUME NEW i \in Inbound, Accept(i) \/ handleConn(i)
      PROVE  UNCHANGED <<connPool, open, inUse, written>>
  BY <1>5 DEF Accept, handleConn, ReadMsg, ReadFails, handleMsg, outbound
<1>6. AcceptFails \/ TakeMsg \/ Close => UNCHANGED <<connPool, open, inUse, written>>
  BY DEF AcceptFails, TakeMsg, Close, outbound
<1>7. UNCHANGED vars => UNCHANGED <<connPool, open, inUse, written>>
  BY DEF vars, outbound
<1> QED BY <1>1, <1>2, <1>3, <1>4, <1>5, <1>6, <1>7, ReuseKeepsOwners, DialKeepsOwners,
           ReturnKeepsOwners DEF Next, SendLoop

\* The invariant holds in every reachable state.
LEMMA ConnInvInvariant == Spec => []ConnInv
BY ConnInvInit, ConnInvNext, TransportTypes, PTL DEF Spec

\* No two broadcasts write to one connection, and none to a connection that the
\* pool may hand to another.
THEOREM ConnsNotShared == Spec => []NoSharedConn
<1>1. ConnInv => NoSharedConn
  BY DEF ConnInv
<1> QED BY <1>1, ConnInvInvariant, PTL

\* Every open connection can still be used or closed, whichever call fails.
THEOREM ConnsNotLeaked == Spec => []NoConnLeak
<1>1. ConnInv => NoConnLeak
  BY DEF ConnInv
<1> QED BY <1>1, ConnInvInvariant, PTL
=============================================================================
