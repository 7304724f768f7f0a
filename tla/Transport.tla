----------------------------- MODULE Transport -----------------------------
(***************************************************************************)
(* The connections of one NetworkTransport (conn/net_transport.go,         *)
(* conn/net_conn.go) and the broadcasts that use them (core/node.go        *)
(* broadcast).                                                             *)
(*                                                                         *)
(* Outbound: a broadcast runs in a goroutine, of which there are several   *)
(* at a time.  It takes a connection to each peer in turn from the pool,   *)
(* or dials, writes the message to it and gives it back.  Writing is not   *)
(* atomic, so a connection has to be in the hands of one broadcast.        *)
(*                                                                         *)
(* Inbound: the listener starts a handler for each connection; it reads a  *)
(* message, and waits until the node takes it from msgCh.                  *)
(***************************************************************************)
EXTENDS Integers, FiniteSets

CONSTANTS
    Targets,     \* the addresses of the cluster
    Broadcasts,  \* goroutines that broadcast
    MaxPool,     \* how many idle connections to a peer are kept
    Ids,         \* bound: identities of outbound connections, used anew
    Inbound      \* bound: the connections that peers may open

ASSUME PoolAssumption == MaxPool \in Nat

VARIABLES
    connPool,    \* connPool[t]: the idle connections to t
    open,        \* the outbound connections that are not closed
    todo,        \* todo[b]: the peers that broadcast b has to send to
    inUse,       \* inUse[b]: the connection b got for the peer it is at
    written,     \* whether b has written its message to that connection
    listening,   \* whether listen is in its loop
    handler,     \* handler[i]: what the handler of connection i does
    msgCh,       \* the number of messages in msgCh, whose capacity is 1
    shutdown     \* whether shutdownCh is closed

outbound == <<connPool, open, todo, inUse, written>>
inboundVars == <<listening, handler, msgCh>>
vars == <<outbound, inboundVars, shutdown>>

NetConn == [id : Ids, target : Targets]

Init ==
    /\ connPool = [t \in Targets |-> {}]
    /\ open = {}
    /\ todo = [b \in Broadcasts |-> {}]
    /\ inUse = [b \in Broadcasts |-> {}]
    /\ written = [b \in Broadcasts |-> FALSE]
    /\ listening = TRUE
    /\ handler = [i \in Inbound |-> "none"]
    /\ msgCh = 0
    /\ shutdown = FALSE

-----------------------------------------------------------------------------
broadcast(b) ==
    /\ todo[b] = {}
    /\ todo' = [todo EXCEPT ![b] = Targets]
    /\ UNCHANGED <<connPool, open, inUse, written, inboundVars, shutdown>>

\* Faulty variant (NoSharedConn): leaves the connection in the pool.
ReuseConnInPool(b, t) ==
    /\ inUse[b] = {}
    /\ t \in todo[b]
    /\ \E c \in connPool[t] : inUse' = [inUse EXCEPT ![b] = {c}]
    /\ UNCHANGED <<connPool, open, todo, written, inboundVars, shutdown>>

\* GetConn, if the pool has a connection to t; its last one, in the code.
ReuseConn(b, t) ==
    /\ inUse[b] = {}
    /\ t \in todo[b]
    /\ \E c \in connPool[t] :
          /\ inUse' = [inUse EXCEPT ![b] = {c}]
          /\ connPool' = [connPool EXCEPT ![t] = @ \ {c}]
    /\ UNCHANGED <<open, todo, written, inboundVars, shutdown>>

\* GetConn, if it has none: dialConn succeeds, or the broadcast gives up.
dialConn(b, t) ==
    /\ inUse[b] = {}
    /\ t \in todo[b]
    /\ connPool[t] = {}
    /\ \/ \E i \in Ids :
             /\ \A c \in open : c.id # i
             /\ open' = open \cup {[id |-> i, target |-> t]}
             /\ inUse' = [inUse EXCEPT ![b] = {[id |-> i, target |-> t]}]
             /\ UNCHANGED todo
       \/ /\ todo' = [todo EXCEPT ![b] = {}]
          /\ UNCHANGED <<open, inUse>>
    /\ UNCHANGED <<connPool, written, inboundVars, shutdown>>

SendMsg(b) ==
    /\ inUse[b] # {} /\ ~written[b]
    /\ written' = [written EXCEPT ![b] = TRUE]
    /\ UNCHANGED <<connPool, open, todo, inUse, inboundVars, shutdown>>

\* Faulty variant (NoConnLeak): does not close the connection.
SendMsgFailsOpen(b) ==
    /\ inUse[b] # {} /\ ~written[b]
    /\ inUse' = [inUse EXCEPT ![b] = {}]
    /\ todo' = [todo EXCEPT ![b] = {}]
    /\ UNCHANGED <<connPool, open, written, inboundVars, shutdown>>

\* SendMsg releases the connection at an error, and the broadcast gives up.
SendMsgFails(b) ==
    /\ inUse[b] # {} /\ ~written[b]
    /\ open' = open \ inUse[b]
    /\ inUse' = [inUse EXCEPT ![b] = {}]
    /\ todo' = [todo EXCEPT ![b] = {}]
    /\ UNCHANGED <<connPool, written, inboundVars, shutdown>>

\* Releasing a connection that the pool has no room for may fail, too, and the
\* broadcast gives up.
ReturnConn(b) ==
    /\ written[b]
    /\ \E c \in inUse[b] :
          IF ~shutdown /\ Cardinality(connPool[c.target]) < MaxPool
          THEN /\ connPool' = [connPool EXCEPT ![c.target] = @ \cup {c}]
               /\ todo' = [todo EXCEPT ![b] = @ \ {c.target}]
               /\ UNCHANGED open
          ELSE /\ open' = open \ {c}
               /\ \E left \in {todo[b] \ {c.target}, {}} :
                     todo' = [todo EXCEPT ![b] = left]
               /\ UNCHANGED connPool
    /\ inUse' = [inUse EXCEPT ![b] = {}]
    /\ written' = [written EXCEPT ![b] = FALSE]
    /\ UNCHANGED <<inboundVars, shutdown>>

-----------------------------------------------------------------------------
\* A peer opens a connection, which Close does not prevent before it comes to
\* close the listening socket.
Accept(i) ==
    /\ listening
    /\ handler[i] = "none"
    /\ handler' = [handler EXCEPT ![i] = "reading"]
    /\ UNCHANGED <<outbound, listening, msgCh, shutdown>>

\* Accept fails, and the listener ends: at any error while the transport runs,
\* and once it is shut down, when stream.Close closes the socket.
AcceptFails ==
    /\ listening
    /\ listening' = FALSE
    /\ UNCHANGED <<outbound, handler, msgCh, shutdown>>

\* The handler of i has read a message: the first half of handleMsg.
ReadMsg(i) ==
    /\ handler[i] = "reading"
    /\ handler' = [handler EXCEPT ![i] = "sending"]
    /\ UNCHANGED <<outbound, listening, msgCh, shutdown>>

\* The peer closes the connection, or sends what cannot be decoded.
ReadFails(i) ==
    /\ handler[i] = "reading"
    /\ handler' = [handler EXCEPT ![i] = "none"]
    /\ UNCHANGED <<outbound, listening, msgCh, shutdown>>

\* Faulty variant (TypeOK): puts the message in a channel without a limit.
handleMsgUnlimited(i) ==
    /\ handler[i] = "sending"
    /\ msgCh' = msgCh + 1
    /\ handler' = [handler EXCEPT ![i] = "reading"]
    /\ UNCHANGED <<outbound, listening, shutdown>>

\* Faulty variant (HandlersDoNotHang): waits for the channel only.
handleMsgUntilTaken(i) ==
    /\ handler[i] = "sending"
    /\ msgCh < 1
    /\ msgCh' = msgCh + 1
    /\ handler' = [handler EXCEPT ![i] = "reading"]
    /\ UNCHANGED <<outbound, listening, shutdown>>

\* The second half, and the next turn of handleConn: its context is not done,
\* because nothing calls streamCancel.
handleMsg(i) ==
    /\ handler[i] = "sending"
    /\ \/ /\ msgCh < 1
          /\ msgCh' = msgCh + 1
          /\ handler' = [handler EXCEPT ![i] = "reading"]
       \/ /\ shutdown
          /\ handler' = [handler EXCEPT ![i] = "none"]
          /\ UNCHANGED msgCh
    /\ UNCHANGED <<outbound, listening, shutdown>>

\* HandleMsgsLoop of the node takes a message.
TakeMsg ==
    /\ msgCh > 0
    /\ msgCh' = msgCh - 1
    /\ UNCHANGED <<outbound, listening, handler, shutdown>>

\* shutdownCh is closed; what stream.Close does after that is AcceptFails.
Close ==
    /\ ~shutdown
    /\ shutdown' = TRUE
    /\ UNCHANGED <<outbound, inboundVars>>

SendLoop(b) ==
    \/ broadcast(b)
    \/ \E t \in Targets : ReuseConn(b, t) \/ dialConn(b, t)
    \/ SendMsg(b)
    \/ SendMsgFails(b)
    \/ ReturnConn(b)

handleConn(i) == ReadMsg(i) \/ ReadFails(i) \/ handleMsg(i)

Next ==
    \/ \E b \in Broadcasts : SendLoop(b)
    \/ \E i \in Inbound : Accept(i) \/ handleConn(i)
    \/ AcceptFails
    \/ TakeMsg
    \/ Close

\* A handler goes on with a message it read.  Whether it reads another is up
\* to the peer; and the node may have stopped taking messages.
Fairness == \A i \in Inbound : WF_vars(handleMsg(i))

Spec == Init /\ [][Next]_vars
LiveSpec == Spec /\ Fairness

-----------------------------------------------------------------------------
TypeOK ==
    /\ connPool \in [Targets -> SUBSET NetConn]
    /\ open \subseteq NetConn
    /\ todo \in [Broadcasts -> SUBSET Targets]
    /\ inUse \in [Broadcasts -> SUBSET NetConn]
    /\ written \in [Broadcasts -> BOOLEAN]
    /\ listening \in BOOLEAN
    /\ handler \in [Inbound -> {"none", "reading", "sending"}]
    /\ msgCh \in 0..1
    /\ shutdown \in BOOLEAN

\* A connection is in the hands of one broadcast at a time, and then not in
\* the pool: otherwise two messages would be mixed on the wire.
NoSharedConn ==
    /\ \A b, c \in Broadcasts : b # c => inUse[b] \cap inUse[c] = {}
    /\ \A b \in Broadcasts, t \in Targets : inUse[b] \cap connPool[t] = {}

\* A connection that is open is in the pool or in use, and one that is closed
\* is in neither, whichever of the calls of a broadcast fails.
NoConnLeak ==
    open = (UNION {connPool[t] : t \in Targets}) \cup (UNION {inUse[b] : b \in Broadcasts})

\* After Close no handler hangs with a message that nobody takes.
HandlersDoNotHang ==
    \A i \in Inbound : shutdown /\ handler[i] = "sending" ~> handler[i] # "sending"
=============================================================================
