------------------------------ MODULE Requests ------------------------------
(***************************************************************************)
(* The requests of one proposer, from the call of a client until they are  *)
(* packaged in a block (core/rpc_handler.go, core/node.go                  *)
(* ProposeBlockLoop).                                                      *)
(*                                                                         *)
(* NewRequest runs in a goroutine for each call and takes two locks in     *)
(* turn, one for the serial number and one for the pool, so calls          *)
(* interleave between the two.  The loop reads the length of the pool      *)
(* without its lock when a round begins, then waits for a timer of that    *)
(* round, and packages what the pool holds when the node wins the          *)
(* sortition.  Sortition and blocks, modelled in Sortition and Node, are   *)
(* free choices here.                                                      *)
(*                                                                         *)
(* Of the timers started on the present channel only two things matter:    *)
(* whether one of this round, "own", and whether one of an earlier round,  *)
(* "old", is still to fire, or has fired and its tick is not received.     *)
(***************************************************************************)
EXTENDS Integers, Sequences, FiniteSets

CONSTANTS
    Clients,     \* they call NewRequest, each one call after the other
    Limit,       \* the most requests in a block, 1000 in the code
    MaxRequests  \* bound: the number of calls

ASSUME RequestsAssumption == Limit \in Nat \ {0} /\ MaxRequests \in Nat

VARIABLES
    nextSN,    \* RPCHandler.nextSN
    calls,     \* calls[c]: the serial number of c's call, {} if there is none
    answered,  \* answered[c]: history, the serial numbers in replies to c
    pool,      \* requestPool.pool
    packaged,  \* history: the requests in the blocks proposed so far
    pc,        \* what ProposeBlockLoop does: "begin", "timeOut" or "height"
    sleeping,  \* the timers that have not fired
    ticks,     \* the timers whose tick is in, or blocked on, timeOut
    updated    \* whether candidateHeightUpdated has a value

requestVars == <<nextSN, calls, answered>>
timerVars == <<sleeping, ticks>>
vars == <<requestVars, pool, packaged, pc, timerVars, updated>>

RequestWrappedByServer == [client : Clients, sn : Nat]

Init ==
    /\ nextSN = 0
    /\ calls = [c \in Clients |-> {}]
    /\ answered = [c \in Clients |-> <<>>]
    /\ pool = <<>>
    /\ packaged = <<>>
    /\ pc = "begin"
    /\ sleeping = {}
    /\ ticks = {}
    /\ updated = TRUE

-----------------------------------------------------------------------------
\* Faulty variant (SNsAreUnique): the pool tells the next serial number.
TakeLengthAsSN(c) ==
    /\ calls[c] = {}
    /\ nextSN < MaxRequests
    /\ nextSN' = nextSN + 1
    /\ calls' = [calls EXCEPT ![c] = {Len(packaged) + Len(pool)}]
    /\ UNCHANGED <<answered, pool, packaged, pc, timerVars, updated>>

\* Faulty variant (TypeOK): takes the number before the next one.
TakeSNOffByOne(c) ==
    /\ calls[c] = {}
    /\ nextSN < MaxRequests
    /\ nextSN' = nextSN + 1
    /\ calls' = [calls EXCEPT ![c] = {nextSN - 1}]
    /\ UNCHANGED <<answered, pool, packaged, pc, timerVars, updated>>

TakeSN(c) ==
    /\ calls[c] = {}
    /\ nextSN < MaxRequests
    /\ nextSN' = nextSN + 1
    /\ calls' = [calls EXCEPT ![c] = {nextSN}]
    /\ UNCHANGED <<answered, pool, packaged, pc, timerVars, updated>>

AddToPool(c) ==
    /\ \E sn \in calls[c] :
          /\ pool' = Append(pool, [client |-> c, sn |-> sn])
          /\ answered' = [answered EXCEPT ![c] = Append(@, sn)]
    /\ calls' = [calls EXCEPT ![c] = {}]
    /\ UNCHANGED <<nextSN, packaged, pc, timerVars, updated>>

NewRequest(c) == TakeSN(c) \/ AddToPool(c)

-----------------------------------------------------------------------------
Old(timers) == IF timers = {} THEN {} ELSE {"old"}

\* Faulty variant (EventuallyPackaged): no timer when there is nothing to do.
BeginIdly ==
    /\ pc = "begin"
    /\ sleeping' = Old(sleeping) \cup (IF pool = <<>> THEN {} ELSE {"own"})
    /\ ticks' = Old(ticks)
    /\ pc' = IF Len(pool) < Limit THEN "timeOut" ELSE "height"
    /\ UNCHANGED <<requestVars, pool, packaged, updated>>

\* A round starts a timer, and waits for it if the pool has few requests.
Begin ==
    /\ pc = "begin"
    /\ sleeping' = Old(sleeping) \cup {"own"}
    /\ ticks' = Old(ticks)
    /\ pc' = IF Len(pool) < Limit THEN "timeOut" ELSE "height"
    /\ UNCHANGED <<requestVars, pool, packaged, updated>>

\* "old" may stand for several timers, of which one fires, or is received.
Without(timers, t) == {timers \ {t}} \cup (IF t = "old" THEN {timers} ELSE {})

TimerFires(t) ==
    /\ t \in sleeping
    /\ sleeping' \in Without(sleeping, t)
    /\ ticks' = ticks \cup {t}
    /\ UNCHANGED <<requestVars, pool, packaged, pc, updated>>

TimeOut ==
    /\ pc = "timeOut"
    /\ \E t \in ticks : ticks' \in Without(ticks, t)
    /\ pc' = "height"
    /\ UNCHANGED <<requestVars, pool, packaged, sleeping, updated>>

\* Faulty variant (ImplementsRequestLog): as many as there are.
endNumUnlimited == Len(pool)

\* How many requests the next block takes.
endNum == IF Len(pool) < Limit THEN Len(pool) ELSE Limit

\* Faulty variant (NothingLostOrDuplicated): forgets the requests it leaves.
PackageAndClear ==
    /\ pc = "height" /\ updated
    /\ packaged' = packaged \o SubSeq(pool, 1, endNum)
    /\ pool' = <<>>
    /\ sleeping' = {} /\ ticks' = {}
    /\ updated' = FALSE
    /\ pc' = "begin"
    /\ UNCHANGED requestVars

\* Faulty variant (NoStaleTimeOut): goes on with the same channel.
PackageOnSameChannel ==
    /\ pc = "height" /\ updated
    /\ packaged' = packaged \o SubSeq(pool, 1, endNum)
    /\ pool' = SubSeq(pool, endNum + 1, Len(pool))
    /\ updated' = FALSE
    /\ pc' = "begin"
    /\ UNCHANGED <<requestVars, timerVars>>

\* The node wins: it proposes a block, and makes a new channel for timers.
Package ==
    /\ pc = "height" /\ updated
    /\ packaged' = packaged \o SubSeq(pool, 1, endNum)
    /\ pool' = SubSeq(pool, endNum + 1, Len(pool))
    /\ sleeping' = {} /\ ticks' = {}
    /\ updated' = FALSE
    /\ pc' = "begin"
    /\ UNCHANGED requestVars

\* It loses: it puts the value back that it took from the channel.
LoseSortition ==
    /\ pc = "height" /\ updated
    /\ pc' = "begin"
    /\ UNCHANGED <<requestVars, pool, packaged, timerVars, updated>>

\* tryExtendCandidateChain puts a value in the channel.
BlockArrives ==
    /\ updated' = TRUE
    /\ UNCHANGED <<requestVars, pool, packaged, pc, timerVars>>

ProposeBlockLoop == Begin \/ TimeOut \/ Package \/ LoseSortition

Next ==
    \/ \E c \in Clients : NewRequest(c)
    \/ \E t \in {"own", "old"} : TimerFires(t)
    \/ ProposeBlockLoop
    \/ BlockArrives

\* Timers fire and the loop goes on; the sortition is not always lost; and a
\* block arrives after the last one, at the latest the node's own.
Fairness ==
    /\ WF_vars(ProposeBlockLoop)
    /\ SF_vars(Package)
    /\ \A t \in {"own", "old"} : WF_vars(TimerFires(t))
    /\ WF_vars(BlockArrives)

Spec == Init /\ [][Next]_vars
LiveSpec == Spec /\ Fairness

-----------------------------------------------------------------------------
TypeOK ==
    /\ nextSN \in Nat
    /\ calls \in [Clients -> SUBSET Nat]
    /\ answered \in [Clients -> Seq(Nat)]
    /\ pool \in Seq(RequestWrappedByServer)
    /\ packaged \in Seq(RequestWrappedByServer)
    /\ pc \in {"begin", "timeOut", "height"}
    /\ sleeping \subseteq {"own", "old"}
    /\ ticks \subseteq {"own", "old"}
    /\ updated \in BOOLEAN

\* The requests in the order they are packaged in.
log == packaged \o pool

\* The i-th request that c has an answer for is at place[i] of the log, and c
\* has no other requests there.
AnsweredAt(c, place) ==
    /\ \A i, j \in DOMAIN place : i < j => place[i] < place[j]
    /\ \A i \in DOMAIN place : log[place[i]] = [client |-> c, sn |-> answered[c][i]]
    /\ \A k \in DOMAIN log : log[k].client = c => \E i \in DOMAIN place : place[i] = k

\* What a client got answers for is in the blocks and the pool, each request
\* once, in the order of its calls, whatever calls and rounds are in between.
NothingLostOrDuplicated ==
    \A c \in Clients : \E place \in [DOMAIN answered[c] -> DOMAIN log] : AnsweredAt(c, place)

\* No two requests have one serial number, although the pool is not locked
\* when it is taken and requests enter the pool in another order.
SNsAreUnique ==
    /\ \A i, j \in DOMAIN log : log[i].sn = log[j].sn => i = j
    /\ \A i \in DOMAIN log : \A c \in Clients : log[i].sn \notin calls[c]
    /\ \A c, d \in Clients : c # d => calls[c] \cap calls[d] = {}

\* The tick that a round waits for is that of its own timer: no timer of an
\* earlier round, which did not wait for it, cuts the wait short.  Rounds that
\* do not wait have Limit requests, and go on having them until the node wins.
NoStaleTimeOut == pc = "timeOut" => "old" \notin sleeping \cup ticks

\* An answered request gets into a block.
EventuallyPackaged ==
    \A c \in Clients : \A sn \in 0..MaxRequests - 1 :
        LET r == [client |-> c, sn |-> sn]
        IN  (\E i \in DOMAIN pool : pool[i] = r)
            ~> (\E i \in DOMAIN packaged : packaged[i] = r)

\* The calls, the pool and the loop together are a log of requests from which
\* blocks take at most Limit at a time, in order, and leave none behind.
Log == INSTANCE RequestLog WITH taken <- Len(packaged)
ImplementsRequestLog == Log!Spec
=============================================================================
