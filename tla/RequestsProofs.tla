--------------------------- MODULE RequestsProofs ---------------------------
(***************************************************************************)
(* Proofs about Requests, for any clients, any limit of a block and any    *)
(* number of calls.                                                        *)
(***************************************************************************)
EXTENDS Requests, SequenceTheorems, TLAPS

-----------------------------------------------------------------------------
(***************************************************************************)
(* The types.                                                              *)
(***************************************************************************)
\* How many requests a block takes is between none and all of the pool.
LEMMA EndNumInPool ==
    ASSUME TypeOK
    PROVE  /\ endNum \in Nat /\ endNum <= Len(pool) /\ endNum <= Limit
           /\ SubSeq(pool, 1, endNum) \in Seq(RequestWrappedByServer)
           /\ Len(SubSeq(pool, 1, endNum)) = endNum
           /\ SubSeq(pool, endNum + 1, Len(pool)) \in Seq(RequestWrappedByServer)
<1>1. pool \in Seq(RequestWrappedByServer) /\ Len(pool) \in Nat
  BY LenProperties DEF TypeOK
<1>2. endNum \in Nat /\ endNum <= Len(pool) /\ endNum <= Limit
  BY <1>1, RequestsAssumption DEF endNum
<1>3. \A i \in 1..Len(pool) : pool[i] \in RequestWrappedByServer
  BY <1>1, ElementOfSeq
<1>4. \A i \in 1..endNum : pool[i] \in RequestWrappedByServer
  BY <1>1, <1>2, <1>3
<1>5. \A i \in endNum + 1..Len(pool) : pool[i] \in RequestWrappedByServer
  BY <1>1, <1>2, <1>3
<1>6. /\ SubSeq(pool, 1, endNum) \in Seq(RequestWrappedByServer)
      /\ Len(SubSeq(pool, 1, endNum)) = IF 1 <= endNum THEN endNum - 1 + 1 ELSE 0
  BY <1>2, <1>4, SubSeqProperties
<1>7. SubSeq(pool, endNum + 1, Len(pool)) \in Seq(RequestWrappedByServer)
  BY <1>1, <1>2, <1>5, SubSeqProperties
<1> QED BY <1>2, <1>6, <1>7

\* Serial numbers are natural numbers, and the timers of a channel are those of
\* the present round and of earlier ones.
THEOREM RequestsTypes == Spec => []TypeOK
<1>1. Init => TypeOK
  <2> SUFFICES ASSUME Init PROVE TypeOK
    OBVIOUS
  <2>1. updated \in BOOLEAN
    BY Zenon DEF Init
  <2>2. pool \in Seq(RequestWrappedByServer) /\ packaged \in Seq(RequestWrappedByServer)
    BY EmptySeq DEF Init
  <2>3. answered \in [Clients -> Seq(Nat)] /\ calls \in [Clients -> SUBSET Nat]
    BY EmptySeq DEF Init
  <2> QED BY <2>1, <2>2, <2>3 DEF Init, TypeOK
<1>2. TypeOK /\ [Next]_vars => TypeOK'
  <2> SUFFICES ASSUME TypeOK, [Next]_vars PROVE TypeOK'
    OBVIOUS
  <2>1. ASSUME NEW c \in Clients, TakeSN(c) PROVE TypeOK'
    BY <2>1 DEF TakeSN, timerVars, TypeOK
  <2>2. ASSUME NEW c \in Clients, AddToPool(c) PROVE TypeOK'
    <3>1. PICK sn \in calls[c] :
              /\ pool' = Append(pool, [client |-> c, sn |-> sn])
              /\ answered' = [answered EXCEPT ![c] = Append(@, sn)]
      BY <2>2 DEF AddToPool
    <3>2. sn \in Nat /\ [client |-> c, sn |-> sn] \in RequestWrappedByServer
      BY DEF TypeOK, RequestWrappedByServer
    <3>3. pool' \in Seq(RequestWrappedByServer)
      BY <3>1, <3>2, AppendProperties DEF TypeOK
    <3>4. Append(answered[c], sn) \in Seq(Nat)
      BY <3>2, AppendProperties DEF TypeOK
    <3>5. answered' \in [Clients -> Seq(Nat)]
      BY <3>1, <3>4 DEF TypeOK
    <3> QED BY <2>2, <3>3, <3>5 DEF AddToPool, timerVars, TypeOK
  <2>3. ASSUME NEW t \in {"own", "old"}, TimerFires(t) PROVE TypeOK'
    BY <2>3 DEF TimerFires, Without, requestVars, TypeOK
  <2>4. CASE Begin
    BY <2>4 DEF Begin, Old, requestVars, TypeOK
  <2>5. CASE TimeOut
    BY <2>5 DEF TimeOut, Without, requestVars, TypeOK
  <2>6. CASE Package
    <3>1. packaged' \in Seq(RequestWrappedByServer)
      BY <2>6, EndNumInPool, ConcatProperties DEF Package, TypeOK
    <3>2. pool' \in Seq(RequestWrappedByServer)
      BY <2>6, EndNumInPool DEF Package
    <3>3. updated' \in BOOLEAN
      BY <2>6, Zenon DEF Package
    <3> QED BY <2>6, <3>1, <3>2, <3>3 DEF Package, requestVars, TypeOK
  <2>7. CASE LoseSortition
    BY <2>7 DEF LoseSortition, requestVars, timerVars, TypeOK
  <2>8. CASE BlockArrives
    <3>1. updated' \in BOOLEAN
      BY <2>8, Zenon DEF BlockArrives
    <3> QED BY <2>8, <3>1 DEF BlockArrives, requestVars, timerVars, TypeOK
  <2>9. CASE UNCHANGED vars
    BY <2>9 DEF vars, requestVars, timerVars, TypeOK
  <2> QED BY <2>1, <2>2, <2>3, <2>4, <2>5, <2>6, <2>7, <2>8, <2>9
          DEF Next, NewRequest, ProposeBlockLoop
<1> QED BY <1>1, <1>2, PTL DEF Spec

-----------------------------------------------------------------------------
(***************************************************************************)
(* The wait of a round.                                                    *)
(***************************************************************************)
\* While a round waits, only its own timer is under way.  When timers are left
\* from a round that did not wait for them, there are enough requests for a
\* block, and no round waits until the node wins.
RoundInv ==
    /\ pc = "timeOut" => /\ "old" \notin sleeping \cup ticks
                         /\ ~("own" \in sleeping /\ "own" \in ticks)
    /\ pc # "timeOut" /\ sleeping \cup ticks # {} => Len(pool) >= Limit

LEMMA RoundInvNext == TypeOK /\ RoundInv /\ [Next]_vars => RoundInv'
<1> SUFFICES ASSUME TypeOK, RoundInv, [Next]_vars PROVE RoundInv'
  OBVIOUS
<1>1. Len(pool) \in Nat /\ Limit \in Nat \ {0}
  BY LenProperties, RequestsAssumption DEF TypeOK
<1>2. ASSUME NEW c \in Clients, TakeSN(c) PROVE RoundInv'
  BY <1>2 DEF TakeSN, timerVars, RoundInv
<1>3. ASSUME NEW c \in Clients, AddToPool(c) PROVE RoundInv'
  <2>1. PICK sn \in calls[c] : pool' = Append(pool, [client |-> c, sn |-> sn])
    BY <1>3 DEF AddToPool
  <2>2. [client |-> c, sn |-> sn] \in RequestWrappedByServer
    BY DEF TypeOK, RequestWrappedByServer
  <2>3. Len(pool') = Len(pool) + 1
    BY <2>1, <2>2, AppendProperties DEF TypeOK
  <2>4. UNCHANGED <<pc, sleeping, ticks>>
    BY <1>3 DEF AddToPool, timerVars
  <2> QED BY <1>1, <2>3, <2>4 DEF RoundInv
<1>4. ASSUME NEW t \in {"own", "old"}, TimerFires(t) PROVE RoundInv'
  BY <1>4 DEF TimerFires, Without, RoundInv, TypeOK
<1>5. CASE Begin
  <2>1. CASE Len(pool) < Limit
    <3>1. sleeping = {} /\ ticks = {}
      BY <1>1, <1>5, <2>1 DEF Begin, RoundInv
    <3> QED BY <1>5, <2>1, <3>1 DEF Begin, Old, RoundInv
  <2>2. CASE ~(Len(pool) < Limit)
    <3>1. pc' = "height" /\ UNCHANGED pool
      BY <1>5, <2>2 DEF Begin
    <3>2. Len(pool) >= Limit
      BY <1>1, <2>2
    <3> QED BY <3>1, <3>2 DEF RoundInv
  <2> QED BY <2>1, <2>2
<1>6. CASE TimeOut
  <2>1. PICK t \in ticks : ticks' \in Without(ticks, t)
    BY <1>6 DEF TimeOut
  <2>2. t = "own" /\ ticks = {"own"} /\ sleeping = {}
    BY <1>6 DEF TimeOut, RoundInv, TypeOK
  <2>3. ticks' = {} /\ sleeping' = {} /\ pc' = "height"
    BY <1>6, <2>1, <2>2 DEF TimeOut, Without
  <2> QED BY <2>3 DEF RoundInv
<1>7. CASE Package
  BY <1>7 DEF Package, RoundInv
<1>8. CASE LoseSortition \/ BlockArrives \/ UNCHANGED vars
  BY <1>8 DEF LoseSortition, BlockArrives, vars, timerVars, RoundInv
<1> QED BY <1>2, <1>3, <1>4, <1>5, <1>6, <1>7, <1>8
        DEF Next, NewRequest, ProposeBlockLoop

LEMMA RoundInvInvariant == Spec => []RoundInv
<1>1. Init => RoundInv
  BY DEF Init, RoundInv
<1> QED BY <1>1, RoundInvNext, RequestsTypes, PTL DEF Spec

\* A round that waits, waits for its own timer (ProposeBlockLoop).
THEOREM NoStaleTick == Spec => []NoStaleTimeOut
<1>1. RoundInv => NoStaleTimeOut
  BY DEF RoundInv, NoStaleTimeOut
<1> QED BY <1>1, RoundInvInvariant, PTL

-----------------------------------------------------------------------------
(***************************************************************************)
(* The log.                                                                *)
(***************************************************************************)
\* The log is a sequence of requests.
LEMMA LogType ==
    ASSUME TypeOK
    PROVE  /\ log \in Seq(RequestWrappedByServer)
           /\ Len(log) = Len(packaged) + Len(pool)
           /\ DOMAIN log = 1..Len(log) /\ Len(log) \in Nat
<1>1. log \in Seq(RequestWrappedByServer) /\ Len(log) = Len(packaged) + Len(pool)
  BY ConcatProperties DEF TypeOK, log
<1> QED BY <1>1, LenProperties

\* AddToPool puts one request at the end of the log.
LEMMA AddAppends ==
    ASSUME TypeOK, NEW c \in Clients, AddToPool(c)
    PROVE  \E sn \in calls[c] :
              /\ log' = Append(log, [client |-> c, sn |-> sn])
              /\ Len(log') = Len(log) + 1
              /\ DOMAIN log' = 1..Len(log) + 1
              /\ \A i \in DOMAIN log : log'[i] = log[i]
              /\ log'[Len(log) + 1] = [client |-> c, sn |-> sn]
              /\ answered' = [answered EXCEPT ![c] = Append(@, sn)]
<1>1. PICK sn \in calls[c] : /\ pool' = Append(pool, [client |-> c, sn |-> sn])
                             /\ answered' = [answered EXCEPT ![c] = Append(@, sn)]
  BY DEF AddToPool
<1> DEFINE r == [client |-> c, sn |-> sn]
<1>2. r \in RequestWrappedByServer
  BY DEF TypeOK, RequestWrappedByServer
<1>3. UNCHANGED packaged
  BY DEF AddToPool
<1> HIDE DEF r
<1>4. pool' = pool \o <<r>>
  BY <1>1, <1>2, AppendIsConcat DEF TypeOK, r
<1>5. <<r>> \in Seq(RequestWrappedByServer)
  BY <1>2
<1>6. log' = log \o <<r>>
  BY <1>3, <1>4, <1>5, ConcatAssociative DEF TypeOK, log
<1>7. log' = Append(log, r)
  BY <1>2, <1>6, LogType, AppendIsConcat
<1>8. /\ log' \in Seq(RequestWrappedByServer) /\ Len(log') = Len(log) + 1
      /\ \A i \in 1..Len(log) : log'[i] = log[i]
      /\ log'[Len(log) + 1] = r
  BY <1>2, <1>7, LogType, AppendProperties
<1>9. DOMAIN log' = 1..Len(log) + 1
  BY <1>8, LenProperties
<1>10. \A i \in DOMAIN log : log'[i] = log[i]
  BY <1>8, LogType
<1> QED BY <1>1, <1>7, <1>8, <1>9, <1>10 DEF r

\* A block takes the requests off the pool from its beginning, in their order.
LEMMA PackageKeepsLog == ASSUME TypeOK, Package PROVE log' = log
<1> DEFINE S == RequestWrappedByServer
           first == SubSeq(pool, 1, endNum)
           rest == SubSeq(pool, endNum + 1, Len(pool))
<1>1. first \in Seq(S) /\ rest \in Seq(S) /\ pool \in Seq(S) /\ packaged \in Seq(S)
  BY EndNumInPool DEF TypeOK
<1>2. first \o rest = pool
  <2>1. /\ 1 \in 1..Len(pool) + 1 /\ endNum \in 1 - 1..Len(pool)
        /\ Len(pool) \in endNum..Len(pool)
    BY EndNumInPool, LenProperties DEF TypeOK
  <2>2. first \o rest = SubSeq(pool, 1, Len(pool))
    BY <1>1, <2>1, ConcatAdjacentSubSeq
  <2> QED BY <1>1, <2>2, SubSeqFull
<1>3. (packaged \o first) \o rest = packaged \o (first \o rest)
  <2> HIDE DEF first, rest, S
  <2> QED BY <1>1, ConcatAssociative
<1>4. log' = (packaged \o first) \o rest
  BY DEF Package, log
<1> HIDE DEF first, rest, S
<1> QED BY <1>2, <1>3, <1>4 DEF log

\* No other step changes the log, or what the clients know of it.
LEMMA OthersKeepLog ==
    ASSUME TypeOK, [Next]_vars, ~ \E c \in Clients : NewRequest(c)
    PROVE  log' = log /\ UNCHANGED requestVars
<1>1. CASE Package
  BY <1>1, PackageKeepsLog DEF Package
<1>2. CASE ~Package
  BY <1>2 DEF Next, ProposeBlockLoop, TimerFires, Begin, TimeOut, LoseSortition,
              BlockArrives, vars, log
<1> QED BY <1>1, <1>2

-----------------------------------------------------------------------------
(***************************************************************************)
(* Serial numbers.                                                         *)
(***************************************************************************)
\* The numbers that have been given away are below the next one.
SNInv ==
    /\ nextSN <= MaxRequests
    /\ \A c \in Clients : \A sn \in calls[c] : sn < nextSN
    /\ \A i \in DOMAIN log : log[i].sn < nextSN
    /\ SNsAreUnique

\* TakeSN gives a number away that nobody has (the lock of nextSN).
LEMMA TakeSNKeepsSNs ==
    ASSUME TypeOK, SNInv, NEW c \in Clients, TakeSN(c)
    PROVE  SNInv'
<1>1. log' = log
  BY DEF TakeSN, log
<1>2. /\ nextSN \in Nat /\ MaxRequests \in Nat /\ nextSN < MaxRequests
      /\ nextSN' = nextSN + 1
  BY RequestsAssumption DEF TakeSN, TypeOK
<1>3. calls'[c] = {nextSN} /\ \A d \in Clients \ {c} : calls'[d] = calls[d]
  BY DEF TakeSN, TypeOK
<1>4. /\ \A d \in Clients : calls[d] \subseteq Nat
      /\ \A i \in DOMAIN log : log[i].sn \in Nat
  <2>1. \A i \in DOMAIN log : log[i] \in RequestWrappedByServer
    BY LogType, ElementOfSeq
  <2> QED BY <2>1 DEF TypeOK, RequestWrappedByServer
<1>5. nextSN' <= MaxRequests
  BY <1>2
<1>6. \A d \in Clients : \A sn \in calls'[d] : sn < nextSN'
  BY <1>2, <1>3, <1>4 DEF SNInv
<1>7. \A i \in DOMAIN log' : log'[i].sn < nextSN'
  BY <1>1, <1>2, <1>4 DEF SNInv
<1>8. /\ \A i \in DOMAIN log : log[i].sn # nextSN
      /\ \A d \in Clients : nextSN \notin calls[d]
  BY <1>2, <1>4 DEF SNInv
<1>9. SNsAreUnique'
  BY <1>1, <1>3, <1>8 DEF SNInv, SNsAreUnique
<1> QED BY <1>5, <1>6, <1>7, <1>9 DEF SNInv

\* AddToPool moves a number from a call to the pool, in whatever order the calls
\* get there.
LEMMA AddKeepsSNs ==
    ASSUME TypeOK, SNInv, NEW c \in Clients, AddToPool(c)
    PROVE  SNInv'
<1>1. PICK sn \in calls[c] :
          /\ Len(log') = Len(log) + 1
          /\ DOMAIN log' = 1..Len(log) + 1
          /\ \A i \in DOMAIN log : log'[i] = log[i]
          /\ log'[Len(log) + 1] = [client |-> c, sn |-> sn]
  BY AddAppends
<1>2. calls'[c] = {} /\ \A d \in Clients \ {c} : calls'[d] = calls[d]
  BY DEF AddToPool, TypeOK
<1>3. UNCHANGED nextSN
  BY DEF AddToPool
<1>4. \A i \in DOMAIN log' : i \in DOMAIN log \/ i = Len(log) + 1
  BY <1>1, LogType
<1>5. log'[Len(log) + 1].sn = sn
  BY <1>1
<1>6. \A d \in Clients : sn \notin calls'[d]
  BY <1>2 DEF SNInv, SNsAreUnique
<1>7. \A i \in DOMAIN log : log[i].sn # sn
  BY DEF SNInv, SNsAreUnique
<1>8. \A d \in Clients : calls'[d] \subseteq calls[d]
  BY <1>2
<1>9. \A i \in DOMAIN log' : log'[i].sn < nextSN'
  BY <1>1, <1>3, <1>4, <1>5 DEF SNInv
<1>10. \A i, j \in DOMAIN log' : log'[i].sn = log'[j].sn => i = j
  BY <1>1, <1>4, <1>5, <1>7 DEF SNInv, SNsAreUnique
<1>11. \A i \in DOMAIN log' : \A d \in Clients : log'[i].sn \notin calls'[d]
  BY <1>1, <1>4, <1>5, <1>6, <1>8 DEF SNInv, SNsAreUnique
<1>12. \A d, e \in Clients : d # e => calls'[d] \cap calls'[e] = {}
  BY <1>8 DEF SNInv, SNsAreUnique
<1>13. SNsAreUnique'
  BY <1>10, <1>11, <1>12 DEF SNsAreUnique
<1> QED BY <1>3, <1>8, <1>9, <1>13 DEF SNInv

LEMMA SNInvInvariant == Spec => []SNInv
<1>1. Init => SNInv
  <2> SUFFICES ASSUME Init PROVE SNInv
    OBVIOUS
  <2>1. log = <<>>
    BY ConcatEmptySeq, EmptySeq DEF Init, log
  <2> QED BY <2>1, RequestsAssumption DEF Init, SNInv, SNsAreUnique
<1>2. TypeOK /\ SNInv /\ [Next]_vars => SNInv'
  <2> SUFFICES ASSUME TypeOK, SNInv, [Next]_vars PROVE SNInv'
    OBVIOUS
  <2>1. CASE \E c \in Clients : NewRequest(c)
    BY <2>1, TakeSNKeepsSNs, AddKeepsSNs DEF NewRequest
  <2>2. CASE ~ \E c \in Clients : NewRequest(c)
    BY <2>2, OthersKeepLog DEF SNInv, SNsAreUnique, requestVars
  <2> QED BY <2>1, <2>2
<1> QED BY <1>1, <1>2, RequestsTypes, PTL DEF Spec

\* Calls take their numbers and enter the pool under two locks, in two orders;
\* no two requests get one number.
THEOREM UniqueSNs == Spec => []SNsAreUnique
<1>1. SNInv => SNsAreUnique
  BY DEF SNInv
<1> QED BY <1>1, SNInvInvariant, PTL

-----------------------------------------------------------------------------
(***************************************************************************)
(* No answer is forgotten.                                                 *)
(***************************************************************************)
\* The request that a client gets the next answer for is the last of the log.
LEMMA AddIsAnswered ==
    ASSUME TypeOK, NothingLostOrDuplicated, NEW c \in Clients, AddToPool(c)
    PROVE  NothingLostOrDuplicated'
<1>1. PICK sn \in calls[c] :
          /\ DOMAIN log' = 1..Len(log) + 1
          /\ \A i \in DOMAIN log : log'[i] = log[i]
          /\ log'[Len(log) + 1] = [client |-> c, sn |-> sn]
          /\ answered' = [answered EXCEPT ![c] = Append(@, sn)]
  BY AddAppends
<1>2. DOMAIN log = 1..Len(log) /\ Len(log) \in Nat
  BY LogType
<1> DEFINE last == Len(log) + 1
<1>3. DOMAIN log' = DOMAIN log \cup {last} /\ last \notin DOMAIN log
  BY <1>1, <1>2
<1>4. log'[last].client = c
  BY <1>1
<1>5. \A i \in DOMAIN log : i < last
  BY <1>2
<1> SUFFICES ASSUME NEW d \in Clients
             PROVE  \E place \in [DOMAIN answered'[d] -> DOMAIN log'] : AnsweredAt(d, place)'
  BY DEF NothingLostOrDuplicated
<1>6. PICK place \in [DOMAIN answered[d] -> DOMAIN log] : AnsweredAt(d, place)
  BY DEF NothingLostOrDuplicated
<1>7. CASE d # c
  <2>1. answered'[d] = answered[d]
    BY <1>1, <1>7 DEF TypeOK
  <2>2. place \in [DOMAIN answered'[d] -> DOMAIN log']
    BY <1>3, <2>1
  <2>3. \A i \in DOMAIN place : log'[place[i]] = log[place[i]]
    BY <1>1
  <2>4. AnsweredAt(d, place)'
    BY <1>1, <1>3, <1>4, <1>6, <1>7, <2>1, <2>3 DEF AnsweredAt
  <2> QED BY <2>2, <2>4
<1>8. CASE d = c
  <2> DEFINE n == Len(answered[c])
  <2>1. /\ n \in Nat /\ DOMAIN answered[c] = 1..n
        /\ DOMAIN answered'[c] = 1..n + 1
        /\ \A i \in 1..n : answered'[c][i] = answered[c][i]
        /\ answered'[c][n + 1] = sn
    <3>1. answered[c] \in Seq(Nat) /\ sn \in Nat
      BY DEF TypeOK
    <3>2. answered'[c] = Append(answered[c], sn)
      BY <1>1 DEF TypeOK
    <3> QED BY <3>1, <3>2, AppendProperties, LenProperties
  <2> HIDE DEF n, last
  <2> PICK more : more = [i \in 1..n + 1 |-> IF i = n + 1 THEN last ELSE place[i]]
    OBVIOUS
  <2>2. /\ \A i \in 1..n : more[i] = place[i] /\ place[i] \in DOMAIN log
        /\ more[n + 1] = last
        /\ DOMAIN more = 1..n + 1
    BY <1>8, <2>1
  <2>3. more \in [DOMAIN answered'[c] -> DOMAIN log']
    BY <1>3, <1>8, <2>1, <2>2
  <2>4. \A i, j \in 1..n + 1 : i < j => i \in 1..n /\ (j \in 1..n \/ j = n + 1)
    BY <2>1
  <2>5. \A i, j \in 1..n + 1 : i < j => more[i] < more[j]
    BY <1>5, <1>6, <1>8, <2>1, <2>2, <2>4 DEF AnsweredAt
  <2>6. \A i \in 1..n + 1 : i \in 1..n \/ i = n + 1
    BY <2>1
  <2>7. \A i \in 1..n + 1 : log'[more[i]] = [client |-> c, sn |-> answered'[c][i]]
    BY <1>1, <1>6, <1>8, <2>1, <2>2, <2>6 DEF AnsweredAt, last
  <2>8. \A k \in DOMAIN log' : log'[k].client = c => \E i \in 1..n + 1 : more[i] = k
    <3> SUFFICES ASSUME NEW k \in DOMAIN log', log'[k].client = c
                 PROVE  \E i \in 1..n + 1 : more[i] = k
      OBVIOUS
    <3>1. CASE k = last
      BY <2>1, <2>2, <3>1
    <3>2. CASE k \in DOMAIN log
      <4>1. PICK i \in 1..n : place[i] = k
        BY <1>1, <1>6, <1>8, <2>1, <3>2 DEF AnsweredAt
      <4>2. i \in 1..n + 1
        BY <2>1
      <4> QED BY <2>2, <4>1, <4>2
    <3> QED BY <1>3, <3>1, <3>2
  <2>9. AnsweredAt(c, more)'
    BY <2>2, <2>5, <2>7, <2>8 DEF AnsweredAt
  <2> QED BY <1>8, <2>3, <2>9
<1> QED BY <1>7, <1>8

\* What a client has an answer for is in the log once, in the order of its calls,
\* with NewRequest and ProposeBlockLoop interleaved in any way.
THEOREM NothingLost == Spec => []NothingLostOrDuplicated
<1>1. Init => NothingLostOrDuplicated
  <2> SUFFICES ASSUME Init, NEW c \in Clients
               PROVE  \E place \in [DOMAIN answered[c] -> DOMAIN log] : AnsweredAt(c, place)
    BY DEF NothingLostOrDuplicated
  <2>1. log = <<>> /\ answered[c] = <<>>
    BY ConcatEmptySeq, EmptySeq DEF Init, log
  <2>2. DOMAIN log = {} /\ DOMAIN answered[c] = {}
    BY <2>1
  <2>3. <<>> \in [DOMAIN answered[c] -> DOMAIN log] /\ AnsweredAt(c, <<>>)
    BY <2>2 DEF AnsweredAt
  <2> QED BY <2>3
<1>2. TypeOK /\ NothingLostOrDuplicated /\ [Next]_vars => NothingLostOrDuplicated'
  <2> SUFFICES ASSUME TypeOK, NothingLostOrDuplicated, [Next]_vars
               PROVE  NothingLostOrDuplicated'
    OBVIOUS
  <2>1. ASSUME NEW c \in Clients, TakeSN(c)
        PROVE  log' = log /\ UNCHANGED answered
    BY <2>1 DEF TakeSN, log
  <2>2. CASE log' = log /\ UNCHANGED answered
    BY <2>2 DEF NothingLostOrDuplicated, AnsweredAt
  <2>3. CASE \E c \in Clients : NewRequest(c)
    BY <2>1, <2>2, <2>3, AddIsAnswered DEF NewRequest
  <2>4. CASE ~ \E c \in Clients : NewRequest(c)
    BY <2>2, <2>4, OthersKeepLog DEF requestVars
  <2> QED BY <2>3, <2>4
<1> QED BY <1>1, <1>2, RequestsTypes, PTL DEF Spec

-----------------------------------------------------------------------------
(***************************************************************************)
(* The log that the clients see, step by step.                             *)
(***************************************************************************)
\* Package takes requests, AddToPool accepts one; no other step is visible.
LEMMA StepImplementsLog ==
    ASSUME TypeOK, SNInv, [Next]_vars
    PROVE  [Log!Next]_(Log!vars)
<1>1. ASSUME NEW c \in Clients, TakeSN(c) PROVE UNCHANGED Log!vars
  BY <1>1 DEF TakeSN, log, Log!vars
<1>2. ASSUME NEW c \in Clients, AddToPool(c) PROVE Log!Accept(c)
  <2>1. PICK sn \in calls[c] : log' = Append(log, [client |-> c, sn |-> sn])
    BY <1>2, AddAppends
  <2>2. sn \in Nat /\ nextSN \in Nat /\ sn < nextSN /\ nextSN <= MaxRequests
    BY DEF SNInv, TypeOK
  <2>3. sn \in 0..MaxRequests - 1
    BY <2>2, RequestsAssumption
  <2>4. \A i \in DOMAIN log : log[i].sn # sn
    BY DEF SNInv, SNsAreUnique
  <2>5. UNCHANGED Len(packaged)
    BY <1>2 DEF AddToPool
  <2> QED BY <2>1, <2>3, <2>4, <2>5 DEF Log!Accept
<1>3. CASE Package
  <2>1. log' = log /\ packaged' = packaged \o SubSeq(pool, 1, endNum)
    BY <1>3, PackageKeepsLog DEF Package
  <2>2. Len(packaged') = Len(packaged) + endNum
    BY <2>1, EndNumInPool, ConcatProperties DEF TypeOK
  <2>3. /\ Len(packaged) \in Nat /\ Len(log) = Len(packaged) + Len(pool)
        /\ Len(pool) \in Nat /\ endNum \in Nat /\ endNum <= Len(pool) /\ endNum <= Limit
        /\ Limit \in Nat
    BY LogType, EndNumInPool, LenProperties, RequestsAssumption DEF TypeOK
  <2>4. CASE endNum = 0
    BY <2>1, <2>2, <2>3, <2>4 DEF Log!vars
  <2>5. CASE endNum # 0
    <3>1. Len(packaged) < Len(log) /\ Len(packaged') <= Len(log')
      BY <2>1, <2>2, <2>3, <2>5
    <3>2. Len(packaged') \in Len(packaged) + 1..Len(packaged) + Limit
      BY <2>2, <2>3, <2>5
    <3>3. Log!Take
      BY <2>1, <3>1, <3>2 DEF Log!Take
    <3> QED BY <3>3 DEF Log!Next
  <2> QED BY <2>4, <2>5
<1>4. CASE ~Package /\ ~ \E c \in Clients : NewRequest(c)
  <2>1. UNCHANGED packaged
    BY <1>4 DEF Next, ProposeBlockLoop, TimerFires, Begin, TimeOut, LoseSortition,
                BlockArrives, vars
  <2> QED BY <1>4, <2>1, OthersKeepLog DEF Log!vars
<1> QED BY <1>1, <1>2, <1>3, <1>4 DEF NewRequest, Log!Next

\* The calls and the loop of a proposer implement the log of RequestLog, except
\* for its promise that each request is taken in the end.
THEOREM RequestsImplementLog == Spec => Log!Init /\ [][Log!Next]_(Log!vars)
<1>1. Init => Log!Init
  BY ConcatEmptySeq, EmptySeq DEF Init, log, Log!Init
<1> QED BY <1>1, StepImplementsLog, RequestsTypes, SNInvInvariant, PTL DEF Spec
=============================================================================
