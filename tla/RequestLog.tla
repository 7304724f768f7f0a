----------------------------- MODULE RequestLog -----------------------------
(***************************************************************************)
(* What a node promises its clients: their requests form a log, in which   *)
(* each has a serial number that no other has, and blocks take the         *)
(* requests off the log from its beginning, in order, a limited number at  *)
(* a time.  Every request is taken in the end.                             *)
(***************************************************************************)
EXTENDS Integers, Sequences

CONSTANTS
    Clients,      \* they make the requests
    Limit,        \* the most requests in a block
    MaxRequests   \* bound: the serial numbers are below it

VARIABLES
    log,   \* the requests, in the order they are accepted
    taken  \* how many of them are in blocks

vars == <<log, taken>>

Init ==
    /\ log = <<>>
    /\ taken = 0

Accept(c) ==
    /\ \E sn \in 0..MaxRequests - 1 :
          /\ \A i \in DOMAIN log : log[i].sn # sn
          /\ log' = Append(log, [client |-> c, sn |-> sn])
    /\ UNCHANGED taken

Take ==
    /\ taken < Len(log)
    /\ taken' \in taken + 1 .. taken + Limit
    /\ taken' <= Len(log)
    /\ UNCHANGED log

Next == Take \/ \E c \in Clients : Accept(c)

Spec == Init /\ [][Next]_vars /\ WF_vars(Take)
=============================================================================
