---------------------------- MODULE Deployment ----------------------------
(***************************************************************************)
(* From a configuration template to a running cluster: the tool that       *)
(* writes a file for each node (config_gen/main.go), the node that loads   *)
(* it (config/config.go), and its start-up (main.go, core/node.go NewNode, *)
(* StartP2PListen, EstablishP2PConns; conn/tcp_transport.go).              *)
(*                                                                         *)
(* The tool may be run again, with new keys.  It ignores the errors of     *)
(* writing a file, and the copying to a host may fail for one and not for  *)
(* another, so the files of the nodes may come from different runs.  A run *)
(* is one step, since a node that starts between two writes finds its own  *)
(* file as it is before the first or after the last.                       *)
(*                                                                         *)
(* Nodes start at any time.  A node waits a while for the others to listen *)
(* and then connects to them one by one; it panics if it cannot.  The      *)
(* template's names, addresses and ports are well formed and stay as they  *)
(* are, so the address of a node is its name here.                         *)
(***************************************************************************)
EXTENDS Blocks, Signatures, Functions

CONSTANTS
    Expectation,  \* the template's expectation: winners of a sortition
    Overriding,   \* the nodes whose environment may override their file
    MaxRuns       \* bound: how many times the tool is run

ASSUME DeploymentAssumption ==
    Expectation \in Int /\ Overriding \subseteq Nodes /\ MaxRuns \in Nat

VARIABLES
    runs,       \* the number of runs of the tool, which names their keys
    canPropose, \* the value of can_propose_block in the template
    files,      \* files[n]: config.yaml on the host of n, {} if there is none
    conf,       \* conf[n]: what the process of n has loaded, {} if none runs
    phase,      \* how far the process of n is in its start-up
    connected,  \* connected[n]: the nodes it has a connection to
    listened    \* history: the nodes that have been listening at some time

toolVars == <<runs, canPropose, files>>
nodeVars == <<conf, phase, connected, listened>>
vars == <<toolVars, nodeVars>>

nodeNum == Cardinality(Nodes)

Init ==
    /\ runs = 0
    /\ canPropose = TRUE
    /\ files = [n \in Nodes |-> {}]
    /\ conf = [n \in Nodes |-> {}]
    /\ phase = [n \in Nodes |-> "down"]
    /\ connected = [n \in Nodes |-> {}]
    /\ listened = {}

-----------------------------------------------------------------------------
(***************************************************************************)
(* The tool.                                                               *)
(***************************************************************************)
\* The places of the names in the sorted list of them.
clusterName == CHOOSE place \in Bijection(Nodes, 0..nodeNum - 1) : TRUE

\* Faulty variant (QuorumsMakeQCs): the same share for everybody.
FirstShare(n) == 0

shareIndex(n) == clusterName[n]

\* Faulty variant (TemplateSaysWhoProposes): the first node proposes in any case.
FirstCanPropose(n) == canPropose \/ shareIndex(n) = 0

\* All the nodes propose, or none, as the template has it.
canProposeBlock(n) == canPropose

\* What is in the file of n: keys that are new in each run.
File(n) ==
    [name |-> n,
     privkeyed |-> GenED25519Keys(<<runs, n>>).private,
     cluster_pubkeyed |-> [p \in Nodes |-> GenED25519Keys(<<runs, p>>).public],
     tsshare |-> EncodeTSPartialKey(GenTSKeys(runs, numT, nodeNum).shares[shareIndex(n)]),
     tspubkey |-> EncodeTSPublicKey(GenTSKeys(runs, numT, nodeNum).public),
     can_propose_block |-> canProposeBlock(n)]

\* The operator runs the tool, maybe after a change of the template, and copies
\* the files to their hosts.  Any of the files may not be written, or not be
\* copied, and nobody is told.
Generate ==
    /\ runs < MaxRuns
    /\ runs' = runs + 1
    /\ canPropose' \in BOOLEAN
    /\ \E written \in SUBSET Nodes :
          files' = [n \in Nodes |-> IF n \in written THEN {File(n)'} ELSE files[n]]
    /\ UNCHANGED nodeVars

-----------------------------------------------------------------------------
(***************************************************************************)
(* The nodes.                                                              *)
(***************************************************************************)
(***************************************************************************)
(* The environment of a process, as far as it has variables with the names *)
(* of entries of the file: a function from these names to values.  Main    *)
(* gives an empty prefix, so CAN_PROPOSE_BLOCK is such a variable.  The    *)
(* others are left out here: they would have to hold a name, keys or       *)
(* addresses in the form that the tool gives them.                         *)
(***************************************************************************)
noVariables == [key \in {} |-> key]

environments(n) ==
    {noVariables} \cup IF n \in Overriding THEN [{"can_propose_block"} -> BOOLEAN] ELSE {}

\* viper looks into the environment first (AutomaticEnv), then into the file.
Get(f, env, key) == IF key \in DOMAIN env THEN env[key] ELSE f[key]

LoadConfig(f, env) ==
    [Name |-> Get(f, env, "name"),
     PrivateKey |-> Get(f, env, "privkeyed"),
     PublicKeyMap |-> Get(f, env, "cluster_pubkeyed"),
     TsPrivateKey |-> DecodeTSPartialKey(Get(f, env, "tsshare")),
     TsPublicKey |-> DecodeTSPublicKey(Get(f, env, "tspubkey")),
     CanProposeBlock |-> Get(f, env, "can_propose_block")]

\* NewSortitioner refuses a probability, Expectation / nodeNum, outside [0, 1],
\* and NewNode panics.
probabilityIsValid == Expectation \in 0..nodeNum

\* Faulty variant (TypeOK): goes on without a file.
StartAnyway(n) ==
    /\ phase[n] = "down"
    /\ probabilityIsValid
    /\ conf' = [conf EXCEPT ![n] = {LoadConfig(f, noVariables) : f \in files[n]}]
    /\ phase' = [phase EXCEPT ![n] = "listening"]
    /\ listened' = listened \cup {n}
    /\ UNCHANGED <<toolVars, connected>>

\* LoadConfig, NewNode and StartP2PListen; without a file there is a panic.
Start(n) ==
    /\ phase[n] = "down"
    /\ probabilityIsValid
    /\ \E f \in files[n], env \in environments(n) :
          conf' = [conf EXCEPT ![n] = {LoadConfig(f, env)}]
    /\ phase' = [phase EXCEPT ![n] = "listening"]
    /\ listened' = listened \cup {n}
    /\ UNCHANGED <<toolVars, connected>>

\* "wait for each node to start" is over.
WaitOver(n) ==
    /\ phase[n] = "listening"
    /\ phase' = [phase EXCEPT ![n] = "connecting"]
    /\ UNCHANGED <<toolVars, conf, connected, listened>>

\* Faulty variant (RunningMeansAllListened): goes on after an error.
EstablishAnyP2PConn(n, p) ==
    /\ phase[n] = "connecting"
    /\ p \notin connected[n]
    /\ connected' = [connected EXCEPT ![n] = @ \cup {p}]
    /\ UNCHANGED <<toolVars, conf, phase, listened>>

\* EstablishP2PConns dials the nodes in the random order of a map; main panics
\* at its error.
EstablishP2PConn(n, p) ==
    /\ phase[n] = "connecting"
    /\ p \notin connected[n]
    /\ IF phase[p] # "down"
       THEN /\ connected' = [connected EXCEPT ![n] = @ \cup {p}]
            /\ UNCHANGED <<conf, phase>>
       ELSE /\ connected' = [connected EXCEPT ![n] = {}]
            /\ conf' = [conf EXCEPT ![n] = {}]
            /\ phase' = [phase EXCEPT ![n] = "down"]
    /\ UNCHANGED <<toolVars, listened>>

\* Faulty variant (EventuallyRunning): does not count itself.
RunOthersConnected(n) ==
    /\ phase[n] = "connecting"
    /\ connected[n] = Nodes \ {n}
    /\ phase' = [phase EXCEPT ![n] = "running"]
    /\ connected' = [connected EXCEPT ![n] = {}]
    /\ UNCHANGED <<toolVars, conf, listened>>

\* main starts ProposeBlockLoop and HandleMsgsLoop.
Run(n) ==
    /\ phase[n] = "connecting"
    /\ connected[n] = Nodes
    /\ phase' = [phase EXCEPT ![n] = "running"]
    /\ connected' = [connected EXCEPT ![n] = {}]
    /\ UNCHANGED <<toolVars, conf, listened>>

\* The operator stops the process, or it fails.
Stop(n) ==
    /\ phase[n] # "down"
    /\ phase' = [phase EXCEPT ![n] = "down"]
    /\ conf' = [conf EXCEPT ![n] = {}]
    /\ connected' = [connected EXCEPT ![n] = {}]
    /\ UNCHANGED <<toolVars, listened>>

Establish(n) == (\E p \in Nodes : EstablishP2PConn(n, p)) \/ Run(n)

Next ==
    \/ Generate
    \/ \E n \in Nodes : \/ Start(n)
                        \/ WaitOver(n)
                        \/ Establish(n)
                        \/ Stop(n)

\* A node that waits goes on in the end, and connects.  The operator may start
\* and stop nodes, and run the tool, or not.
Fairness == \A n \in Nodes : WF_vars(WaitOver(n)) /\ WF_vars(Establish(n))

Spec == Init /\ [][Next]_vars
LiveSpec == Spec /\ Fairness

-----------------------------------------------------------------------------
Up(n) == conf[n] # {}
confOf(n) == CHOOSE c \in conf[n] : TRUE

\* n takes a message of p for one of the node whose name it bears
\* (Node.verifySigED25519).
Accepts(n, p) ==
    VerifySignEd25519(confOf(n).PublicKeyMap[confOf(p).Name], "msg",
                      SignEd25519(confOf(p).PrivateKey, "msg"))

TypeOK ==
    /\ runs \in 0..MaxRuns
    /\ canPropose \in BOOLEAN
    /\ \A n \in Nodes : \A f \in files[n] : f.name = n
    /\ \A n \in Nodes : (conf[n] = {}) = (phase[n] = "down")
    /\ phase \in [Nodes -> {"down", "listening", "connecting", "running"}]
    /\ connected \in [Nodes -> SUBSET Nodes]
    /\ listened \subseteq Nodes

\* The votes of any quorum whose messages a node accepts make a QC, which all of
\* the quorum can verify, although the files of the nodes may come from
\* different runs of the tool: createIntactSig does not panic.
QuorumsMakeQCs ==
    \A n \in {m \in Nodes : Up(m)} :
        \A Q \in SUBSET {p \in Nodes : Up(p) /\ Accepts(n, p)} :
            Cardinality(Q) = quorumNum =>
                \E qc \in AssembleIntactTSPartial(
                             {SignTSPartial(confOf(q).TsPrivateKey, "vote") : q \in Q},
                             confOf(n).TsPublicKey, "vote", quorumNum) :
                    \A q \in Q : VerifyTS(confOf(q).TsPublicKey, "vote", qc)

\* Of the nodes that accept each other's messages all propose, or none, unless
\* their environment says otherwise: a file from another run of the tool, with
\* another template, does not get a node into the sortitions of the others.
TemplateSaysWhoProposes ==
    \A n, p \in Nodes \ Overriding :
        Up(n) /\ Up(p) /\ Accepts(n, p) =>
            confOf(n).CanProposeBlock = confOf(p).CanProposeBlock

\* No node proposes or votes before all the nodes have been listening.
RunningMeansAllListened == (\E n \in Nodes : phase[n] = "running") => listened = Nodes

\* If all nodes are up at one time, they end up running, unless one of them
\* goes down first: none waits for another one to run.
EventuallyRunning ==
    (\A n \in Nodes : Up(n)) ~> (\A n \in Nodes : phase[n] = "running") \/ \E n \in Nodes : ~Up(n)
=============================================================================
