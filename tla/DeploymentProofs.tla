-------------------------- MODULE DeploymentProofs --------------------------
(***************************************************************************)
(* Proofs about Deployment, for any cluster, any number of runs of the     *)
(* tool and any expectation.                                               *)
(***************************************************************************)
EXTENDS Deployment, FiniteSetTheorems, FunctionTheorems, SequenceTheorems, TLAPS

-----------------------------------------------------------------------------
(***************************************************************************)
(* Shares and thresholds.                                                  *)
(***************************************************************************)
\* The cluster has a first node and a last one.
LEMMA ClusterFinite == IsFiniteSet(Nodes) /\ nodeNum \in Nat \ {0}
BY NodesAssumption, FS_CardinalityType, FS_EmptySet DEF nodeNum

\* The generator numbers the nodes, so that no two have the same share.
LEMMA SharesDiffer ==
    /\ \A n \in Nodes : shareIndex(n) \in 0..nodeNum - 1
    /\ \A n, p \in Nodes : shareIndex(n) = shareIndex(p) => n = p
<1>1. nodeNum - 1 \in Int /\ ~(0 > nodeNum - 1) /\ nodeNum - 1 - 0 + 1 = nodeNum
  BY ClusterFinite
<1>2. IsFiniteSet(0..nodeNum - 1) /\ Cardinality(0..nodeNum - 1) = nodeNum
  BY <1>1, FS_Interval
<1>3. ExistsBijection(Nodes, 0..nodeNum - 1)
  BY <1>2, ClusterFinite, FS_SameCardinalityBij DEF nodeNum
<1>4. clusterName \in Bijection(Nodes, 0..nodeNum - 1)
  BY <1>3, Fun_ExistsBij DEF clusterName
<1>5. /\ clusterName \in [Nodes -> 0..nodeNum - 1]
      /\ \A n, p \in Nodes : clusterName[n] = clusterName[p] => n = p
  BY <1>4 DEF Bijection, Injection, IsInjective
<1> QED BY <1>5 DEF shareIndex

\* The number of votes a node waits for (NewNode) is the threshold of the keys
\* (the generator's main).
LEMMA QuorumIsThreshold == quorumNum = numT /\ numT \in Nat
<1>1. \A N \in Nat : (2 * N + 2) \div 3 = N - N \div 3 /\ N - N \div 3 \in Nat
  OBVIOUS
<1> QED BY <1>1, ClusterFinite DEF nodeNum, quorumNum, numT, QuorumOf, ThresholdOf

-----------------------------------------------------------------------------
(***************************************************************************)
(* What is in a file, and what a node makes of it.                         *)
(***************************************************************************)
\* The share of n and the public key that run r makes.
ShareOf(n, r) == [I |-> shareIndex(n), V |-> Value(Poly(r, numT), shareIndex(n) + 1)]
PublicOf(r) == [base |-> "G2", commits |-> Poly(r, numT)]

LEMMA ShareFields ==
    \A n, r : /\ ShareOf(n, r).I = shareIndex(n)
              /\ ShareOf(n, r).V = Value(Poly(r, numT), shareIndex(n) + 1)
              /\ PublicOf(r).commits = Poly(r, numT)
<1> TAKE n, r
<1> QED BY DEF ShareOf, PublicOf

\* The file of n from run r, in which the template's can_propose_block was can.
FileOf(n, r, can) ==
    [name |-> n,
     privkeyed |-> GenED25519Keys(<<r, n>>).private,
     cluster_pubkeyed |-> [p \in Nodes |-> GenED25519Keys(<<r, p>>).public],
     tsshare |-> EncodeTSPartialKey(GenTSKeys(r, numT, nodeNum).shares[shareIndex(n)]),
     tspubkey |-> EncodeTSPublicKey(GenTSKeys(r, numT, nodeNum).public),
     can_propose_block |-> can]

LEMMA GeneratedFile ==
    ASSUME NEW n \in Nodes
    PROVE  File(n) = FileOf(n, runs, canPropose) /\ File(n)' = FileOf(n, runs', canPropose')
BY DEF File, FileOf, canProposeBlock

\* The configuration of n has its name, and the keys that it needs of run r.
HasKeys(c, n, r) ==
    /\ c.Name = n
    /\ c.PrivateKey = GenED25519Keys(<<r, n>>).private
    /\ \A p \in Nodes : c.PublicKeyMap[p] = GenED25519Keys(<<r, p>>).public
    /\ c.TsPrivateKey = ShareOf(n, r)
    /\ c.TsPublicKey = PublicOf(r)

\* A variable of the environment can override can_propose_block only, and that
\* only where there may be one.
LEMMA Overrides ==
    ASSUME NEW n \in Nodes, NEW env \in environments(n)
    PROVE  /\ DOMAIN env \subseteq {"can_propose_block"}
           /\ n \notin Overriding => DOMAIN env = {}
<1>1. CASE env = noVariables
  BY <1>1 DEF noVariables
<1>2. CASE n \in Overriding /\ env \in [{"can_propose_block"} -> BOOLEAN]
  BY <1>2
<1> QED BY <1>1, <1>2 DEF environments

\* Reading a file gives the keys back that were written (DecodeTSPartialKey,
\* DecodeTSPublicKey): decoding undoes encoding.
LEMMA KeysDecoded ==
    ASSUME NEW n \in Nodes, NEW r, NEW can, NEW env \in environments(n),
           NEW c, c = LoadConfig(FileOf(n, r, can), env)
    PROVE  HasKeys(c, n, r) /\ (n \notin Overriding => c.CanProposeBlock = can)
<1> DEFINE f == FileOf(n, r, can)
<1>1. f.privkeyed = GenED25519Keys(<<r, n>>).private
  BY DEF FileOf
<1>2. \A p \in Nodes : f.cluster_pubkeyed[p] = GenED25519Keys(<<r, p>>).public
  BY DEF FileOf
<1>3. f.tsshare = EncodeTSPartialKey(ShareOf(n, r))
  <2>1. GenTSKeys(r, numT, nodeNum).shares[shareIndex(n)] = ShareOf(n, r)
    BY SharesDiffer DEF GenTSKeys, ShareOf
  <2> QED BY <2>1 DEF FileOf
<1>4. f.tspubkey = EncodeTSPublicKey(PublicOf(r))
  BY DEF FileOf, GenTSKeys, PublicOf
<1>5. DecodeTSPartialKey(EncodeTSPartialKey(ShareOf(n, r))) = ShareOf(n, r)
  BY DEF ShareOf, DecodeTSPartialKey, EncodeTSPartialKey, encode, decode, MarshallTSPartialKey,
         UnMarshallTSPartialKey, MarshalBinary, UnmarshalBinary
<1>6. DecodeTSPublicKey(EncodeTSPublicKey(PublicOf(r))) = PublicOf(r)
  <2>1. Poly(r, numT) = [i \in DOMAIN Poly(r, numT) |-> Poly(r, numT)[i]]
    BY DEF Poly
  <2> QED BY <2>1 DEF PublicOf, DecodeTSPublicKey, EncodeTSPublicKey, encode, decode,
                      MarshallTSPublicKey, UnMarshallTSPublicKey, MarshalBinary,
                      UnmarshalBinary
<1>7. f.name = n /\ f.can_propose_block = can
  BY DEF FileOf
<1> HIDE DEF f
<1>8. /\ c.Name = f.name
      /\ c.PrivateKey = f.privkeyed
      /\ c.PublicKeyMap = f.cluster_pubkeyed
      /\ c.TsPrivateKey = DecodeTSPartialKey(f.tsshare)
      /\ c.TsPublicKey = DecodeTSPublicKey(f.tspubkey)
      /\ n \notin Overriding => c.CanProposeBlock = f.can_propose_block
  <2>1. /\ \A key \in {"name", "privkeyed", "cluster_pubkeyed", "tsshare", "tspubkey"} :
              key \notin DOMAIN env
        /\ n \notin Overriding => "can_propose_block" \notin DOMAIN env
    BY Overrides
  <2>2. c = LoadConfig(f, env)
    BY DEF f
  <2> QED BY <2>1, <2>2 DEF LoadConfig, Get
<1> QED BY <1>1, <1>2, <1>3, <1>4, <1>5, <1>6, <1>7, <1>8 DEF f, HasKeys

-----------------------------------------------------------------------------
(***************************************************************************)
(* Files and configurations come from runs of the tool.                    *)
(***************************************************************************)
\* conf and files are functions on the nodes.
FunsOnNodes == DOMAIN conf = Nodes /\ DOMAIN files = Nodes

\* Each file was written in one of the runs, in all of which the template had
\* one value of can_propose_block, and what a node has loaded was such a file.
WrittenInRuns(can) ==
    \A n \in Nodes :
        /\ \A f \in files[n] : \E r \in 1..runs : f = FileOf(n, r, can[r])
        /\ \A c \in conf[n] : \E r \in 1..runs, env \in environments(n) :
              c = LoadConfig(FileOf(n, r, can[r]), env)

FilesInv == /\ FunsOnNodes
            /\ runs \in 0..MaxRuns
            /\ \E can \in [1..runs -> BOOLEAN] : WrittenInRuns(can)

LEMMA GenerateKeepsFiles == ASSUME FilesInv, Generate PROVE FilesInv'
<1>1. PICK written \in SUBSET Nodes :
          files' = [n \in Nodes |-> IF n \in written THEN {File(n)'} ELSE files[n]]
  BY DEF Generate
<1>2. /\ runs' = runs + 1 /\ canPropose' \in BOOLEAN /\ UNCHANGED conf
      /\ runs' \in 0..MaxRuns /\ runs \in Nat
  BY DeploymentAssumption DEF Generate, nodeVars, FilesInv
<1>3. PICK can \in [1..runs -> BOOLEAN] : WrittenInRuns(can)
  BY DEF FilesInv
<1>4. PICK more : more = [r \in 1..runs' |-> IF r = runs' THEN canPropose' ELSE can[r]]
  OBVIOUS
<1>5. 1..runs' = 1..runs \cup {runs'} /\ runs' \notin 1..runs
  BY <1>2
<1>6. more[runs'] = canPropose' /\ \A r \in 1..runs : r \in 1..runs' /\ more[r] = can[r]
  BY <1>4, <1>5
<1>7. more \in [1..runs' -> BOOLEAN]
  BY <1>2, <1>4, <1>5, Zenon
<1>8. ASSUME NEW n \in Nodes, NEW f \in files'[n]
      PROVE  \E r \in 1..runs' : f = FileOf(n, r, more[r])
  <2>1. CASE f \in files[n]
    BY <1>3, <1>6, <2>1 DEF WrittenInRuns
  <2>2. CASE f = File(n)'
    BY <1>5, <1>6, <2>2, GeneratedFile
  <2> QED BY <1>1, <2>1, <2>2
<1>9. ASSUME NEW n \in Nodes, NEW c \in conf'[n]
      PROVE  \E r \in 1..runs', env \in environments(n) :
                c = LoadConfig(FileOf(n, r, more[r]), env)
  BY <1>2, <1>3, <1>6 DEF WrittenInRuns
<1>10. FunsOnNodes'
  BY <1>1, <1>2 DEF FilesInv, FunsOnNodes
<1>11. WrittenInRuns(more)'
  BY <1>8, <1>9 DEF WrittenInRuns
<1> QED BY <1>2, <1>7, <1>10, <1>11 DEF FilesInv

LEMMA StartKeepsFiles ==
    ASSUME FilesInv, NEW n \in Nodes, Start(n)
    PROVE  FilesInv'
<1>1. PICK f \in files[n], env \in environments(n) :
          conf' = [conf EXCEPT ![n] = {LoadConfig(f, env)}]
  BY DEF Start
<1>2. UNCHANGED <<files, runs>>
  BY DEF Start, toolVars
<1>3. PICK can \in [1..runs -> BOOLEAN] : WrittenInRuns(can)
  BY DEF FilesInv
<1>4. /\ conf'[n] = {LoadConfig(f, env)} /\ \A p \in Nodes \ {n} : conf'[p] = conf[p]
      /\ FunsOnNodes'
  BY <1>1, <1>2 DEF FilesInv, FunsOnNodes
<1>5. PICK r \in 1..runs : f = FileOf(n, r, can[r])
  BY <1>3 DEF WrittenInRuns
<1>6. WrittenInRuns(can)'
  BY <1>2, <1>3, <1>4, <1>5 DEF WrittenInRuns
<1> QED BY <1>2, <1>4, <1>6 DEF FilesInv

LEMMA FilesInvInvariant == Spec => []FilesInv
<1>1. Init => FilesInv
  <2> SUFFICES ASSUME Init PROVE FilesInv
    OBVIOUS
  <2>1. FunsOnNodes /\ runs = 0 /\ runs \in 0..MaxRuns
    BY DeploymentAssumption DEF Init, FunsOnNodes
  <2>2. [r \in 1..runs |-> TRUE] \in [1..runs -> BOOLEAN]
    BY Zenon
  <2>3. WrittenInRuns([r \in 1..runs |-> TRUE])
    BY DEF Init, WrittenInRuns
  <2> QED BY <2>1, <2>2, <2>3, Zenon DEF FilesInv
<1>2. FilesInv /\ [Next]_vars => FilesInv'
  <2> SUFFICES ASSUME FilesInv, [Next]_vars PROVE FilesInv'
    OBVIOUS
  <2>1. CASE /\ UNCHANGED <<runs, files>> /\ DOMAIN conf' = Nodes
             /\ \A n \in Nodes : conf'[n] \subseteq conf[n]
    <3>1. PICK can \in [1..runs -> BOOLEAN] : WrittenInRuns(can)
      BY DEF FilesInv
    <3>2. WrittenInRuns(can)'
      BY <2>1, <3>1 DEF WrittenInRuns
    <3> QED BY <2>1, <3>1, <3>2 DEF FilesInv, FunsOnNodes
  <2>2. CASE UNCHANGED <<runs, files, conf>>
    BY <2>1, <2>2 DEF FilesInv, FunsOnNodes
  <2>3. ASSUME NEW n \in Nodes, UNCHANGED <<runs, files>>,
               conf' = [conf EXCEPT ![n] = {}]
        PROVE  FilesInv'
    BY <2>1, <2>3 DEF FilesInv, FunsOnNodes
  <2>4. ASSUME NEW n \in Nodes, WaitOver(n) \/ Run(n) PROVE FilesInv'
    BY <2>2, <2>4 DEF WaitOver, Run, toolVars
  <2>5. ASSUME NEW n \in Nodes, NEW p \in Nodes, EstablishP2PConn(n, p) PROVE FilesInv'
    BY <2>2, <2>3, <2>5 DEF EstablishP2PConn, toolVars
  <2>6. ASSUME NEW n \in Nodes, Stop(n) PROVE FilesInv'
    BY <2>3, <2>6 DEF Stop, toolVars
  <2>7. CASE UNCHANGED vars
    BY <2>2, <2>7 DEF vars, toolVars, nodeVars
  <2> QED BY <2>4, <2>5, <2>6, <2>7, GenerateKeepsFiles, StartKeepsFiles
          DEF Next, Establish
<1> QED BY <1>1, <1>2, PTL DEF Spec

\* What a running node has loaded.
LEMMA LoadedInRun ==
    ASSUME NEW can, WrittenInRuns(can), NEW n \in Nodes, Up(n)
    PROVE  \E r \in 1..runs : /\ HasKeys(confOf(n), n, r)
                              /\ n \notin Overriding => confOf(n).CanProposeBlock = can[r]
<1>1. confOf(n) \in conf[n]
  BY DEF Up, confOf
<1>2. PICK r \in 1..runs, env \in environments(n) :
         confOf(n) = LoadConfig(FileOf(n, r, can[r]), env)
  BY <1>1 DEF WrittenInRuns
<1>3. PICK c : c = confOf(n)
  OBVIOUS
<1>4. HasKeys(c, n, r) /\ (n \notin Overriding => c.CanProposeBlock = can[r])
  BY <1>2, <1>3, KeysDecoded
<1> QED BY <1>3, <1>4

\* A message is accepted only among the nodes of one run (verifySigED25519).
LEMMA AcceptedInRun ==
    ASSUME NEW n \in Nodes, NEW p \in Nodes, NEW r, NEW s,
           HasKeys(confOf(n), n, r), HasKeys(confOf(p), p, s), Accepts(n, p)
    PROVE  s = r
<1>1. confOf(n).PublicKeyMap[confOf(p).Name] = GenED25519Keys(<<r, p>>).public
  BY DEF HasKeys
<1>2. confOf(p).PrivateKey = GenED25519Keys(<<s, p>>).private
  BY DEF HasKeys
<1>3. [signer |-> <<s, p>>, data |-> "msg"] = [signer |-> <<r, p>>, data |-> "msg"]
  BY <1>1, <1>2 DEF Accepts, VerifySignEd25519, SignEd25519, GenED25519Keys
<1>4. <<s, p>> = <<r, p>>
  BY <1>3
<1> QED BY <1>4

\* The template has one can_propose_block for all the nodes, and a node takes no
\* message of a node whose file was written from another template: only the
\* environment of a node can set it apart.
THEOREM TemplateObeyed == Spec => []TemplateSaysWhoProposes
<1>1. FilesInv => TemplateSaysWhoProposes
  <2> SUFFICES ASSUME FilesInv, NEW n \in Nodes \ Overriding, NEW p \in Nodes \ Overriding,
                      Up(n), Up(p), Accepts(n, p)
               PROVE  confOf(n).CanProposeBlock = confOf(p).CanProposeBlock
    BY DEF TemplateSaysWhoProposes
  <2>1. PICK can \in [1..runs -> BOOLEAN] : WrittenInRuns(can)
    BY DEF FilesInv
  <2>2. PICK r \in 1..runs : HasKeys(confOf(n), n, r) /\ confOf(n).CanProposeBlock = can[r]
    BY <2>1, LoadedInRun
  <2>3. PICK s \in 1..runs : HasKeys(confOf(p), p, s) /\ confOf(p).CanProposeBlock = can[s]
    BY <2>1, LoadedInRun
  <2>4. s = r
    BY <2>2, <2>3, AcceptedInRun
  <2> QED BY <2>2, <2>3, <2>4
<1> QED BY <1>1, FilesInvInvariant, PTL

-----------------------------------------------------------------------------
(***************************************************************************)
(* Quorum certificates.                                                    *)
(***************************************************************************)
\* The partial signatures of a quorum of one run are valid at different indexes
\* and enough of them, so that tbls.Recover makes the signature that verifies
\* with the public key of that run.
LEMMA QuorumOfRunMakesQC ==
    ASSUME NEW Q \in SUBSET Nodes, Cardinality(Q) = quorumNum, NEW r,
           NEW sigs, sigs = {SignTSPartial(ShareOf(q, r), "vote") : q \in Q}
    PROVE  [key |-> Value(Poly(r, numT), 0), data |-> "vote"]
              \in AssembleIntactTSPartial(sigs, PublicOf(r), "vote", quorumNum)
<1> DEFINE indexes == {s.index : s \in sigs}
<1>1. ASSUME NEW q \in Q, NEW s, s = SignTSPartial(ShareOf(q, r), "vote")
      PROVE  /\ s.index = shareIndex(q) /\ s.data = "vote"
             /\ s.key = Value(Poly(r, numT), shareIndex(q) + 1)
  BY <1>1, ShareFields DEF SignTSPartial
<1>2. PublicOf(r).commits = Poly(r, numT)
  BY ShareFields
<1>3. \A s \in sigs : s.key = Value(PublicOf(r).commits, s.index + 1) /\ s.data = "vote"
  BY <1>1, <1>2
<1>4. indexes = {shareIndex(q) : q \in Q}
  BY <1>1
<1>5. Cardinality(indexes) = quorumNum
  <2> DEFINE place == [q \in Q |-> shareIndex(q)]
  <2>1. \A a, b \in Q : place[a] = place[b] => a = b
    BY SharesDiffer
  <2>2. place \in [Q -> indexes] /\ \A i \in indexes : \E q \in Q : place[q] = i
    BY <1>4
  <2> HIDE DEF place, indexes
  <2>3. ExistsBijection(Q, indexes)
    BY <2>1, <2>2, Fun_IsBij, Fun_ExistsBij
  <2>4. IsFiniteSet(Q)
    BY ClusterFinite, FS_Subset
  <2> QED BY <2>3, <2>4, FS_Bijection
<1>6. quorumNum >= Len(PublicOf(r).commits)
  <2>1. Poly(r, numT) \in Seq({<<r, i>> : i \in 1..numT}) /\ Len(Poly(r, numT)) = numT
    BY QuorumIsThreshold DEF Poly
  <2> QED BY <1>2, <2>1, QuorumIsThreshold
<1>7. Cardinality(indexes) >= quorumNum
  BY <1>5, QuorumIsThreshold
<1>8. AssembleIntactTSPartial(sigs, PublicOf(r), "vote", quorumNum)
         = {[key |-> Value(PublicOf(r).commits, 0), data |-> "vote"]}
  BY <1>3, <1>6, <1>7 DEF AssembleIntactTSPartial
<1> QED BY <1>2, <1>8

\* createIntactSig does not panic, and every voter can verify the QC it makes,
\* even if the generator was run several times and files of some runs are lost.
THEOREM QuorumsCertify == Spec => []QuorumsMakeQCs
<1>1. FilesInv => QuorumsMakeQCs
  <2> SUFFICES ASSUME FilesInv, NEW n \in Nodes, Up(n),
                      NEW Q \in SUBSET {p \in Nodes : Up(p) /\ Accepts(n, p)},
                      Cardinality(Q) = quorumNum
               PROVE  \E qc \in AssembleIntactTSPartial(
                                  {SignTSPartial(confOf(q).TsPrivateKey, "vote") : q \in Q},
                                  confOf(n).TsPublicKey, "vote", quorumNum) :
                         \A q \in Q : VerifyTS(confOf(q).TsPublicKey, "vote", qc)
    BY DEF QuorumsMakeQCs
  <2>1. PICK can \in [1..runs -> BOOLEAN] : WrittenInRuns(can)
    BY DEF FilesInv
  <2>2. PICK r \in 1..runs : HasKeys(confOf(n), n, r)
    BY <2>1, LoadedInRun
  <2>3. confOf(n).TsPublicKey = PublicOf(r)
    BY <2>2 DEF HasKeys
  <2>4. ASSUME NEW q \in Q
        PROVE  /\ confOf(q).TsPrivateKey = ShareOf(q, r)
               /\ confOf(q).TsPublicKey = PublicOf(r)
    <3>1. PICK s \in 1..runs : HasKeys(confOf(q), q, s)
      BY <2>1, LoadedInRun
    <3>2. s = r
      BY <2>2, <3>1, AcceptedInRun
    <3> QED BY <3>1, <3>2 DEF HasKeys
  <2>5. PICK sigs : sigs = {SignTSPartial(ShareOf(q, r), "vote") : q \in Q}
    OBVIOUS
  <2>6. {SignTSPartial(confOf(q).TsPrivateKey, "vote") : q \in Q} = sigs
    BY <2>4, <2>5
  <2> DEFINE qc == [key |-> Value(Poly(r, numT), 0), data |-> "vote"]
  <2>7. qc \in AssembleIntactTSPartial(sigs, PublicOf(r), "vote", quorumNum)
    BY <2>5, QuorumOfRunMakesQC
  <2>8. ASSUME NEW q \in Q PROVE VerifyTS(confOf(q).TsPublicKey, "vote", qc)
    BY <2>4, ShareFields DEF VerifyTS
  <2> HIDE DEF qc
  <2> QED BY <2>3, <2>6, <2>7, <2>8
<1> QED BY <1>1, FilesInvInvariant, PTL

-----------------------------------------------------------------------------
(***************************************************************************)
(* The types, and the start of a node.                                     *)
(***************************************************************************)
\* The file of a node has its name, and a node that runs has loaded one; whether
\* the other nodes do is of no importance.
THEOREM DeploymentTypes == Spec => []TypeOK
<1>1. Init => TypeOK
  <2> SUFFICES ASSUME Init PROVE TypeOK
    OBVIOUS
  <2>1. runs \in 0..MaxRuns
    BY DeploymentAssumption DEF Init
  <2>2. canPropose \in BOOLEAN
    BY Zenon DEF Init
  <2>3. /\ \A n \in Nodes : \A f \in files[n] : f.name = n
        /\ \A n \in Nodes : (conf[n] = {}) = (phase[n] = "down")
        /\ phase \in [Nodes -> {"down", "listening", "connecting", "running"}]
        /\ connected \in [Nodes -> SUBSET Nodes] /\ listened \subseteq Nodes
    BY DEF Init
  <2> QED BY <2>1, <2>2, <2>3 DEF TypeOK
<1>2. TypeOK /\ FilesInv /\ [Next]_vars => TypeOK'
  <2> SUFFICES ASSUME TypeOK, FilesInv, [Next]_vars PROVE TypeOK'
    OBVIOUS
  <2> USE DEF TypeOK, FilesInv, FunsOnNodes
  <2>1. CASE Generate
    <3>1. PICK written \in SUBSET Nodes :
              files' = [n \in Nodes |-> IF n \in written THEN {File(n)'} ELSE files[n]]
      BY <2>1 DEF Generate
    <3>2. \A n \in Nodes : File(n)'.name = n
      BY DEF File
    <3>3. \A n \in Nodes : \A f \in files'[n] : f.name = n
      BY <3>1, <3>2
    <3>4. runs' \in 0..MaxRuns
      BY <2>1, DeploymentAssumption DEF Generate
    <3>5. canPropose' \in BOOLEAN
      BY <2>1, Zenon DEF Generate
    <3> QED BY <2>1, <3>3, <3>4, <3>5 DEF Generate, nodeVars
  <2>2. ASSUME NEW n \in Nodes, Start(n) PROVE TypeOK'
    BY <2>2 DEF Start, toolVars
  <2>3. ASSUME NEW n \in Nodes, WaitOver(n) PROVE TypeOK'
    BY <2>3 DEF WaitOver, toolVars
  <2>4. ASSUME NEW n \in Nodes, NEW p \in Nodes, EstablishP2PConn(n, p) PROVE TypeOK'
    BY <2>4 DEF EstablishP2PConn, toolVars
  <2>5. ASSUME NEW n \in Nodes, Run(n) PROVE TypeOK'
    BY <2>5 DEF Run, toolVars
  <2>6. ASSUME NEW n \in Nodes, Stop(n) PROVE TypeOK'
    BY <2>6 DEF Stop, toolVars
  <2>7. CASE UNCHANGED vars
    BY <2>7 DEF vars, toolVars, nodeVars
  <2> QED BY <2>1, <2>2, <2>3, <2>4, <2>5, <2>6, <2>7 DEF Next, Establish
<1> QED BY <1>1, <1>2, FilesInvInvariant, PTL DEF Spec

\* A connection is to a node that has been listening.
ListenInv ==
    /\ \A n \in Nodes : phase[n] # "down" => n \in listened
    /\ \A n \in Nodes : connected[n] \subseteq listened
    /\ RunningMeansAllListened

\* A node runs only after it has connected to all of them, one by one, although
\* those it connected to first may be down again by then.
THEOREM AllListened == Spec => []RunningMeansAllListened
<1>1. Init => ListenInv
  BY DEF Init, ListenInv, RunningMeansAllListened
<1>2. TypeOK /\ ListenInv /\ [Next]_vars => ListenInv'
  <2> SUFFICES ASSUME TypeOK, ListenInv, [Next]_vars PROVE ListenInv'
    OBVIOUS
  <2> USE DEF TypeOK, ListenInv, RunningMeansAllListened
  <2>1. ASSUME NEW n \in Nodes, Start(n) PROVE ListenInv'
    BY <2>1 DEF Start
  <2>2. ASSUME NEW n \in Nodes, WaitOver(n) PROVE ListenInv'
    BY <2>2 DEF WaitOver
  <2>3. ASSUME NEW n \in Nodes, NEW p \in Nodes, EstablishP2PConn(n, p) PROVE ListenInv'
    BY <2>3 DEF EstablishP2PConn
  <2>4. ASSUME NEW n \in Nodes, Run(n) PROVE ListenInv'
    BY <2>4 DEF Run
  <2>5. ASSUME NEW n \in Nodes, Stop(n) PROVE ListenInv'
    BY <2>5 DEF Stop
  <2>6. CASE Generate \/ UNCHANGED vars
    BY <2>6 DEF Generate, vars, nodeVars
  <2> QED BY <2>1, <2>2, <2>3, <2>4, <2>5, <2>6 DEF Next, Establish
<1>3. ListenInv => RunningMeansAllListened
  BY DEF ListenInv
<1> QED BY <1>1, <1>2, <1>3, DeploymentTypes, PTL DEF Spec
=============================================================================
