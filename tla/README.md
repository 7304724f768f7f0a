# A verification project for SimpleFT (yimchain)

SimpleFT is a small BFT-style blockchain: nodes propose blocks, vote for them
with threshold-signature shares, assemble quorum certificates (QCs) and commit
blocks. This directory holds TLA+ models of it, TLC configurations that check
them on small instances, and TLAPS proofs for every value of the constants.
`PROJECT.json` lists the runs, the source lines of every definition, hazards,
findings and theorems.

Run a check with `tlc -config single_node.cfg MCNode.tla` (the module of each
run is in `PROJECT.json`), and the proofs of a module with `tlapm ChainProofs.tla`.

## Inventory

| Component | State | Operations | What is hard |
|---|---|---|---|
| Consensus node (`core/node.go`, `core/chain.go`, `core/block.go`, `core/vote.go`) | maps by height of pending blocks, votes, created QCs, pending QCs; the candidate chain; the committed chain; `voted`; `candidateHeightUpdated` | `ProposeBlockLoop`, `HandleMsgsLoop`, and a goroutine for each call of a handler | every handler spawns goroutines that take `n.lock` in any order; messages arrive in any order; broadcast stops at the first error |
| Sortition (`sortition/`, `core/node.go`) | `sortitionResult`, the height worked on | `Once`, choice of the round, `handleSortitionMsg` | results arrive late and for any round; a node waits for the others' losses |
| Requests (`core/rpc_handler.go`, `ProposeBlockLoop`) | `nextSN`, the pool, the timer channel | `NewRequest`, packaging | two locks in turn; a stale length; timers that nobody waited for |
| Transport (`conn/`) | connection pool, listener, handlers, `msgCh`, `shutdownCh` | `GetConn`, `SendMsg`, `ReturnConn`, `listen`, `handleConn`, `handleMsg`, `Close` | several broadcasts share the pool; each step may fail; shutting down while handlers block |
| Back pressure (`broadcast` to `msgCh`) | buffers, `n.lock` | send, receive, handle | `n.lock` is held while sending into bounded buffers, maybe to a node that has died |
| Signatures (`sign/`) | none | signing, verifying, assembling, `Encode...` and `Decode...` of keys | the index of a share has to survive the encoding; thresholds have to agree |
| Configuration generator (`config_gen/`) | the template, a file for each node | one run writes all the files, or some | errors of writing are ignored: files of different runs may meet |
| Configuration, command (`config/`, `main.go`) | what the process has loaded, listeners, connections | `LoadConfig`, `NewNode`, `StartP2PListen`, `EstablishP2PConns` | a node waits ten seconds for the others, and panics if one does not listen |
| Comparisons (`Equal` methods), JSON encoding, client | none | | not modelled, see below |

How they interact: the generator writes a file for each node, with the keys that
sign and verify everything else. `main` loads it, starts the listeners, waits,
connects to the others, and runs
`ProposeBlockLoop` (if `can_propose_block` is set) and `HandleMsgsLoop`. The
loop takes a value from `candidateHeightUpdated`, picks a candidate block,
draws, and broadcasts either a block or a losing result. A received block is
stored and voted for; a quorum of votes makes a QC; the QC commits the block's
ancestors, and then blocks of the next heights. A block that extends the
candidate chain puts a value in the channel and wakes the loop up.

What makes them correct:

* **Node**: QCs are unique per height; what is committed is certified; no
  handler ends with the lock held or panics; whatever order events arrive in, no
  block, quorum or QC is forgotten; nodes agree on their chains; committed
  blocks are linked; the chain has no holes and grows.
* **Sortition**: a round starts after a quorum lost the one before; rounds never
  fall; nodes that were told the same draw in the same round; every height is
  proposed for.
* **Requests**: none is lost, duplicated or numbered twice; each is packaged.
* **Transport**: a connection has one user and is not leaked; handlers end.
* **Back pressure**: nodes never block each other in a cycle, and a node that
  crashes does not keep the lock of another one taken.
* **Signatures, generator, start-up**: nodes that accept each other's messages can
  make QCs together and, unless their environment says otherwise, agree on whether
  they propose; none acts before all have listened; if all are up, all get to run.

## Modules

| Module | Models | Correspondence |
|---|---|---|
| `Blocks` | blocks, hash links, quorum and threshold | A block is the sequence of what its ancestors and itself contain, as the hash (taken as injective) determines it; `Ancestor` is the walk along `PreviousHash`. |
| `Node` | the consensus | One action per handler, `n.lock` makes it atomic; `go f(b)` adds to `go[n]`, and messages wait in `net[n]`; both are sets whose elements run in any order. A Go map by height is the set of its values. |
| `MCNode` | instances | `RaceSpec` and `FastVotesSpec` are Node with some interleavings left out, see *Bounds*. |
| `NodeProofs`, `ConsensusProofs`, `ChainProofs` | theorems about `Node` | Votes and QCs; the refinement of `Consensus`; the chains, and clusters with one proposer. Each extends the one before. |
| `Consensus` | what the nodes promise together | An abstract specification: proposals, one vote for a height, certification by a quorum, and commitment of certified blocks and their ancestors. `Node` implements it by the mapping `Abstract`. |
| `Sortition`, `SortitionProofs` | the choice of the block to build on, rounds of draws, and theorems about them | The VRF is a free choice that repeats its first answer; blocks come back from whoever won. `selected` is the block read before the round is chosen. |
| `Requests`, `RequestsProofs` | from `NewRequest` to a block | The two critical sections are two actions; ticks are of this round's timer ("own") or of an earlier one's ("old"). |
| `RequestLog` | what a node promises its clients | An abstract log from whose beginning blocks take requests. `Requests` implements it by the mapping `Log`. |
| `Transport`, `TransportProofs` | one `NetworkTransport` | One action per call of a broadcast and per turn of a handler; failures of `net` are free choices. |
| `Flow`, `FlowProofs` | proposals, losing draws and votes through bounded buffers between nodes | A message is its kind. A node has at most two broadcasts under way, and each keeps to its own connection to a peer, from the kernel's buffers to the message that `handleMsg` has read. |
| `Signatures` | `sign/sign_tools.go` | Pure operators: a signature is the key and the data it was made with, a share is a value of a polynomial. |
| `Deployment`, `DeploymentProofs` | the generator, the files, loading, listening, connecting | One action per run of the tool, with the files that get written, and per step of a node's start-up; an operator starts and stops nodes at any time. A start picks the environment, which viper looks into before the file. |

`Blocks` is used by `Consensus`, `Node`, `Sortition` and `Deployment`, and
`Signatures` by `Deployment`. `Node` leaves out of
`ProposeBlockLoop` what `Sortition` (who wins) and `Requests` (what is in the
block) model, each as a free choice, and the other way round; `Transport` and
`Flow` justify that a message is delivered in any order (there are several
connections, and every handler runs in a goroutine of its own) and that sending
ends; `Deployment` and `Signatures` justify that a quorum of votes makes a QC, that
everybody can verify, and that the cluster is connected when the others begin.

A few points of `Node` deserve an explanation:

* `go[n]` is a set. Two pending calls with the same arguments are one element;
  the second of them finds what the first left, and does nothing that a call
  spawned later does not do.
* `tryExtendCandidateChain` stores the *map* `pendingBlocks[h]` in the candidate
  chain, not a copy of it. A block added to one later is in the other, so
  `candidateBlocks` reads `pendingBlocks`.
* `BroadcastVote` is two actions, since it gives up its read lock before it takes the
  write lock: `BroadcastVote`, which looks at `n.voted` and signs, and `castVote`, which
  looks again and sends. In between, the node may vote for another block.
* `broadcast` to a cluster in which a node is down reaches an arbitrary subset; while
  all the nodes run, it reaches all of them (see *Not modelled*).
* `status` records what stopped a node: a leaked lock, the panic of
  `tbls.Recover`, a nil dereference, or a crash. A crashed node does not return,
  since it keeps nothing on disk.
* A message is handled once, though the model's set would absorb a duplicate:
  the transport never sends one twice.

A definition whose comment begins with "Faulty variant" is not used by any
specification. It is a plausible bug in the definition that follows; put in its
place, it makes the property it names fail, which shows that the property can.

## Runs

| Run | Shows | Bounds |
|---|---|---|
| `single_node` | types, certified chains without holes, no forgotten QC or candidate, no handler that fails | 1 node that may stop, height 3, full `Spec`: all orders of goroutines |
| `two_proposers` | unique QCs, no forgotten quorum, proposers never stall, every step is one of `Consensus` | 2 nodes, height 1, one may stop between any two steps of the other; votes for two blocks at once, and quorums that come before the block |
| `one_proposer` | agreement, linked chains, no committed block lost, ancestors that are all there, one proposal for a height, `Consensus`, and every block certified in the end, with one proposer | 2 nodes, 2 contents per block, height 3, fairness |
| `sortition` | rounds need quorums and never fall; nodes end up in the same round; a height is proposed for | 3 nodes, 2 of them proposers, rounds 0 to 2 |
| `requests` | requests are neither lost nor duplicated, nor numbered twice; a wait ends by its own timer; each answered request is packaged; all of it is `RequestLog` | 2 clients, 5 requests, blocks of 2 |
| `transport` | connections are not shared or leaked; handlers do not hang on `msgCh` | 2 broadcasts, 2 peers, pools of 1, 4 connections; 2 handlers |
| `flow` | no cycle of blocked nodes, every message handled; a crash leaves no lock taken | 2 nodes, one of them proposes twice, buffers of 1, either may crash |
| `deployment` | quorums make QCs, all propose or none but by an override, nobody runs early, everybody runs in the end | 3 nodes, one of which may have `CAN_PROPOSE_BLOCK` in its environment; 2 runs of the tool, each with any part of its files lost |

The remaining four runs, `fork_agreement`, `fork_nil_deref`, `late_extension` and
`early_round`, are findings: each checks one statement of the repository, and TLC
finds a behaviour of the code that contradicts it.

**Why the bounds are enough.** Height 3 is the least at which a block with a QC
has an ancestor other than its parent that is not genesis, at which `chain.height`
can fall below a committed block and grow again, and at which QCs of three heights
can be handled in every order. Two nodes have every race between a node's own
messages and another's. Two proposers of three nodes are the least sortition in
which a quorum is not the whole cluster. Requests outnumber a block twice,
connections outnumber the pool, and messages outnumber the buffers: the six of the
two proposals and their votes, to each node, meet two buffers of one message.
Two runs of the tool are the least that can mix files, and of three nodes a quorum
with files of one run may leave out a node with a file of the other.

`single_node` and `late_extension` use the full `Spec`. `RaceSpec`, of `two_proposers`,
lets anything happen while goroutines wait that store a block or vote for it
(`handleNewBlock`, `BroadcastVote`, `castVote`), and nothing but themselves while
others wait. So the quorum may be complete before the block is stored, and two votes of
a node race for `n.voted`: that run fails if `handleNewBlock` does not call
`checkIfQuorumVotes`, or if the second look at `n.voted` is left out.
`FastVotesSpec` makes and delivers a proposal only when no vote is
under way and no goroutine waits; votes are delivered then, and while all that waits
are goroutines that have not stored their block yet, so that a quorum may come before
the block here as well. It leaves the order of the proposals, of the lost draws
between them, of the votes, and of the goroutines; `FastVotesLiveSpec`, of
`one_proposer`, adds fairness.

Both are subsets of the behaviours: a violation found in them is real, and a property
that passes there is checked for those behaviours only. The safety properties of
these runs are proved for all behaviours of `Spec`, for clusters of any size (those of
`one_proposer` for any cluster with one proposer); only `EventuallyCertified` rests on
the run alone. `two_proposers` uses the symmetry of its nodes, both of which propose;
its properties are invariants, and a refinement whose abstract specification has no
fairness. No other run uses symmetry.

In `sortition` there are as many proposers as it takes for a quorum. With
fewer the code has no answer, so no property is checked; see `FewProposersStayBelow`.

**Deadlock** is checked in `requests` and `transport`. The runs of `Node`,
`Sortition`, `Flow` and `Deployment` have `CHECK_DEADLOCK FALSE`: when everything up
to the bound is proposed and handled, or every message is delivered, or the tool has
run as often as it may and some node has no file to start with, nothing is left to
do. That they do not stop before is what `EventuallyCertified`, `EventuallyProposed`,
`AllHandled` and `EventuallyRunning` say.

**Fairness.** Each assumption but one is weak fairness of a goroutine that can run
or of a message that was sent and can be received: the Go scheduler is fair,
`n.lock` is released by whoever holds it (`HandlersReturn`), TCP delivers, and the
liveness runs of `Node` have no crash. In `Requests` a block arrives again and
again, since a block that a node proposes comes back to it. The one strong fairness
is that of `Package` in `Requests`: a node does not lose every sortition from some
time on, which holds of independent random draws with probability 1. In `Sortition`
no such assumption is made, but a draw in the last round up to the bound wins.
In `Flow` some goroutine of a live node runs if one can, and in `Deployment` a node
that waits or connects goes on; a dial to a node that listens succeeds. Nothing is
assumed of clients, of peers that fall silent, of proposing, or of the operator who
starts and stops nodes and runs the tool. `RequestLog` promises that a request which
is accepted is taken (`WF_vars(Take)`), which `Requests` owes to its own fairness.

**Refinement.** `ImplementsConsensus` maps what is proposed to the blocks that have
reached a node or are on their way, what is decided to those with a quorum of voters
and a QC created for their height, and the ballots and chains to `voted` and to the
blocks in `chain`. It says more than the invariants: a vote is for one block of a
height and for ever, nobody commits anything but an ancestor of a certified block,
and proposals, votes and decisions are never taken back.
`ImplementsRequestLog` takes what is packaged, followed by the pool, for the log, so
that serial numbers are fresh and each block has the oldest requests.

## Findings

| Run | The code | What the repository says |
|---|---|---|
| `fork_agreement` | A block of height 1 and a block of height 2 on a competing branch both get QCs; which node commits what depends on the order of the two. | `node_test.go:312`: chains match |
| `fork_nil_deref` | A grandparent that is not a candidate yet is dereferenced (`node.go:339`). | `node.go:314`: it is enough to check the father block |
| `late_extension` | A late QC lowers `chain.height` (`node.go:344`). A block whose chain is as long as the candidate chain is left to `tryExtendChain`, which then looks for the QC of a lower height, consumed already; so the block, though it has its QC, stays uncommitted until the QC of a later block has the chain written anew. | `node.go:317`: `tryExtendChain` conducts the extension |
| `early_round` | Round 1 needs no quorum of losses. | `node_test.go:193`: it does |

The first two need several proposers at a height; `one_proposer` shows that with
one there is agreement. The third happens on a single node; the block is late, not lost,
as long as the node goes on to certify blocks.

Read in the code while modelling, and not the subject of a run:

* `tryExtendChain` does not look at `PreviousHash` (`node.go:355`), so that the
  ancestors of a committed block are not always committed, against
  `node_test.go:318`; the behaviour of `fork_agreement` leads there, too.
* A pool that fills up while the loop waits is not noticed before the timer
  (`node.go:227`), against `node.go:218`.
* Nothing calls `streamCancel`, so closing the transport does not end a handler
  whose peer is silent, against `net_transport.go:57`.
* The first failed `Accept` of a running transport ends its listener
  (`net_transport.go:115`); the delays computed for another attempt are not used.
* No deadline is set on a connection, though `net_transport.go:296` speaks of I/O
  deadlines: the timeout is used for dialling only. A peer that is alive and has
  stopped reading blocks a broadcast, and with it `n.lock`.
* `GetConn` dials with the pool locked (`net_transport.go:265`): while one peer does
  not answer, no broadcast gets or returns a connection to any other.
* Only proposers draw, but a quorum is counted over all nodes (`node.go:252`): with
  fewer proposers than that, round 2 of a height never comes, and a height whose rounds
  0 and 1 all proposers lost is stuck, since the same draws are made again.
* The environment overrides the file of a node (`config.go:66`), with an empty prefix:
  a variable `CAN_PROPOSE_BLOCK`, or one as common as `NAME`, changes one node.
* An expectation of 0 is a valid threshold for `NewSortitioner`; then nobody ever
  wins (`sortition_utils.go:26`).
* `Block.Equal` returns false at the first pair of requests that *is* equal
  (`block.go:56`). The tests compare empty blocks only.

## Proofs

Every safety invariant that a passing run checks is also a theorem, for all
values of the constants; so are the action properties of `Sortition` and `Node`, the refinement
of `Consensus`, and the steps of that of `RequestLog`. The assumptions are those
the modules declare: the cluster is finite and not empty, proposers are nodes of it,
limits and bounds are natural numbers. Where a theorem needs more, its statement
says so.

### Node

`NodeProofs`, about votes, QCs and handlers:

* `QuorumIsThreshold`, `QuorumsIntersect`: the number of votes that makes a quorum
  is the threshold the keys are generated with, and two quorums share a voter.
* `TypeCorrect`: `[]TypeOK`.
* `QuorumNotLost`, `CandidateNotLost`, `QCNotLost`: the three invariants about
  wakeups are inductive given the types. The step that could break each is an
  event that makes its premise true, and the proof shows the goroutine that
  event spawns.
* `OneQCPerHeight`: `[]QCUnique`. `QCUnique` alone is not inductive: it says
  nothing of votes. `QCInv` adds that a node voted once for a height, that
  votes under way and received were cast (`VotesRemembered`), and that
  whatever is certified has a quorum of voters. The voters only grow, and two
  quorums intersect.
* `CommittedIsCertified`: `[]ChainCertified`, from `QCInv` and `EntriesLinked`, by
  which an entry is the ancestor of its QC's block at its own height.
* `NoHandlerFails`: `[]HandlersReturn`, from `HandlersInv`: goroutines on the way
  from a quorum to `pendingBlocksQC`, and the QCs there, have different heights,
  all marked in `qcCreated`, so `handleNewBlockQC` never finds a QC of its height;
  and the votes counted are still there when they are combined.

`ConsensusProofs` proves `NodesImplementConsensus`, `Spec => ImplementsConsensus`:

* The mapping speaks of what is proposed and decided, so the proof first says how
  these sets change: they never shrink, only the loop adds a proposal, and only
  `checkIfQuorumVotes` a decision.
* `QCInv` says nothing of proposals. `ConsensusInv` adds that what a loop selected and
  what is voted for was proposed (or is genesis), that each height marked in
  `qcCreated` has a block with a quorum of voters, and that what any node has a QC
  for is decided.
* `LoopRefines`, `VoteRefines`, `CheckRefines`, `CommitRefines` and `ExtendRefines`
  then map each handler that changes something visible to one step of `Consensus`;
  every other step is a stutter. The step with the most to it is a commitment: all
  the blocks that `CommitAncestorByBlockQC` writes are ancestors of one decided block.

`ChainProofs`, about the chains:

* `ChainWithoutHoles`: `ChainInv` says that the heights of a chain are an interval from
  0 up, with one entry each, in which `chain.height` lies. It lies there even after a
  late QC has lowered it, so what is written next, from the height above it, joins
  the interval or lies inside it.
* `ProposersGoOn`: `LoopInv` says where the value is that the loop waits for. If it is
  neither in the channel nor taken, a block of the node's own, at the height above its
  candidates, has been delivered or will be; when it arrives the candidate chain grows
  and the value is back. Another node's block may get there first, with the same
  effect. The property is about clusters all of whose nodes run.
* `SingleProposals`, `SingleAgreement`, `SingleChainsGrow`, `SingleAncestorsCommitted`
  and `SingleAncestorsFound` assume `Proposers \subseteq {p}` for a node `p`, a
  configuration that the code supports by `can_propose_block`. Without it
  they are false, which `fork_agreement` and `fork_nil_deref` show. The argument is one of
  a token: `SingleInv(p)` says that `p` has either one value in the channel, or a
  selected block at the top of its candidate chain, or neither; and that nothing is
  proposed above the candidates of `p` in the first two cases, and nothing but at the
  next height in the third. So a height is never proposed for twice. With one
  proposal at each height, and ancestors of proposals proposed (`AncestorsProposed`),
  two nodes cannot commit different blocks, a block that is written again at a height
  is the one that was there (`WritersKeepHeights`), the block below a committed one is its
  parent, and a node whose candidate chain has reached a height has the only
  candidate there (`CandidatesFilled`).

### The other components

`SortitionProofs` proves `TypeCorrect`, `RoundsNeedQuorums`, `RoundsNeverFall`, `RoundsMeet`
and `FewProposersStayBelow`. The invariant behind the second is that every result known or
announced is a losing draw that was made, and the other way round, that every losing
draw is known or announced to each node; the third rests on results and `opened`
only growing. For `RoundsMeet`, `[]RoundsConverge`, two nodes without announcements to
handle know the same losing draws, all there are, and the round is a function of
these. `FewProposersStayBelow` assumes fewer proposers than a quorum: no round then ever
has a quorum of losers, so no draw is made above round 1. A node that has lost a
round draws in it again, with the same seed and the same result, until a quorum has.

`RequestsProofs`:

* `RequestsTypes`: `[]TypeOK`.
* `NoStaleTick`: `[]NoStaleTimeOut`, from `RoundInv`: a round that waits has its own
  timer in one of two places and no other; and if the loop does not wait while timers
  are under way, there are enough requests for a block, which stays so until the node
  wins and makes a new channel. So a round that waits begins without old timers.
* `UniqueSNs`: `[]SNsAreUnique`, from `SNInv`: all numbers given away are below `nextSN`.
* `NothingLost`: `[]NothingLostOrDuplicated`. `AddToPool` puts a request at the end of
  the log and extends the client's places in it by that one; `Package` moves the
  boundary between the blocks and the pool, and leaves the log as it is
  (`PackageKeepsLog`).
* `RequestsImplementLog`: the initial states and the steps of `RequestLog`. Its
  fairness is the part of `ImplementsRequestLog` that TLC alone checks.

`TransportProofs`: `TransportTypes`; `ConnsNotShared` and `ConnsNotLeaked`, from
`ConnInv`: the pool of a peer holds connections to that peer, a broadcast has one
connection at most, and has one if it has written; every connection that is open has
one owner. The four lemmas `...KeepsOwners` take `GetConn` from the pool, by
dialling, an error, and `ReturnConn` in turn.

`DeploymentProofs`: `DeploymentTypes`; `QuorumsCertify` and `TemplateObeyed`, from
`FilesInv`: there is a value of `can_propose_block` for each run of the tool, with
which every file, and every configuration loaded, was written in some run, but for
the flag of a node whose environment overrides it. A node
accepts messages only of nodes whose configuration is of the same run
(`AcceptedInRun`); within a run the generator's numbering gives different shares
(`SharesDiffer`), decoding undoes encoding (`KeysDecoded`), and the quorum is the
threshold, so a quorum's signatures make one that all verify (`QuorumOfRunMakesQC`).
`AllListened` rests on `ListenInv`: a node is connected to nodes that have listened.
The cryptography is that of `Signatures`, hence ideal.

`FlowProofs` proves `FlowTypes`, whose part that matters is the limit of the buffers.
`FlowInv` is `TypeOK` with the domains of the functions spelled out.

### Only model-checked

* Liveness: `EventuallyCertified`, `EventuallyProposed`, `EventuallyPackaged`,
  `HandlersDoNotHang`, `AllHandled`, `LocksReleased`, `EventuallyRunning`, and the
  fairness of `RequestLog` in `ImplementsRequestLog`. They need `ENABLED`, which is
  out of the prover's reach.
* The absence of deadlock in `requests` and `transport`, for the same reason.

## Not modelled

* Forged signatures: in `Node`, a signature verifies if and only if it was made, and
  nodes are honest; so errors of verification and of `createIntactSig` do not
  occur. The handling of such messages, which is to log and drop them, is left out.
  `QuorumsMakeQCs` of `Deployment` shows that messages which are accepted can be
  combined.
* The mathematics of `sign`: ed25519 and kyber are ideal in `Signatures`.
* `core/utils.go`: JSON encoding, taken as injective. The `Equal` and `String` methods,
  which only tests and log lines use.
* `client`: one call over RPC, which `Requests` has as its environment. The Ansible
  scripts: that they copy any part of the files is in `Deployment`.
* Data races. Maps read without a lock (`node.go:227`, `237`, `588`) are atomic
  reads here; a crash of the runtime because of one is a `Crash`.
* The stopping of a node through its `shutdownCh`, which only tests close.
* Restarts during the consensus: nothing is persisted, and a node that comes back has
  the same keys but an empty state, which the code does not handle. `Deployment` has
  restarts, and only says what holds of the keys and of the start-up.
* An error of sending while all the nodes run, for example when file descriptors run
  out: `Recipients` of `Node` loses messages only if some node is down, and `Sortition`
  none. `ProposerNeverStalls`, `RoundsConverge` and the liveness properties need that; the
  others of `two_proposers` and `single_node` have a node that may stop.
* Clusters with one proposer do not come from the generator, whose template says that
  all nodes propose or none; it takes an override in the environment, or flags set by
  hand as in `node_test.go:362`.
* Other variables of the environment than `CAN_PROPOSE_BLOCK`: names, keys and
  addresses come from the files.
* A peer that is alive and has stopped reading, for which `Flow` has no answer since
  the code has none.

## Plan

1. Done: `Blocks`, `Node` and its proofs first, since they carry the system; then
   `Sortition`, `Requests`, `Transport` and `Flow`; the abstract specifications
   `Consensus` and `RequestLog` and the refinements; and `Signatures` and `Deployment`,
   from the template to a running cluster.
2. Done in proofs: every safety invariant and action property, the refinement of
   `Consensus` and the steps of `RequestLog`. Next, for `Flow`: that messages are
   neither lost nor duplicated without a crash, which needs sums over its buffers.
3. Next in modelling: a composition of `Sortition` with the candidate chain of `Node`;
   the comparisons, against a definition of equality.
