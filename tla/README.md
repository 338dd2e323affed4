# Specifications of BitXHub

BitXHub is an interchain relay: application chains register with a hub, their
piers send the hub IBTP messages, and the hub records every cross-chain
transaction, routes it, and decides whether it took effect on both chains or is
rolled back. This directory holds TLA+ models of the hub, the TLC configurations
that check them on small instances, and proofs, checked by TLAPS, that hold for
every instance. Paths below are relative to `src/`.

## The system

A node of the hub is a pipeline. The **API** takes transactions in; the
**mempool** orders those of one account by nonce and cuts batches; an
**ordering node** (solo, raft or smart BFT) agrees on the sequence of batches; a
node that is behind **synchronises** blocks from its peers; the **executor**
verifies signatures and proofs, runs each batch as a block against the **state
ledger** through the **contracts**, and closes the block; the **ledger** persists
block and state; **feeds** hand the block to the router, which serves the piers,
and to the filters of the Ethereum API. Beside the pipeline, piers of one
application chain agree on a main one, and clients ask for threshold signatures.

The contracts fall into two groups. `InterchainManager`, `TransactionManager` and
`InterBroker` move cross-chain transactions. `Governance` and the managers of
roles, chains, rules, services, dapps, nodes and domains keep the objects that
proposals register, freeze, activate and log out.

## Modules

| module | models | code |
| --- | --- | --- |
| `TxFsm` | the status machine of a transaction and the tables from IBTPs to events | `internal/executor/contracts/transaction_manager.go` |
| `CrossTx` | abstract: one verdict per transaction, never revised, and only that one announced | the promise of `docs/docs/bitxhub/design/interchain_transaction.md` |
| `Interchain` | one-to-one IBTPs: `HandleIBTP`, records, timeout lists, the end of a block | `contracts/interchain.go`, `transaction_manager.go`, `internal/executor/handle.go` |
| `MultiTx` | one-to-many IBTPs: `BeginMultiTXs`, `changeMultiTxStatus`, timeouts of groups | the same files |
| `Broker` | calls between contracts of the hub and other chains: counters of `InterBroker` and of the interchain manager | `contracts/inter_broker.go` |
| `Ratings` | evaluation of services and records of their invocations | `contracts/service_manager.go` |
| `Governance` | the proposal book: votes, locks, priorities, strategies (operators on a book) | `contracts/governance.go`, `proposal_strategy.go` |
| `Roles` | governance administrators, electorates and strategies under proposals | `contracts/role.go` |
| `Chains` | application chains with names, administrators, rules and services | `contracts/appchain_manager.go`, `rule_manager.go`, `service_manager.go` |
| `Dapps` | dapps, their names, contracts, owners and transfers | `contracts/dapp_manager.go` |
| `Nodes` | consensus and audit nodes, audit administrators and their binding | `contracts/node_manager.go`, `role.go` |
| `Naming` | domains, sub-domains, prices, expiry and service data | `contracts/service_registry.go`, `service_resolver.go` |
| `StateJournal` | change logs, revisions, revert and finalisation of transactions | `internal/ledger/state_accessor.go`, `state_changer.go` |
| `BlockLedger` | the three stores of a block, the journal window, crash, start, rollback | `internal/ledger/ledger.go`, `chain_ledger_impl.go`, `simple_ledger.go` |
| `Execution` | signature and proof stages, execution, fees, undoing, the service cache | `internal/executor/executor.go`, `handle.go`, `pkg/proof` |
| `TxPool`, `Mempool` | the pool and its indexes as operators, and a node around it | `pkg/order/mempool` |
| `Solo` | the solo node: event loop, proposal goroutine, timers, transaction cache | `pkg/order/solo` |
| `RaftOrder` | the raft node: proposals, publication, elections, crashes, snapshots | `pkg/order/etcdraft/node.go`, `util.go` |
| `RaftStorage` | the raft log, its segments and snapshot files | `pkg/order/etcdraft/storage.go` |
| `StateSyncer` | fetching and verifying ranges of blocks, crash and byzantine | `pkg/order/syncer` |
| `Delivery` | block feed, event loop, router, piers, block streams | `internal/app/feedhub.go`, `internal/router`, `api/grpc/subscribe.go` |
| `EventFilters` | installation, event loop and timeout loop of filters | `api/jsonrpc/namespaces/eth/filters` |
| `LogQuery` | log queries over a range, with bloom filters | `filters/filter.go`, `internal/coreapi/broker.go` |
| `PierMaster` | the lease of the main pier and the messages about it | `pkg/peermgr/piermgr.go`, `api/grpc/pier_monitor.go` |
| `TssSigning` | requests for threshold signatures, signers, rounds, culprits | `api/grpc/sign.go`, `pkg/tssmgr/keysign.go`, `pkg/peermgr/handle.go` |

The modules `MC...` instantiate these for TLC; the modules `...Proofs` and
`MultiTxPromise` hold the theorems. In every module a variable is a ledger entry, a field or a local of the
code, an action is a whole handler or the part of it between two points where
another goroutine can run, and the comment of a section names the functions.
`PROJECT.json` maps every definition to the lines it stands for, and lists the
hazards of the code with the properties that watch them.

### Conventions

* A request that fails a check changes nothing and is no step. Contracts run one
  transaction after the other, so a transaction is one action; governance modules
  rest on a failed transaction leaving no trace, which `StateJournal` models (see
  the observation on `ClearChangerAndRefund` below for its limits).
* Operators of the governance modules return the state after a call as a record
  with a field for an error, as the Go code returns an error: `Manage` of a
  contract is called inside `Vote`, `WithdrawProposal` and `ZeroPermission`.
* Histories (`told`, `published`, `produced`, `emitted`, `held`) record what the
  code has sent to others and are read by properties only.
* Payloads, names and addresses are model values; proofs and signatures are
  verdicts; heights and amounts are numbers with the bounds of the code where
  overflow matters (`MaxUint64`, `Word`).
* External code is modelled by how the repository uses it and marked so: the raft
  library (agreement on a log, a proposal waits while there is no leader, proposals
  are not forwarded), write-ahead log and snapshot files (`Save` is atomic), event
  feeds of go-ethereum, bloom filters, the threshold signature library (a round of
  honest parties that all take part succeeds, any other fails), the status machines
  of bitxhub-core, and `pb.StatusChange.NotifyFlags` of bitxhub-model. The last is a
  constant whose value in the MC modules is inferred from how `interchain.go` uses
  it; the proofs hold for every value by which the source is not told of its own
  request being begun.

### Notes on single modules

`Interchain`: the counters of both ends of a channel, the index entries, the
records, the timeout lists and what the source was told. Piers may send anything at
any time. A notification comes from the hub of the destination, so only for a
request of a closed block. `Uint64` is the conversion of the int64 `TimeoutHeight`,
negative values included. Services are registered: for one that is not,
`RecordInvokeService` fails, which `recordService` ignores, while the model always
counts the invocation. `MultiTx`: the lists the contract writes are sets of
children; Go ranges over a map to write them, and only `ChildIBTPIDs` is sorted.
All children of a group carry the same timeout. Single and group transactions are
not run together, so an effect of one on the list of the other is not covered.

`Roles`, `Chains`, `Dapps`, `Nodes`: administrators outside `Roles` are fixed.
`WithdrawLocked` of `Chains` says whether a proposal that is locked may be withdrawn;
the runs leave it out, since the restored proposal then decides an object that has
moved on (see below).

`Execution`: the events of services, transfers and fees; node, audit and interchain
events, nonces, the EVM and the view executor are left out. The genesis block is
the initial state. `Solo`: `beat` makes one step of whatever goroutine can go
(`CanGo`); late timer events are present. `RaftOrder` leaves late timer events out.
`RaftStorage` leaves compaction and the replacement of entries out. `EventFilters`:
a critical section of `filtersMu` is one step. `LogQuery`: one query on a growing
chain. `TssSigning`: key generation and the branch of `getLocalTssSign` for nodes
without threshold signatures (unreachable, `api/grpc/sign.go` 205-225) are left out.

## Runs

Components of one layer are checked together: the module `MC...` instantiates them,
its variable `part` names in the first state the one that a behaviour runs, and the
variables of the others keep their initial values. The components of a run share no
state, so this checks each of them as a run of its own would; a property of such a
run speaks of one part, or is the conjunction of what is asked of several.

| run | parts | what it shows |
| --- | --- | --- |
| `interchain` | a channel between two chains of the hub, a channel to another hub | counters of both ends agree, receipts can always go on, the source is told one verdict, and the hub implements `CrossTx` |
| `groups` | two groups of two children, one behind the other on both channels | the state of a group fits its children, counters move in order, and the hub implements `CrossTx` for whole groups |
| `services` | broker, channels between hubs, hub and unordered services, ratings | counters agree, `InterBroker` is in step with the interchain manager, scores and counts are exact |
| `governance` | administrators with strategies, administrators in depth, a chain with rules, a chain with a service | somebody can always vote, what waits has a proposal, locks match, a chain has one name and one master rule, its services come back with it |
| `registries` | dapps, transfers of dapps, domains, expiry, consensus nodes, audit nodes | claims, indexes, owners and members agree whichever way proposals end |
| `storage` | ledger, journal of a transaction, of a block, raft log of a node, of a follower, execution by two nodes, money, proofs, logs | stores agree and can be rolled back over crashes, a failed transaction leaves nothing, the raft log reopens, nodes agree, no money is made, bad proofs fail, queries are exact |
| `ordering` | solo by size and by time, pool of a leader by size, by time and with sweeps, of a follower, raft with an election, with two, with a crash, with snapshots, by time | nothing is ordered twice, lost or out of order, indexes of the pool agree, nodes execute the same blocks |
| `network` | filters, synchronisation (`cft`, `bft`), piers, blocks, signing rounds, a newcomer | no event and no block is lost, the quorum's chain is executed, no main pier is displaced, signatures are genuine |
| `liveness` | timeouts, solo, `cft`, `bft`, piers, blocks, events, signing | what must happen in the end does |
| `undone`, `ledger_crash`, `raft_twice` | | violated: see Observations |

### Bounds

A bound is a constant, or a conjunct of the action it limits, and has a name.

* `interchain`: three indices, so that a transaction has one before and one behind it;
  timeouts 0 (none), 1 and -3, which becomes a height that no block reaches, with three
  blocks, so that a receipt comes before, in and after the block of the timeout;
  `MaxUint64` = 5 makes heights reach the clamp. The channel to
  the other hub has two indices, which may come back as notifications. One destination
  goes down and comes up again.
* `groups`: two groups with the same destinations and two children each, the least in
  which a group is partly answered while another waits behind it; timeouts -3, 0, 1 and 2.
* `services`: three pairs of services and three calls per pair; up to two requests on
  channels between hubs; ratings of three callers with the scores 0, 1, 5 and the
  refused 6, and four calls. Scores are kept in units of 1/420, a common multiple of the
  numbers of callers, so that rounding does not hide a wrong weight.
* `governance` and `registries`: three proposals allow one to lock another and a third to
  meet what they leave, four or five where the object is one only. Two names, two
  accounts and two rules are the least for a conflict. The two parts for dapps trade
  contracts against longer histories of transfers, those for domains the tree against
  prices and expiry, those for nodes consensus against audit nodes.
* `storage`: a window of two journals and five blocks, so that journals are dropped and
  a rollback meets the end of the window; two crashes and two rollbacks. Raft segments
  of two entries and two snapshot files, so that both kinds of file are purged. Blocks
  of up to five IBTPs in groups of two or four with every position of one or two wrong
  ones. Two of the addresses and topics share a bit of the bloom filter.
* `ordering`: three or four transactions of two accounts, whose order of arrival differs
  from that of their nonces, or of which two have one nonce; batches of two; the solo
  pool hears of every second block (every tenth in the code). Raft has two nodes, which
  are alike (symmetry), and one election; `raft elections` has two, with two transactions
  for one nonce, so that different leaders batch different blocks for a height. The parts
  with a crash have one, the least after which a log is replayed.
* `network`: three events; synchronisation to height five in ranges of two from three
  peers that fail at any time, or four of which one is on another branch; three piers at
  two nodes with three calls; channels of capacity one, two blocks, a pier that leaves
  and comes back; two requests for signatures, of which one may find a round taken.

The other runs than `interchain` and `groups`, whose destinations can always go down or
come up, stop at a bound, at the end of a history of proposals, or after the last
request of a client, and so say `CHECK_DEADLOCK FALSE`.

### Fairness

Only `liveness` assumes any, weak fairness for code that goes on by itself:

* `timeouts`: blocks keep being closed. This is a condition on the use of the hub, not a
  promise of the code: timeouts are counted in blocks, and with the default configuration
  (`timed_gen_block` has `enable = false` in `config/order.toml`) the ordering node makes a
  block only when transactions are waiting. On a hub without traffic no timeout fires
  unless timed blocks are enabled. Nothing is assumed of piers.
* `solo`: `Solo` makes one step of a goroutine that can go with each `beat`; fairness is
  on the beat, so no goroutine is preferred.
* `cft`, `bft`: the loop of `SyncCFTBlocks` and `SyncBFTBlocks` and the consumer of its
  channel. Peers in `Reliable` answer what they are asked; without one nothing can end.
* `piers`: the goroutines of the three calls, and messages arrive in time (`Timely`).
* `blocks`: each goroutine of the feeds, the router and the handler of the stream that
  reads. None for the client in `Slow`, which never reads.
* `events`: the event loop, the timeout loop and the goroutines of the filters. None for
  clients that poll.
* `signing`: the goroutine of the request, and a round that ends one way or the other;
  `Blames`: a round that fails names a culprit.

Each property has the form `[]<>~W` for a wait `W` of one request, call, client or event,
which is the same as `W ~> ~W`: no wait lasts for ever.

## Proofs

The proofs are about the specifications that the runs instantiate, for every value of
the constants that satisfies the assumption of its module. The assumptions are about
the shape of constants (sets, functions with the right domain, bounds that are natural
numbers) unless said otherwise below; TLC evaluates them for the values of the runs.

* `InterchainProofs`. `TypeCorrect` includes that heights stay within uint64.
  `CountersAgree` needs `BookInv`: exactly the indexed transactions have a record, the
  open block and the timeout lists name only those, and on plain channels (ordered
  services of chains of this hub) none is beyond the counter. `IInv` adds three facts of
  a transaction of a plain channel. `ListInv`: the list it is on, or will be put on when
  the block closes, is that of its record's height, and if it has succeeded its receipt
  is in the open block, so that it is off the list before the list is read. `OpenInv`:
  those above the receipt counter are not settled. `ToldInv`: what the source was told is
  the verdict of the record. Without `ListInv` the end of a block could roll back a
  success. `NeverWedged`, `ToldOneVerdict` and `Implements` follow; `Implements` maps a
  record to a verdict of `CrossTx` and shows every step to be one of that module or none.
  The three are about plain channels since other channels break them (see below).
* `MultiTxProofs` and, for the refinement, `MultiTxPromise`. `StatusesAlwaysFit` is
  inductive with the types. `GroupBooks` needs
  `AnsweredInTurn`, because the receipts of a group are counted at once when the last
  settles it and only the last one's index was compared: a child answered while its group
  is open waits at the place the counter will move to. `GroupsImplement` needs `OnTime`:
  the lists of blocks to come name groups in BEGIN only, each once and at its own height.
  A list is a sequence from which `removeFromTimeoutList` takes one place and in which an
  empty string can stand, so the lemmas about lists come first.
* `BlockLedgerProofs`. `LedgerInv` says, for each mode of the ledger (ready, persisting,
  down, recovering, rolling back, truncating), how far the three stores are from each
  other and which journals are there. The theorems have the hypothesis
  `CrashPoints \subseteq SafePoint`: the crashes after which the stores are in an order
  that the start repairs. It cannot be dropped: `ledger_crash` has the crash points of
  the code without it and violates `Recoverable`.
* `EventFiltersProofs`. `EventsInv` (each event is in one place of the queues until it was
  broadcast to the filters in the index), `LifeInv` (a filter's goroutine, index entry,
  listing and unsubscription are in step) and `DataInv` (what a filter was handed is in
  its hand, waits to be polled or was returned, and in one of them only).
  `FiltersLoseNothing` follows.
* `DeliveryProofs`. `DeliveryLosesNothing` is the `NothingLost` of `Delivery`, of which the
  run `network` checks an instance as `NoBlockLost`. `RouterInv`: a served stream is in its
  feed, a pier's is the only one of that pier and the stored one, and the counter counts
  them. `TasksInv`: a send that is in no feed has nobody left. `BlocksInv`: a block executed
  since a stream was opened was read, is in the channel, is carried to the stream by a
  send, or is about to be sent. The hypothesis `One` is one stream per pier at a time and
  that `listenEvent` subscribes before a block is executed; without either a block is
  lost (see *Delivery* below).
* `TssSigningProofs`. `SignaturesGenuine` is the `Genuine` of `TssSigning`, of which the
  run `network` checks two instances, for all sets of faulty parties, whatever the nodes
  store and the network loses. `MadeInv`: what a request or an answer holds on its way to
  a reply was made by a quorum of honest parties; `RoundsInv`: an open round has a quorum of
  signers, which is what makes its signature count.

* `RaftOrderProofs`. `BooksInv` is about one node: what it counts as executed is its chain
  and its queue, and every recorded index, in memory or on disk, is that of an entry whose
  height is not above the block it was recorded for. `RaftTypeCorrect` and `RaftDiskBehind`
  need no more, and hold over any number of elections, crashes and snapshots.
  `RaftChainsAgree` compares nodes, which share only the log. The invariant says that there
  is a `Path` through the committed log: block *k* is at the first entry after that of block
  *k* - 1 that has its height. It is a function of the log, so a node whose blocks are those
  of the path (`OnPath`) agrees with every other that is; a commit extends the path and
  nothing else changes it. A node stays on it if what it applies next is not behind the
  entry of its next block. Without a crash that is `Steady`: the node, and its snapshot,
  have applied the entry of their last block and not that of the next. A restart applies
  entries again from an older index at an older height; then `NoneAbove` is needed: no
  entry already applied was above the height expected. The property has the hypothesis
  `Undisturbed` for this reason (see *Ordering* below), and so has the invariant.

Along with a theorem's own invariant each proof has one lemma per action; frame lemmas
("a step that leaves x alone keeps ...") serve the actions that touch little.

### Only model-checked

* Liveness: TLAPS has neither fairness nor ENABLED in the version used.
* `LogQuery`, `StateJournal`, `TxPool`, `Mempool`, `Solo`: the properties are about folds
  over logs, change logs or batches, and need induction over data. For the same reason
  `ExecutedOnce` and `OnlyOldPassedOver` of `RaftOrder`, which depend on what a pool
  batches, are not proved; the theorems about `RaftOrder` hold whatever a pool returns.
* `Roles` and `StateSyncer` use recursion (`Manage` calls itself through the governance
  contract; ranges are computed one from the other).
* `Chains`, `Dapps`, `Nodes`, `Naming`, `Governance`: a decision changes a proposal book
  and several registries at once through operators on nested records.
* `RaftStorage`, `Execution`, `PierMaster`, `Ratings`, `Broker`: their invariants are
  checked only.

## Observations

Writing the models met places where the code does not do what a comment, a document or
a test of the repository says. Three are kept as runs that TLC finds violated; they are
the findings of `PROJECT.json`.

* `undone` (`internal/executor/contracts/transaction_manager.go:296`): `Report` looks for
  children in SUCCESS after `changeMultiTxStatus` has set them all to BEGIN_FAILURE, so the
  destination of a child that succeeded is never told to undo it.
* `ledger_crash` (`internal/ledger/ledger.go:96`): the three stores are written from three
  goroutines in no order; a crash can leave the chain meta ahead of the state, and the
  node does not start again.
* `raft_twice` (`pkg/order/etcdraft/node.go:720`): the pool learns of a block when its
  execution is reported; a leader elected in between batches its transactions again.

The others shaped the models: each is present in a module, and the property it would
break is asked where it does not reach, as named here.

*Interchain.* A failure receipt does not take its transaction off the timeout list
(`handle.go:903`), so `CrossTx` allows an abort to be announced twice but not changed. On the
source hub a transaction is filed under a height its record does not have
(`interchain.go:499`); `BeginInterBitXHub` starts from an empty record
(`transaction_manager.go:186`); the receipt of an unordered service is not taken off the list
(`handle.go:1115`), and a request to one is begun again, over a record that was settled, when
it is repeated (`transaction_manager.go:160`). `KeepsPromise` is therefore about plain
channels. `addToMultiTxNotifyMap` takes the destination of every child from the first of its
list, so with three children a chain can be told to undo what it was not sent
(`interchain.go:713`). An emptied timeout list
is stored as the empty string and the group added to it next is not rolled back
(`transaction_manager.go:399`), so no liveness is claimed for groups. `Report` and
`getTimeoutIBTPsMap` write lists in the order of a Go map (`handle.go:1057`); the
model keeps sets.

*Broker and ratings.* A call by an EVM transaction that the interchain manager refuses
leaves `OutCounter` ahead (`handle.go:681`); `ByEVM` says whether there are such calls.
`InvokeInterchain` cannot reach a contract from `CrossInvoke` (`bolt_stub.go:163`).
`InvokeSuccessRate` weighs a call wrongly (`service_manager.go:740`); `RatingsExact` is about
the score and the count.

*Governance.* `LogoutRole` reads the role after it was moved and never lowers the electorate
(`role.go:649`), which can leave a strategy nobody can meet.
`UpdateAvailableElectorateNum` decides special proposals without a super administrator and
paused ones too (`governance.go:897`, `903`). `unlockLowPriorityProposal` reopens a proposal
that was closed while paused (`governance.go:806`), and `UnLockLowPriorityProposal` does not
ask who paused it (`governance.go:778`). A rejected logout of a chain resumes the services
of one that returns to being updated or frozen (`appchain_manager.go:213`); administrators
on both the old and the new list of an update are freed (`appchain_manager.go:322`, `359`), and
ids of former ones stay in the map (`role.go:542`). The index of dapp names keeps the old name
(`dapp_manager.go:269`). The overflow check of `Renew` adds to another time than the renewal
(`service_registry.go:158`). An audit node can stay in binding for ever (`role.go:347`), or be
bound while a former administrator keeps it (`node_manager.go:211`); a rejected logout can
fail on the restored binding (`role.go:115`) and a withdrawn binding can bring a node back
from logouting (`node_manager.go:667`); names of updates overtaken by a logout are not freed;
genesis nodes do not occupy their pids (`genesis.go:81`).

*State and execution.* `ClearChangerAndRefund` gives the ledger a new change log, but
accounts loaded before keep the old one (`state_accessor.go:499`): what a later transaction
of the block writes to them is not undone, so `Undone` is asked of the first transaction of
a block. `CrossInvokeEVM` finalises in the middle of a transaction (`bolt_stub.go:208`), and
contexts of `CrossInvoke` have no change instance for parallel groups
(`state_accessor.go:484`). A service event of a transaction that cannot pay reaches the cache
although its change was undone (`handle.go:422`), so `NodesAgree` is asked with enough money.
A proof that its rule refuses makes `verifyProofs` use a nil error (`executor.go:308`);
`died` records it. `GetBlockHeaders` answers nothing for block 0 (`broker.go:154`).

*Ordering.* A commit can pass the pending nonce (`mempool_impl.go:259`);
`RemoveAliveTimeoutTxs` removes nonces of other accounts (`mempool_impl.go:401`), so sweeps are
run with one account; a replaced transaction leaves its hash behind (`tx_store.go:73`). The
solo node stops its timer although transactions are left over (`solo/node.go:227`), so the
liveness part has a batch that is not filled, and reports every tenth block only
(`solo/node.go:235`). A raft snapshot can cover a block that is not on disk (`util.go:124`):
after a crash the node starts behind the block's entry and, elected, orders another block at
its height. A batch that was lost with a change of leader leaves one in the log that is too
high and is passed over (`etcdraft/node.go:612`); a node that replays the log after a crash
can meet it at a lower height than the others did, and mint it where they minted a later one.
`ChainsAgree` is asked outside these two cases (`Undisturbed`);
a new leader batches while entries are in flight (`util.go:78`); the main loop and `Propose`
can wait for each other (`etcdraft/node.go:342`); a synchronisation of nothing never ends
(`util.go:154`). `Store` saves the commit index of a received snapshot before the snapshot
(`storage.go:215`), so the part of a follower has no crash. The state syncer never takes a
peer off `badPeers` (`state_syncer.go:75`) and fetches one block more than `blockFetch` when it
begins at a multiple (`state_syncer.go:233`).

*Delivery and piers.* A pier that reconnects before its old stream has ended loses the new
subscription (`router/interchain.go:81`): `Overlap`. A block executed before `listenEvent`
subscribes is sent to nobody (`feedhub.go:24`): `ListenFirst`. A pier that does not read
keeps blocks from the others (`router/interchain.go:113`). `CheckMaster` tests and removes a lease
under two locks (`piermgr.go:93`), `checkMasterPier` closes its channel before `SetMaster`
(`pier_monitor.go:41`), `writeChan` can wait for `closeChan` (`piermgr.go:221`) and two
calls at one node share a channel (`piermgr.go:26`): what is asked is that a node does not
replace a main pier that is alive, and that calls return with one pier per node.

*Signatures.* `getRemoteTssSign` takes any signature that verifies, also of another request
(`sign.go:182`), so `Genuine` speaks of the request a signature was made for and not of the
one that was asked. `HandleCulprits` drops the element before the culprit as well
(`sign.go:157`). A node without parties of its own indexes an empty slice after a timeout
(`sign.go:135`).

## Not modelled

* The smart BFT ordering plugin, whose agreement is a library; the p2p network and block
  transport beyond the messages above; the EVM and the WASM machine; the Merkle trees of
  receipts and of the state; the storage engines.
* gRPC and JSON-RPC calls that only read; audit and node events of the executor; the view
  executor; the commands, the configuration, profiling and logging.
* Key generation of threshold signatures, which is a library's protocol.

`PROJECT.json` lists each part of the system with what is and is not modelled of it.
