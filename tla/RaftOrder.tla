------------------------------ MODULE RaftOrder ------------------------------
(***************************************************************************)
(* The raft ordering nodes (pkg/order/etcdraft): pools and batches, the    *)
(* proposal goroutine, the entries raft commits, execution and its         *)
(* reports, snapshots, crashes.  The raft library is external: one log,    *)
(* a commit index, elections that keep what is committed.  Propose waits   *)
(* while the node's raft core knows no leader and fails when it knows      *)
(* another one; ticks and messages reach the core through the main loop.   *)
(***************************************************************************)
EXTENDS TxPool

CONSTANTS Node,
          SnapCount,    \* snapshot_count
          MaxLog,       \* bound: length of the log
          MaxElect,     \* bound: elections
          MaxCrash      \* bound: crashes
ASSUME RaftAssumption == {SnapCount, MaxLog, MaxElect, MaxCrash} \subseteq Nat

None == "none"
Empty == NoBatch
Genesis == 1
ChainHeight(r) == Genesis + Len(r.chain)

VARIABLES
    nd,       \* node -> its state
    log,      \* raft's log: batches and empty entries
    commit,   \* how much of it is committed
    lead,     \* the leader the others elected
    elects, crashes,
    tooNew    \* history: a batch above the expected height was passed over
vars == <<nd, log, commit, lead, elects, crashes, tooNew>>

\* NewNode, Start and run: what a node is after a (re)start, given what it has
\* on disk: chain (executed blocks), db (the applied index), snap.
Started(chain, db, snap) ==
    [view |-> None, core |-> None, just |-> FALSE, timer |-> FALSE,
     pool |-> newMempoolImpl(Genesis + Len(chain)), got |-> {},
     prop |-> NoBatch, loop |-> "select", hand |-> NoBatch,
     applied |-> snap.index, lastExec |-> Genesis + Len(chain),
     bai |-> [h \in {Genesis + Len(chain)} |-> db],
     queue |-> <<>>, reports |-> {}, chain |-> chain, db |-> db, snap |-> snap]

LedgerOf(r) ==
    LET done == UNION {Range(r.chain[i]) : i \in DOMAIN r.chain} IN
    [a \in Accounts(Tx) |-> Max({0} \cup {t.nonce + 1 : t \in {u \in done : u.acc = a}})]
getBlockAppliedIndex(r) ==
    LET S == DOMAIN r.bai IN
    IF S = {} THEN 0 ELSE r.bai[CHOOSE h \in S : \A k \in S : k <= h]
isLeader(r, n) == r.view = n

-----------------------------------------------------------------------------
(* Transactions and batches. *)
DropsWhenBusy(r, batch) ==  \* mutant: a batch is dropped while another one is proposed
    IF batch = NoBatch \/ r.prop # NoBatch THEN r ELSE [r EXCEPT !.prop = batch]
\* postProposal: the loop waits while the proposal goroutine is busy.
postProposal(r, batch) ==
    IF batch = NoBatch THEN r
    ELSE IF r.prop = NoBatch THEN [r EXCEPT !.prop = batch]
    ELSE [r EXCEPT !.hand = batch, !.loop = "blocked"]

processTransactions(r, n, t) ==
    LET res == ProcessTransactions(r.pool, <<t>>, IsTimed \/ isLeader(r, n), TRUE, LedgerOf(r)) IN
    postProposal([r EXCEPT !.pool = res.pool, !.got = @ \cup {t},
                           !.timer = (@ \/ (~IsTimed /\ isLeader(r, n))) /\ res.batch = NoBatch],
                 res.batch)

\* Prepare, and the broadcast sets of other nodes.
Receive(n, t) ==
    /\ nd[n].loop = "select" /\ nd[n].view # None /\ t \notin nd[n].got
    /\ nd' = [nd EXCEPT ![n] = processTransactions(@, n, t)]
    /\ UNCHANGED <<log, commit, lead, elects, crashes, tooNew>>

processBatchTimeout(n) ==
    LET r == nd[n]
        res == IF isLeader(r, n) /\ r.pool.store.count > 0 THEN GenerateBlock(r.pool, LedgerOf(r))
               ELSE [pool |-> r.pool, batch |-> NoBatch] IN
    /\ r.loop = "select" /\ r.timer
    /\ nd' = [nd EXCEPT ![n] = postProposal([r EXCEPT !.pool = res.pool,
                                                      !.timer = res.batch # NoBatch], res.batch)]
    /\ UNCHANGED <<log, commit, lead, elects, crashes, tooNew>>

processGenerateBlockTimeout(n) ==
    LET r == nd[n]
        res == GenerateBlock(r.pool, LedgerOf(r)) IN
    /\ IsTimed /\ r.loop = "select" /\ isLeader(r, n) /\ Len(log) < MaxLog
    /\ nd' = [nd EXCEPT ![n] = postProposal([r EXCEPT !.pool = res.pool], res.batch)]
    /\ UNCHANGED <<log, commit, lead, elects, crashes, tooNew>>

\* handleRequestMsg: a failed Propose is logged and no more.
handleRequestMsg(n) ==
    LET r == nd[n] IN
    /\ r.prop # NoBatch /\ r.core # None
    /\ r.core = n /\ lead = n => Len(log) < MaxLog
    /\ log' = IF r.core = n /\ lead = n THEN Append(log, r.prop) ELSE log
    /\ nd' = [nd EXCEPT ![n] = [r EXCEPT !.prop = r.hand, !.hand = NoBatch,
                  !.loop = IF @ = "blocked" THEN "select" ELSE @]]
    /\ UNCHANGED <<commit, lead, elects, crashes, tooNew>>

-----------------------------------------------------------------------------
(* Raft's side. *)
\* The others elect m; what was not committed may be lost.
Elect(m, k) ==
    /\ elects < MaxElect /\ lead # m /\ nd[m].loop = "select" /\ Len(log) < MaxLog
    /\ log' = Append(SubSeq(log, 1, k), Empty)
    /\ lead' = m /\ elects' = elects + 1
    /\ nd' = [nd EXCEPT ![m].core = m]
    /\ UNCHANGED <<commit, crashes, tooNew>>

Commit ==
    /\ lead # None /\ commit < Len(log)
    /\ commit' = commit + 1
    /\ UNCHANGED <<nd, log, lead, elects, crashes, tooNew>>

\* A tick or a message tells the node's core that its leader is gone, or who leads.
Learn(n) ==
    /\ nd[n].loop = "select"
    /\ \E l \in {None, lead} :
          /\ l # nd[n].core /\ (l = None => nd[n].core # None /\ elects < MaxElect)
          /\ nd' = [nd EXCEPT ![n].core = l]
          /\ lead' = IF l = None /\ lead = n THEN None ELSE lead
    /\ UNCHANGED <<log, commit, elects, crashes, tooNew>>

-----------------------------------------------------------------------------
(* Ready. *)
becomeFollower(r) == [r EXCEPT !.timer = FALSE]
SoftState(r, n) ==
    IF r.core = r.view THEN r
    ELSE LET s == IF r.view = n THEN becomeFollower(r) ELSE r IN
         [s EXCEPT !.just = @ \/ r.core = n, !.view = r.core]

mint(r, batch) == [r EXCEPT !.queue = Append(@, batch.txs)]

publishEntries(r, n, i) ==
    IF log[i] = Empty \/ getBlockAppliedIndex(r) >= i \/ log[i].height # r.lastExec + 1
    THEN [r EXCEPT !.applied = i]
    ELSE [mint(r, log[i]) EXCEPT
             !.applied = i, !.bai = Put(@, log[i].height, i), !.lastExec = log[i].height,
             !.pool.seq = IF isLeader(r, n) THEN @ ELSE log[i].height]

\* The part of the Ready case that follows an election.
AfterElection(r) ==
    IF ~r.just THEN r
    ELSE [r EXCEPT !.pool.seq = r.lastExec, !.just = Len(log) > r.applied + 1]

maybeTriggerSnapshot(r) ==
    IF r.applied - r.snap.index < SnapCount THEN r
    ELSE [r EXCEPT !.snap = [index |-> r.applied, height |-> r.lastExec]]

\* One Ready: the soft state and at most one committed entry.
Ready(n) ==
    LET r == SoftState(nd[n], n)
        i == r.applied + 1
        s == IF i <= commit THEN publishEntries(r, n, i) ELSE r IN
    /\ nd[n].loop = "select"
    /\ nd[n].core # nd[n].view \/ i <= commit
    /\ nd' = [nd EXCEPT ![n] = maybeTriggerSnapshot(AfterElection(s))]
    /\ tooNew' = (tooNew \/ (i <= commit /\ log[i] # Empty /\ log[i].height > r.lastExec + 1
                             /\ getBlockAppliedIndex(r) < i))
    /\ UNCHANGED <<log, commit, lead, elects, crashes>>

FetchesOneLate(n) ==  \* mutant: the first block that is missing is not fetched
    LET r == nd[n]
        from == nd[lead]
        target == from.snap.height IN
    /\ lead # None /\ lead # n /\ r.loop = "select" /\ r.core = lead
    /\ from.snap.index > r.applied + SnapCount
    /\ ChainHeight(from) >= target
    /\ nd' = [nd EXCEPT ![n] =
           IF ChainHeight(r) >= target \/ r.lastExec > target THEN [r EXCEPT !.loop = "hung"]
           ELSE [r EXCEPT !.queue = @ \o SubSeq(from.chain, r.lastExec + 1, target - Genesis),
                          !.lastExec = target, !.applied = from.snap.index, !.snap = from.snap]]
    /\ UNCHANGED <<log, commit, lead, elects, crashes, tooNew>>
\* A snapshot of the leader whose entries are compacted there.  The blocks come
\* from its ledger; the loop hangs when there is nothing to fetch, or more was
\* minted than the snapshot covers.
recoverFromSnapshot(n) ==
    LET r == nd[n]
        from == nd[lead]
        target == from.snap.height IN
    /\ lead # None /\ lead # n /\ r.loop = "select" /\ r.core = lead
    /\ from.snap.index > r.applied + SnapCount
    /\ ChainHeight(from) >= target
    /\ nd' = [nd EXCEPT ![n] =
           IF ChainHeight(r) >= target \/ r.lastExec > target THEN [r EXCEPT !.loop = "hung"]
           ELSE [r EXCEPT !.queue = @ \o SubSeq(from.chain, r.lastExec, target - Genesis),
                          !.lastExec = target, !.applied = from.snap.index, !.snap = from.snap]]
    /\ UNCHANGED <<log, commit, lead, elects, crashes, tooNew>>

-----------------------------------------------------------------------------
(* Execution, reports, crashes. *)
Execute(n) ==
    LET r == nd[n] IN
    /\ r.queue # <<>>
    /\ nd' = [nd EXCEPT ![n] = [r EXCEPT !.chain = Append(@, Head(r.queue)), !.queue = Tail(@),
                                         !.reports = @ \cup {ChainHeight(r) + 1}]]
    /\ UNCHANGED <<log, commit, lead, elects, crashes, tooNew>>

\* The reports of executed blocks may overtake each other.
reportState(n, h) ==
    LET r == nd[n]
        s == [r EXCEPT !.reports = @ \ {h}] IN
    /\ r.loop = "select" /\ h \in r.reports
    /\ nd' = [nd EXCEPT ![n] =
           IF h \notin DOMAIN r.bai THEN s
           ELSE [s EXCEPT !.db = r.bai[h], !.bai = Drop(@, {h - 1}),
                          !.pool = processCommitTransactions(@, Range(r.chain[h - Genesis]), LedgerOf(r))]]
    /\ UNCHANGED <<log, commit, lead, elects, crashes, tooNew>>

Crash(n) ==
    /\ crashes < MaxCrash
    /\ crashes' = crashes + 1
    /\ nd' = [nd EXCEPT ![n] = Started(@.chain, @.db, @.snap)]
    /\ lead' = IF lead = n THEN None ELSE lead
    /\ UNCHANGED <<log, commit, elects, tooNew>>

Init ==
    /\ nd = [n \in Node |-> Started(<<>>, 0, [index |-> 0, height |-> Genesis])]
    /\ log = <<>> /\ commit = 0 /\ lead = None /\ elects = 0 /\ crashes = 0
    /\ tooNew = FALSE

Next ==
    \/ \E n \in Node, t \in Tx : Receive(n, t)
    \/ \E n \in Node : processBatchTimeout(n)
    \/ \E n \in Node : processGenerateBlockTimeout(n)
    \/ \E n \in Node : handleRequestMsg(n)
    \/ \E n \in Node : \E k \in commit..Len(log) : Elect(n, k)
    \/ Commit
    \/ \E n \in Node : Learn(n)
    \/ \E n \in Node : Ready(n)
    \/ \E n \in Node : recoverFromSnapshot(n)
    \/ \E n \in Node : Execute(n)
    \/ \E n \in Node : \E h \in nd[n].reports : reportState(n, h)
    \/ \E n \in Node : Crash(n)

Spec == Init /\ [][Next]_vars

-----------------------------------------------------------------------------
(* Properties. *)
\* Each node's loop, indexes and queues are where they can be: nothing is applied
\* past the committed log, nothing is executed that was not minted.
TypeOK ==
    /\ commit \in 0..Len(log) /\ Len(log) <= MaxLog /\ lead \in Node \cup {None}
    /\ \A n \in Node :
          LET r == nd[n] IN
          /\ r.loop \in {"select", "blocked", "hung"}
          /\ r.applied <= commit
          /\ r.lastExec = ChainHeight(r) + Len(r.queue)
          /\ (r.loop = "blocked") = (r.hand # NoBatch)

\* No node has crashed; or, although one has, no snapshot was taken and no batch was
\* passed over that was above the expected height.
Undisturbed == crashes = 0 \/ (~tooNew /\ \A n \in Node : nd[n].snap.index = 0)

\* Two nodes never execute different blocks at a height, whatever is proposed, lost,
\* synchronised or, within Undisturbed, replayed after a crash ("strictly avoid writing
\* the same block", publishEntries).
ChainsAgree ==
    Undisturbed =>
        \A m, n \in Node : LET a == nd[m].chain \o nd[m].queue
                               b == nd[n].chain \o nd[n].queue IN
            \A i \in DOMAIN a \cap DOMAIN b : a[i] = b[i]

\* The applied index on disk never passes the index of the last block on disk, so
\* a restart replays every entry whose block was not executed (reportState).
DiskBehind ==
    \A n \in Node : LET r == nd[n] IN
        r.db > 0 => log[r.db].height \in (Genesis + 1)..ChainHeight(r)

\* mempool_impl.go: "batchedTx are all txs sent to consensus but were not
\* committed yet, mempool should filter out such txs": no transaction is in two
\* blocks of a chain.
ExecutedOnce ==
    \A n \in Node : LET c == nd[n].chain \o nd[n].queue IN
        \A i, j \in DOMAIN c : i # j => Range(c[i]) \cap Range(c[j]) = {}

\* publishEntries passes over an entry to "strictly avoid writing the same block":
\* only old blocks are passed over, never one above the expected height.
OnlyOldPassedOver == ~tooNew
=============================================================================
