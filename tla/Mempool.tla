------------------------------- MODULE Mempool -------------------------------
(***************************************************************************)
(* The pool of one node and its surroundings: the clients and peers that   *)
(* send transactions, the execution of its batches, the reports of         *)
(* executed blocks, blocks that another leader ordered, and the clock of   *)
(* the two sweeps.                                                         *)
(***************************************************************************)
EXTENDS TxPool, SequencesExt

CONSTANTS Leads,       \* whether the node starts as leader
          Elections,   \* whether leadership moves
          Foreign,     \* whether another leader orders blocks
          Sweeps,      \* whether transactions grow old
          MaxHeight,   \* bound: height of the batches
          MaxSent,     \* bound: transactions in one call
          MaxCalls     \* bound: calls with transactions

VARIABLES
    pool,      \* the pool
    leader,    \* whether the node leads
    ledger,    \* account -> its nonce in the ledger
    todo,      \* batches proposed and not executed
    reports,   \* executed blocks not yet reported to the pool
    resent,    \* the last rebroadcast: slices of transactions
    out,       \* history: the transactions of this node's batches
    calls
vars == <<pool, leader, ledger, todo, reports, resent, out, calls>>

-----------------------------------------------------------------------------
(* The node around the pool. *)
Propose(batch) ==
    /\ todo' = IF batch = NoBatch THEN todo ELSE Append(todo, batch)
    /\ out' = out \o batch.txs

Init ==
    /\ pool = newMempoolImpl(1) /\ leader = Leads
    /\ ledger = [a \in Accounts(Tx) |-> 0]
    /\ todo = <<>> /\ reports = {} /\ resent = <<>> /\ out = <<>> /\ calls = 0

Receive(txs, isLocal) ==
    /\ calls < MaxCalls
    /\ LET r == ProcessTransactions(pool, txs, leader, isLocal, ledger) IN
       pool' = r.pool /\ Propose(r.batch)
    /\ calls' = calls + 1
    /\ UNCHANGED <<leader, ledger, reports, resent>>

BatchTimeout ==
    /\ leader /\ pool.seq < MaxHeight
    /\ LET r == GenerateBlock(pool, ledger) IN
       r.pool # pool /\ pool' = r.pool /\ Propose(r.batch)
    /\ UNCHANGED <<leader, ledger, reports, resent, calls>>

\* The executor sets the nonces and reports the hashes; reports may overtake.
Execute ==
    /\ todo # <<>>
    /\ ledger' = FoldLeft(LAMBDA l, t : [l EXCEPT ![t.acc] = t.nonce + 1], ledger, Head(todo).txs)
    /\ reports' = reports \cup {ToSet(Head(todo).txs)}
    /\ todo' = Tail(todo)
    /\ UNCHANGED <<pool, leader, resent, out, calls>>

\* A block of another leader: the next transaction of an account.
ForeignBlock(t) ==
    /\ Foreign /\ ~leader /\ t.nonce = ledger[t.acc]
    /\ ledger' = [ledger EXCEPT ![t.acc] = t.nonce + 1]
    /\ reports' = reports \cup {{t}}
    /\ UNCHANGED <<pool, leader, todo, resent, out, calls>>

CommitTransactions(hashes) ==
    /\ hashes \in reports
    /\ pool' = processCommitTransactions(pool, hashes, ledger)
    /\ reports' = reports \ {hashes}
    /\ UNCHANGED <<leader, ledger, todo, resent, out, calls>>

GrowOld ==
    /\ Sweeps
    /\ \E i \in {"ttl", "arrived"} :
           /\ \E k \in DOMAIN pool.store[i] : pool.store[i][k] = "new"
           /\ pool' = [pool EXCEPT !.store[i] = [k \in DOMAIN @ |-> "old"]]
    /\ UNCHANGED <<leader, ledger, todo, reports, resent, out, calls>>

GetTimeoutTransactions ==
    LET due == TimedOut(pool.store) IN
    /\ due # {} /\ due \subseteq DOMAIN pool.store.items
    /\ resent' = shardTxList(pool.store, SetToSeq(due))
    /\ pool' = [pool EXCEPT !.store = updateByTtlKey(@, due)]
    /\ UNCHANGED <<leader, ledger, todo, reports, out, calls>>

Sweep ==
    /\ Expired(pool.store) # {}
    /\ pool' = RemoveAliveTimeoutTxs(pool)
    /\ UNCHANGED <<leader, ledger, todo, reports, resent, out, calls>>

\* Leadership moves between blocks; RaftOrder moves it while blocks are in flight.
Elect ==
    /\ Elections /\ todo = <<>> /\ reports = {}
    /\ leader' = ~leader
    /\ UNCHANGED <<pool, ledger, todo, reports, resent, out, calls>>

Next ==
    \/ \E n \in 1..MaxSent, isLocal \in BOOLEAN : \E txs \in [1..n -> Tx] : Receive(txs, isLocal)
    \/ BatchTimeout
    \/ Execute
    \/ \E t \in Tx : ForeignBlock(t)
    \/ \E hashes \in reports : CommitTransactions(hashes)
    \/ GrowOld
    \/ GetTimeoutTransactions
    \/ Sweep
    \/ Elect

Spec == Init /\ [][Next]_vars

-----------------------------------------------------------------------------
(* Properties. *)
\* The store's maps and indexes hold transactions and keys of the right kind,
\* and no nonce cache passes the last nonce.
TypeOK ==
    LET s == pool.store
        Nonces == 0..(1 + Cardinality(Tx)) IN
    /\ s.hashes \subseteq Tx /\ s.priority \subseteq Tx
    /\ s.index \cup s.parking \cup s.batched \subseteq Keys(Tx)
    /\ DOMAIN s.items \cup DOMAIN s.ttl \cup DOMAIN s.arrived \subseteq Keys(Tx)
    /\ \A k \in DOMAIN s.items : KeyOf(s.items[k]) = k
    /\ \A a \in DOMAIN s.commit : s.commit[a] \in Nonces
    /\ \A a \in DOMAIN s.pending : s.pending[a] \in Nonces
    /\ leader \in BOOLEAN /\ calls \in 0..MaxCalls

\* The batches of a leader hold each account's nonces in order and without a
\* gap, however the time stamps, the calls, the executions and the reports
\* interleave (generateBlock's walk with its skipped transactions).
NoncesInOrder ==
    \A i \in DOMAIN out :
        out[i].nonce = Cardinality({j \in 1..i - 1 : out[j].acc = out[i].acc})

\* priorityNonBatchSize, which decides whether a batch is made, is the number
\* of ready transactions that are in no batch.
CountExact ==
    pool.store.count = Cardinality({t \in pool.store.priority : KeyOf(t) \notin pool.store.batched})

\* A transaction whose predecessors are all pooled or committed is ready: none
\* is left in the parking lot where no batch finds it.
ReadyFound ==
    LET s == pool.store IN
    \A k \in DOMAIN s.items :
        (\A n \in getCommitNonce(s, k[1], ledger)..k[2] : <<k[1], n>> \in DOMAIN s.items)
            => s.items[k] \in s.priority

\* What the rebroadcast timer finds in its index is still pooled (shardTxList
\* reads the item), and what it sent came in slices of at most the slice size.
ResentPooled ==
    /\ DOMAIN pool.store.ttl \subseteq DOMAIN pool.store.items
    /\ \A i \in DOMAIN resent : Len(resent[i]) \in 1..SliceSize

\* The commit nonce, from which a leader starts an account's batch, is never
\* past the ledger's, whoever ordered the blocks and in whatever order their
\* reports arrive.
CommitFollows == \A a \in DOMAIN pool.store.commit : pool.store.commit[a] <= ledger[a]

\* tx_store.go: the index of an account's transactions is the "index for items".
IndexAgrees == pool.store.index = DOMAIN pool.store.items
=============================================================================
