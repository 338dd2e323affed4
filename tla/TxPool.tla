-------------------------------- MODULE TxPool --------------------------------
(***************************************************************************)
(* The transaction pool of an ordering node (pkg/order/mempool): its       *)
(* operations, as operators on a pool record.  Mempool runs them beside    *)
(* clients, executor and clock; Solo and RaftOrder use them in their nodes.*)
(***************************************************************************)
EXTENDS Integers, Sequences, FiniteSets, FiniteSetsExt

CONSTANTS Tx,          \* the transactions: [acc, nonce, stamp]
          BatchSize,   \* batch_size
          SliceSize,   \* tx_slice_size
          IsTimed      \* timed_gen_block

KeyOf(t) == <<t.acc, t.nonce>>
Accounts(S) == {t.acc : t \in S}
Keys(S) == {KeyOf(t) : t \in S}
NoBatch == [height |-> 0, txs |-> <<>>]
Least(a, b) == IF a < b THEN a ELSE b
Most(a, b) == IF a > b THEN a ELSE b
Drop(f, S) == [k \in DOMAIN f \ S |-> f[k]]
Put(f, k, v) == [x \in DOMAIN f \cup {k} |-> IF x = k THEN v ELSE f[x]]

-----------------------------------------------------------------------------
(* The store: hashes stands for txHashMap, whose values KeyOf gives; ttl  *)
(* and arrived map keys to "new" or "old", their distance to the timeouts. *)
newTransactionStore ==
    [hashes |-> {}, items |-> <<>>, index |-> {}, commit |-> <<>>, pending |-> <<>>,
     ttl |-> <<>>, arrived |-> <<>>, parking |-> {}, priority |-> {}, batched |-> {}, count |-> 0]
newMempoolImpl(height) == [store |-> newTransactionStore, seq |-> height]

\* An unknown commit nonce is read from the ledger (and kept, see Caching).
getCommitNonce(s, a, ldg) == IF a \in DOMAIN s.commit THEN s.commit[a] ELSE ldg[a]
getPendingNonce(s, a, ldg) ==
    IF a \in DOMAIN s.pending THEN s.pending[a] ELSE getCommitNonce(s, a, ldg)
Caching(s, A, ldg) ==
    [s EXCEPT !.commit = [a \in DOMAIN @ \cup A |-> getCommitNonce(s, a, ldg)]]

insertTx(s, t, isLocal) ==
    [s EXCEPT !.hashes = @ \cup {t}, !.items = Put(@, KeyOf(t), t),
              !.index = @ \cup {KeyOf(t)}, !.arrived = Put(@, KeyOf(t), "new"),
              !.ttl = IF isLocal THEN Put(@, KeyOf(t), "new") ELSE @]

\* filterReady: the nonces from the demanded one on, without a gap.
ReadyKeys(s, a, demand) ==
    {k \in s.index : /\ k[1] = a /\ k[2] >= demand
                     /\ \A n \in demand..k[2] : <<a, n>> \in s.index}
processDirtyAccount(s, a, ldg) ==
    LET demand == getPendingNonce(s, a, ldg)
        ready == ReadyKeys(s, a, demand)
        behind == {k \in s.index : k[1] = a /\ k[2] >= demand} \ ready IN
    [s EXCEPT !.priority = @ \cup {s.items[k] : k \in ready},
              !.count = @ + Cardinality(ready),
              !.parking = @ \cup behind,
              !.pending = Put(@, a, demand + Cardinality(ready))]

\* What ProcessTransactions lets in: not below the pending nonce, the first of
\* the call with its account and nonce, with an unknown hash.
Valid(s, txs, ldg) ==
    LET Fresh(i) == txs[i].nonce >= getPendingNonce(s, txs[i].acc, ldg) IN
    {i \in DOMAIN txs :
        /\ Fresh(i)
        /\ \A j \in 1..i - 1 : Fresh(j) => KeyOf(txs[j]) # KeyOf(txs[i])
        /\ txs[i] \notin s.hashes}

\* They are inserted in the order of the call.
insertTxs(s, txs, valid, isLocal) ==
    MapThenFoldSet(LAMBDA t, q : insertTx(q, t, isLocal), s, LAMBDA i : txs[i], Max, valid)

-----------------------------------------------------------------------------
(* Batches. *)
Before(t, u) ==
    \/ t.stamp < u.stamp
    \/ t.stamp = u.stamp /\ t.acc < u.acc
    \/ t.stamp = u.stamp /\ t.acc = u.acc /\ t.nonce < u.nonce
Latest(S) == CHOOSE t \in S : \A u \in S \ {t} : Before(u, t)

\* One step of the walk through the priority index.  It stops when the batch
\* has the size; a taken transaction brings the skipped ones that follow it.
Walk(s, size, ldg, w, t) ==
    LET k == KeyOf(t)
        run == {n \in 1..Cardinality(s.priority) : \A i \in 1..n : <<k[1], k[2] + i>> \in w.skipped}
        found == <<k>> \o [i \in 1..Cardinality(run) |-> <<k[1], k[2] + i>>]
        room == IF size > Len(w.keys) THEN size - Len(w.keys) ELSE Len(found)
        taken == SubSeq(found, 1, Least(Len(found), room)) IN
    IF w.full \/ k \in w.batched THEN w
    ELSE IF \/ k[2] >= 1 /\ <<k[1], k[2] - 1>> \in w.batched
            \/ k[2] = getCommitNonce(s, k[1], ldg)
    THEN [w EXCEPT !.keys = @ \o taken, !.batched = @ \cup Range(taken),
                   !.full = Len(w.keys) + Len(taken) = size]
    ELSE [w EXCEPT !.skipped = @ \cup {k}]

\* The walk through the whole index, from the earliest transaction on.
Batched(s, size, ldg) ==
    MapThenFoldSet(LAMBDA t, w : Walk(s, size, ldg, w, t),
        [keys |-> <<>>, batched |-> s.batched, skipped |-> {}, full |-> FALSE],
        LAMBDA t : t, Latest, s.priority)

CountKept(p, ldg) ==  \* mutant: generateBlock forgets to lower the count
    LET s == p.store
        w == Batched(s, Least(s.count, BatchSize), ldg) IN
    [pool |-> [store |-> [s EXCEPT !.batched = w.batched], seq |-> p.seq + 1],
     batch |-> [height |-> p.seq + 1, txs |-> [i \in DOMAIN w.keys |-> s.items[w.keys[i]]]]]

\* The pool and the batch; a batch without transactions is refused unless timed.
generateBlock(p, ldg) ==
    LET s == p.store
        w == Batched(s, Least(s.count, BatchSize), ldg)
        n == Len(w.keys) IN
    IF ~IsTimed /\ n = 0 /\ s.count > 0
    THEN [pool |-> [p EXCEPT !.store.count = 0], batch |-> NoBatch]
    ELSE [pool |-> [store |-> [s EXCEPT !.batched = w.batched,
                                        !.count = IF @ >= n THEN @ - n ELSE @],
                    seq |-> p.seq + 1],
          batch |-> [height |-> p.seq + 1, txs |-> [i \in 1..n |-> s.items[w.keys[i]]]]]

GenerateBlock(p, ldg) ==
    IF ~IsTimed /\ p.store.count = 0 THEN [pool |-> p, batch |-> NoBatch]
    ELSE generateBlock(p, ldg)

ProcessTransactions(p, txs, isLeader, isLocal, ldg) ==
    LET valid == Valid(p.store, txs, ldg)
        s == insertTxs(Caching(p.store, Accounts(Range(txs)), ldg), txs, valid, isLocal)
        q == [p EXCEPT !.store = FoldSet(LAMBDA a, x : processDirtyAccount(x, a, ldg), s,
                                         {txs[i].acc : i \in valid})] IN
    IF isLeader /\ q.store.count >= BatchSize /\ ~IsTimed THEN generateBlock(q, ldg)
    ELSE [pool |-> q, batch |-> NoBatch]

-----------------------------------------------------------------------------
(* Commits and sweeps. *)

\* Removal of transactions from every index but the nonce index.
removeTxs(s, R) ==
    LET keys == Keys(R) IN
    [s EXCEPT !.items = Drop(@, keys), !.priority = @ \ R, !.parking = @ \ keys,
              !.ttl = Drop(@, keys), !.arrived = Drop(@, keys)]

\* forward, for all the accounts the block touched.
forward(s, dirty) ==
    LET low == {k \in s.index : k[1] \in dirty /\ k[2] < s.commit[k[1]]} IN
    [removeTxs(s, {s.items[k] : k \in low}) EXCEPT !.index = @ \ low]

updateCommittedNonce(s, known, ldg) ==
    LET dirty == Accounts(known)
        top(a) == CHOOSE n \in {t.nonce + 1 : t \in {u \in known : u.acc = a}} :
                      \A t \in known : t.acc = a => t.nonce < n IN
    [Caching(s, dirty, ldg) EXCEPT !.commit = [a \in DOMAIN @ |->
        IF a \in dirty THEN Most(@[a], top(a)) ELSE @[a]]]

\* Hashes the pool does not know are passed over.
processCommitTransactions(p, hashes, ldg) ==
    LET s == p.store
        known == hashes \cap s.hashes
        c == updateCommittedNonce(s, known, ldg)
        f == forward([c EXCEPT !.hashes = @ \ known, !.batched = @ \ Keys(known)],
                     Accounts(known)) IN
    [p EXCEPT !.store = [f EXCEPT !.count = Least(@, Cardinality(f.priority))]]

\* GetTimeoutTransactions: the local transactions that are due, in slices.
TimedOut(s) == {k \in DOMAIN s.ttl : s.ttl[k] = "old"}
shardTxList(s, keys) ==
    LET n == Len(keys)
        num == (n \div SliceSize) + (IF n % SliceSize = 0 THEN 0 ELSE 1) IN
    [i \in 1..num |-> [j \in 1..Least(SliceSize, n - (i - 1) * SliceSize) |->
                          s.items[keys[(i - 1) * SliceSize + j]]]]
updateByTtlKey(s, keys) ==
    [s EXCEPT !.ttl = [k \in DOMAIN @ |-> IF k \in keys THEN "new" ELSE @[k]]]

\* RemoveAliveTimeoutTxs: old, not batched, not ready, parked.
Expired(s) ==
    {s.items[k] : k \in {x \in DOMAIN s.arrived :
        /\ s.arrived[x] = "old" /\ x \notin s.batched
        /\ x \in DOMAIN s.items => s.items[x] \notin s.priority
        /\ x \in DOMAIN s.items /\ x \in s.parking}}
\* The nonces of all removed transactions leave the nonce index of every account
\* that lost one.
removeBySortedNonceKey(s, R) ==
    [s EXCEPT !.index = {k \in @ :
        ~(k[1] \in {t.acc : t \in R} /\ k[2] \in {t.nonce : t \in R})}]
RemoveAliveTimeoutTxs(p) ==
    LET R == Expired(p.store)
        s == removeBySortedNonceKey(removeTxs(p.store, R), R) IN
    [p EXCEPT !.store = [s EXCEPT !.hashes = @ \ R]]
=============================================================================
