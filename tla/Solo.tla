--------------------------------- MODULE Solo ---------------------------------
(***************************************************************************)
(* The solo ordering node: clients, the transaction cache with its slice   *)
(* timer (tx_cache.go), the main loop with the batch timer                 *)
(* (solo/node.go, timer_mgr.go), the goroutine that takes proposals, the   *)
(* executor and its reports.  A send on an unbuffered channel is a joint   *)
(* step of sender and receiver, and the sender waits until then.           *)
(***************************************************************************)
EXTENDS TxPool, SequencesExt

CONSTANTS CommitCap,   \* capacity of commitC
          Period,      \* blocks between the commits of the pool
          MaxHeight    \* bound: height of timed blocks

VARIABLES
    sent,      \* transactions the clients have prepared
    recvC,     \* RecvTxC
    txSet,     \* the transaction set being collected
    cache,     \* the cache's goroutine: "idle", or "posting" the set
    slice,     \* slice timer: armed, and the number of fired timers waiting
    loop,      \* the main loop: "select", or "proposing" the batch in hand
    hand, again,  \* that batch, and whether the batch timer is started after it
    timer,     \* batch timer: active, ticking, and fired events waiting
    pool, lastExec,
    proposer,  \* the proposal goroutine: "idle", "committing", "dead"
    taken,     \* the batch it commits
    commitC,
    ledger,    \* account -> nonce
    reports,   \* executed blocks to be reported
    chain,     \* executed transactions, in order
    beat       \* flips with every step of the node
vars == <<beat, sent, recvC, txSet, cache, slice, loop, hand, again, timer, pool, lastExec,
          proposer, taken, commitC, ledger, reports, chain>>
cacheVars == <<recvC, txSet, cache, slice>>
loopVars == <<loop, hand, again, timer, pool>>
proposerVars == <<lastExec, proposer, taken, commitC>>
execVars == <<ledger, reports, chain>>

Genesis == 1

-----------------------------------------------------------------------------
(* TxCache. *)
Prepare(t) ==
    /\ t \notin sent
    /\ sent' = sent \cup {t} /\ recvC' = Append(recvC, t)
    /\ UNCHANGED <<beat, txSet, cache, slice, loopVars, proposerVars, execVars>>

appendTx ==
    /\ cache = "idle" /\ recvC # <<>>
    /\ recvC' = Tail(recvC)
    /\ txSet' = Append(txSet, Head(recvC))
    /\ LET full == Len(txSet') >= SliceSize IN
       /\ slice' = [slice EXCEPT !.armed = (@ \/ txSet = <<>>) /\ ~full]
       /\ cache' = IF full THEN "posting" ELSE "idle"
    /\ beat' = ~beat
    /\ UNCHANGED <<sent, loopVars, proposerVars, execVars>>

\* The timer's goroutine fires and waits to send; stopping comes too late then.
startTxSetTimer ==
    /\ slice.armed
    /\ slice' = [armed |-> FALSE, fired |-> slice.fired + 1]
    /\ beat' = ~beat
    /\ UNCHANGED <<sent, recvC, txSet, cache, loopVars, proposerVars, execVars>>

DropsSet ==  \* mutant: the set is cleared before it is posted
    /\ cache = "idle" /\ slice.fired > 0
    /\ slice' = [armed |-> FALSE, fired |-> slice.fired - 1]
    /\ cache' = "posting" /\ txSet' = <<>>
    /\ beat' = ~beat
    /\ UNCHANGED <<sent, recvC, loopVars, proposerVars, execVars>>
\* The timer case of ListenEvent; a late timer posts a set that is short or empty.
ListenEvent ==
    /\ cache = "idle" /\ slice.fired > 0
    /\ slice' = [armed |-> FALSE, fired |-> slice.fired - 1]
    /\ cache' = "posting"
    /\ beat' = ~beat
    /\ UNCHANGED <<sent, recvC, txSet, loopVars, proposerVars, execVars>>

-----------------------------------------------------------------------------
(* The main loop of listenReadyBlock, one action per case. *)
StopBatchTimer(tm) == [tm EXCEPT !.active = FALSE, !.ticking = FALSE]
StartBatchTimer(tm) == [tm EXCEPT !.active = TRUE, !.ticking = TRUE]

HandOver(batch, restart) ==
    /\ hand' = batch /\ again' = restart
    /\ loop' = IF batch = NoBatch THEN "select" ELSE "proposing"

NoTimer ==  \* mutant: the batch timer is not started by transactions
    /\ cache = "posting" /\ loop = "select"
    /\ LET r == ProcessTransactions(pool, txSet, TRUE, TRUE, ledger) IN
       pool' = r.pool /\ HandOver(r.batch, FALSE)
    /\ cache' = "idle" /\ txSet' = <<>>
    /\ beat' = ~beat
    /\ UNCHANGED <<timer, sent, recvC, slice, proposerVars, execVars>>
postTxSet ==
    /\ cache = "posting" /\ loop = "select"
    /\ LET r == ProcessTransactions(pool, txSet, TRUE, TRUE, ledger)
           started == IF timer.active \/ IsTimed THEN timer ELSE StartBatchTimer(timer) IN
       /\ pool' = r.pool
       /\ timer' = IF r.batch = NoBatch THEN started ELSE StopBatchTimer(started)
       /\ HandOver(r.batch, FALSE)
    /\ cache' = "idle" /\ txSet' = <<>>
    /\ beat' = ~beat
    /\ UNCHANGED <<sent, recvC, slice, proposerVars, execVars>>

BatchTimerFires ==
    /\ timer.ticking
    /\ timer' = [timer EXCEPT !.ticking = FALSE, !.events = @ + 1]
    /\ beat' = ~beat
    /\ UNCHANGED <<sent, cacheVars, loop, hand, again, pool, proposerVars, execVars>>

BatchTimeoutEvent ==
    /\ loop = "select" /\ timer.events > 0
    /\ timer' = [StopBatchTimer(timer) EXCEPT !.events = @ - 1]
    /\ LET r == IF pool.store.count > 0 THEN GenerateBlock(pool, ledger)
                ELSE [pool |-> pool, batch |-> NoBatch] IN
       pool' = r.pool /\ HandOver(r.batch, r.batch # NoBatch)
    /\ beat' = ~beat
    /\ UNCHANGED <<sent, cacheVars, proposerVars, execVars>>

blockTicker ==
    /\ loop = "select" /\ IsTimed /\ pool.seq < MaxHeight
    /\ LET r == GenerateBlock(pool, ledger) IN pool' = r.pool /\ HandOver(r.batch, FALSE)
    /\ beat' = ~beat
    /\ UNCHANGED <<timer, sent, cacheVars, proposerVars, execVars>>

\* ReportState, and the case that receives it: the pool is told of every
\* Period-th block only.
ReportState(b) ==
    /\ loop = "select" /\ b \in reports
    /\ reports' = reports \ {b}
    /\ pool' = IF b.height % Period = 0
               THEN processCommitTransactions(pool, ToSet(b.txs), ledger) ELSE pool
    /\ beat' = ~beat
    /\ UNCHANGED <<sent, cacheVars, loop, hand, again, timer, proposerVars, ledger, chain>>

-----------------------------------------------------------------------------
(* Proposals and execution. *)
\* postProposal meets the proposal goroutine, which quits at an unexpected height.
postProposal ==
    /\ loop = "proposing" /\ proposer = "idle"
    /\ proposer' = IF hand.height = lastExec + 1 THEN "committing" ELSE "dead"
    /\ taken' = hand
    /\ loop' = "select" /\ hand' = NoBatch /\ again' = FALSE
    /\ timer' = IF again THEN StartBatchTimer(timer) ELSE timer
    /\ beat' = ~beat
    /\ UNCHANGED <<sent, cacheVars, pool, lastExec, commitC, execVars>>

commitBlock ==
    /\ proposer = "committing" /\ Len(commitC) < CommitCap
    /\ commitC' = Append(commitC, taken)
    /\ lastExec' = lastExec + 1
    /\ proposer' = "idle" /\ taken' = NoBatch
    /\ beat' = ~beat
    /\ UNCHANGED <<sent, cacheVars, loopVars, execVars>>

Execute ==
    /\ commitC # <<>>
    /\ LET b == Head(commitC) IN
       /\ ledger' = FoldLeft(LAMBDA l, t : [l EXCEPT ![t.acc] = t.nonce + 1], ledger, b.txs)
       /\ chain' = chain \o b.txs
       /\ reports' = reports \cup {b}
    /\ commitC' = Tail(commitC)
    /\ beat' = ~beat
    /\ UNCHANGED <<sent, cacheVars, loopVars, lastExec, proposer, taken>>

Init ==
    /\ sent = {} /\ recvC = <<>> /\ txSet = <<>> /\ cache = "idle"
    /\ slice = [armed |-> FALSE, fired |-> 0]
    /\ loop = "select" /\ hand = NoBatch /\ again = FALSE
    /\ timer = [active |-> FALSE, ticking |-> FALSE, events |-> 0]
    /\ pool = newMempoolImpl(Genesis) /\ lastExec = Genesis
    /\ proposer = "idle" /\ taken = NoBatch /\ commitC = <<>>
    /\ ledger = [a \in Accounts(Tx) |-> 0] /\ reports = {} /\ chain = <<>> /\ beat = FALSE

Next ==
    \/ \E t \in Tx : Prepare(t)
    \/ appendTx \/ startTxSetTimer \/ ListenEvent
    \/ postTxSet \/ BatchTimerFires \/ BatchTimeoutEvent \/ blockTicker
    \/ \E b \in reports : ReportState(b)
    \/ postProposal \/ commitBlock \/ Execute

\* The node goes on while one of its goroutines can or a timer runs (each of its
\* steps uses up something the clients sent); the clients owe nothing.  CanGo says
\* that one of the actions but Prepare is enabled.
CanGo ==
    \/ cache = "idle" /\ (recvC # <<>> \/ slice.fired > 0)
    \/ slice.armed \/ timer.ticking
    \/ loop = "select" /\ \/ cache = "posting" \/ timer.events > 0 \/ reports # {}
                          \/ IsTimed /\ pool.seq < MaxHeight
    \/ loop = "proposing" /\ proposer = "idle"
    \/ proposer = "committing" /\ Len(commitC) < CommitCap
    \/ commitC # <<>>
Fairness == WF_beat(CanGo /\ beat' = ~beat)
Spec == Init /\ [][Next]_vars /\ Fairness

-----------------------------------------------------------------------------
(* Properties. *)
\* The goroutines are at one of their places, channels hold what was sent.
TypeOK ==
    /\ cache \in {"idle", "posting"} /\ loop \in {"select", "proposing"}
    /\ proposer \in {"idle", "committing", "dead"}
    /\ ToSet(recvC) \cup ToSet(txSet) \cup ToSet(chain) \subseteq sent
    /\ Len(commitC) <= CommitCap /\ slice.fired >= 0 /\ timer.events >= 0
    /\ (loop = "proposing") = (hand # NoBatch)

\* The proposal goroutine never meets a height it does not expect: it would quit,
\* and the main loop would wait for it for ever (solo/node.go).
ProposerLives == proposer # "dead"

\* No transaction is executed twice, and each account's nonces are executed in
\* order, although the pool hears of every Period-th block only.
ExecutedInOrder ==
    \A i \in DOMAIN chain :
        chain[i].nonce = Cardinality({j \in 1..i - 1 : chain[j].acc = chain[i].acc})

\* Nothing is lost on the way: a transaction is in a channel, in the set, in the
\* pool, in a batch under way or executed.
NoneLost ==
    sent = UNION {ToSet(recvC), ToSet(txSet), pool.store.hashes, ToSet(chain)}

\* Batches come by size or by time (batch_timeout, "Block packaging time
\* period"): under Fairness a transaction whose predecessors were sent is executed.
Executable(t) == {u \in Tx : u.acc = t.acc /\ u.nonce <= t.nonce} \subseteq sent
Executed(t) == \E i \in DOMAIN chain : chain[i] = t
=============================================================================
