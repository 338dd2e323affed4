------------------------------ MODULE MCOrdering ------------------------------
(***************************************************************************)
(* The ordering of transactions for TLC: a solo node that batches by size  *)
(* or by time, the pool of a leader and of a follower, and two nodes that  *)
(* order through raft.  A behaviour runs the part that its first state     *)
(* names and leaves the variables of the others as they begin.             *)
(***************************************************************************)
EXTENDS RaftOrder, TLC

CONSTANTS Parts,     \* the parts that are run
          n1, n2,    \* the nodes of raft
          CommitCap, Period

VARIABLES part,
          beat, sent, recvC, txSet, cache, slice, loop, hand, again, timer, pool, lastExec,
          proposer, taken, commitC, ledger, reports, chain,
          mpool, leader, nonces, todo, executed, resent, out, calls

soloVars == <<beat, sent, recvC, txSet, cache, slice, loop, hand, again, timer, pool, lastExec,
              proposer, taken, commitC, ledger, reports, chain>>
poolVars == <<mpool, leader, nonces, todo, executed, resent, out, calls>>

\* Transactions of accounts 1 and 2.  In Crossed and Three the order of time and the
\* order of nonces differ; in Rival and Rivals two have the same nonce.
T(a, n, s) == [acc |-> a, nonce |-> n, stamp |-> s]
Crossed == {T(1, 0, 3), T(1, 1, 1), T(1, 2, 2), T(2, 0, 2)}
Three == {T(1, 0, 2), T(1, 1, 1), T(2, 0, 1)}
OneAccount == {T(1, 0, 1), T(1, 1, 2), T(1, 2, 3)}
Rival == {T(1, 0, 1), T(1, 1, 2), T(1, 1, 3)}
TwoTx == {T(1, 0, 1), T(1, 1, 2)}
Rivals == {T(1, 0, 1), T(1, 0, 2)}

BySize == INSTANCE Solo WITH Tx <- Three, BatchSize <- 2, IsTimed <- FALSE, MaxHeight <- 9
Timed == INSTANCE Solo WITH Tx <- Three, BatchSize <- 2, IsTimed <- TRUE, MaxHeight <- 4

\* A leader by size and by time, a leader whose transactions grow old, and a node that
\* follows and leads in turn.
Leading == INSTANCE Mempool WITH
  pool <- mpool, ledger <- nonces, reports <- executed, Tx <- Crossed, BatchSize <- 2,
  IsTimed <- FALSE, MaxHeight <- 9,
  Leads <- TRUE, Elections <- FALSE, Foreign <- FALSE, Sweeps <- FALSE,
  MaxSent <- 2, MaxCalls <- 4
Ticking == INSTANCE Mempool WITH
  pool <- mpool, ledger <- nonces, reports <- executed, Tx <- Crossed, BatchSize <- 2,
  IsTimed <- TRUE,
  Leads <- TRUE, Elections <- FALSE, Foreign <- FALSE, Sweeps <- FALSE,
  MaxHeight <- 3, MaxSent <- 2, MaxCalls <- 2
Ageing == INSTANCE Mempool WITH
  pool <- mpool, ledger <- nonces, reports <- executed, Tx <- OneAccount, BatchSize <- 2,
  IsTimed <- FALSE, MaxHeight <- 9,
  Leads <- TRUE, Elections <- FALSE, Foreign <- FALSE, Sweeps <- TRUE,
  MaxSent <- 1, MaxCalls <- 4
Following == INSTANCE Mempool WITH
  pool <- mpool, ledger <- nonces, reports <- executed, Tx <- Rival, BatchSize <- 2,
  IsTimed <- FALSE, MaxHeight <- 9,
  Leads <- FALSE, Elections <- TRUE, Foreign <- TRUE, Sweeps <- TRUE,
  MaxSent <- 1, MaxCalls <- 3

\* Beside one election and three transactions, which the configuration gives: two elections
\* and two transactions for one nonce; a crash; a crash with a snapshot after every block; batches by time;
\* and two elections for one transaction.
TwoTerms == INSTANCE RaftOrder WITH
  Tx <- Rivals, BatchSize <- 1, IsTimed <- FALSE, SnapCount <- 9,
  MaxLog <- 3, MaxElect <- 2, MaxCrash <- 0
Crashing == INSTANCE RaftOrder WITH
  Tx <- TwoTx, BatchSize <- 1, IsTimed <- FALSE, SnapCount <- 9,
  MaxLog <- 3, MaxElect <- 1, MaxCrash <- 1
Snapshots == INSTANCE RaftOrder WITH
  Tx <- TwoTx, BatchSize <- 1, IsTimed <- FALSE, SnapCount <- 1,
  MaxLog <- 4, MaxElect <- 1, MaxCrash <- 1
ByTime == INSTANCE RaftOrder WITH
  Tx <- {T(1, 0, 1)}, BatchSize <- 1, IsTimed <- TRUE, SnapCount <- 9, MaxLog <- 3, MaxElect <- 1,
  MaxCrash <- 0
Again == INSTANCE RaftOrder WITH
  Tx <- {T(1, 0, 1)}, BatchSize <- 1, IsTimed <- FALSE, SnapCount <- 9, MaxLog <- 4,
  MaxElect <- 2, MaxCrash <- 0

\* The nodes of raft are alike.
Alike == Permutations(Node)

-----------------------------------------------------------------------------
PartsInit ==
  /\ part \in Parts
  /\ BySize!Init
  /\ IF part = "follower" THEN Following!Init
     ELSE IF part = "ageing" THEN Ageing!Init ELSE Leading!Init
  /\ Init

SoloNext == (part = "solo" /\ BySize!Next) \/ (part = "solo timed" /\ Timed!Next)
PoolNext ==
  \/ part = "leader" /\ Leading!Next
  \/ part = "timed" /\ Ticking!Next
  \/ part = "ageing" /\ Ageing!Next
  \/ part = "follower" /\ Following!Next
RaftNext ==
  \/ part = "raft" /\ Next
  \/ part = "raft elections" /\ TwoTerms!Next
  \/ part = "raft crash" /\ Crashing!Next
  \/ part = "raft snapshots" /\ Snapshots!Next
  \/ part = "raft timed" /\ ByTime!Next
  \/ part = "raft again" /\ Again!Next

PartsNext ==
  \/ SoloNext /\ UNCHANGED <<part, poolVars, vars>>
  \/ PoolNext /\ UNCHANGED <<part, soloVars, vars>>
  \/ RaftNext /\ UNCHANGED <<part, soloVars, poolVars>>

PartsSpec == PartsInit /\ [][PartsNext]_<<part, soloVars, poolVars, vars>>
-----------------------------------------------------------------------------
\* A solo node executes each account's nonces in order and none twice, although the pool
\* hears of every Period-th block only; no transaction is lost between the channels, and
\* the proposal goroutine never meets a height it does not expect (solo/node.go).
SoloOrders ==
  /\ BySize!TypeOK /\ BySize!ProposerLives /\ BySize!ExecutedInOrder
  /\ part = "solo" => BySize!NoneLost

\* The batches of a leader hold each account's nonces in order and without a gap; the
\* indexes of the pool agree with each other, so that whatever is ready is found and
\* counted, and whatever is sent again is still pooled; and the commit nonce never passes
\* the ledger's, whoever ordered the blocks (mempool_impl.go, tx_store.go).
PoolSound ==
  CASE part = "leader" -> Leading!NoncesInOrder /\ Leading!CountExact
    [] part = "timed" -> Ticking!NoncesInOrder
    [] part = "ageing" -> Ageing!TypeOK /\ Ageing!ResentPooled /\ Ageing!ReadyFound
    [] part = "follower" -> Following!CommitFollows /\ Following!IndexAgrees
    [] OTHER -> TRUE

\* "batchedTx are all txs sent to consensus but were not committed yet, mempool should
\* filter out such txs": with at most one change of leader no transaction is in two
\* blocks of a chain (mempool_impl.go, etcdraft/node.go), and no batch of the only leader
\* is passed over; whatever happens, the applied index on disk stays behind the blocks
\* on disk (reportState).
OrderedOnce ==
  /\ DiskBehind
  /\ part \in {"raft", "raft crash", "raft timed"} => ExecutedOnce
  /\ part = "raft" => OnlyOldPassedOver

\* The same with a second change of leader.
NeverTwice == part = "raft again" => ExecutedOnce
=============================================================================
