------------------------------ MODULE MCStorage -------------------------------
(***************************************************************************)
(* Execution and storage for TLC: the three stores of a block, with crashes*)
(* and rollbacks; the journal of one transaction and of a block; the log   *)
(* and the snapshot files of raft, of a node that crashes and of a         *)
(* follower; two nodes that execute the same blocks, the money of the      *)
(* accounts, and the checks of a block's proofs; and a query for logs.  A  *)
(* behaviour runs the part that its first state names and leaves the       *)
(* variables of the others as they begin.                                  *)
(***************************************************************************)
EXTENDS BlockLedger, TLC

CONSTANTS Parts,                   \* the parts that are run
          b1, b2,                  \* blocks
          k1, k2, sender,          \* two contracts and who calls them
          n1, n2,                  \* two nodes
          s1, u, v, w,             \* a service and three accounts
          a1, a2, a3, a4, stranger,
          A, B, t1, t2,            \* addresses and topics of logs
          SegmentSize, MaxSnapshotFiles,
          Elsewhere, Services, Accounts, Validators, Admins, Capacity,
          GasNormalTx, GasBVMTx, GasFailedTx

VARIABLES part,
          ldg, db, phase, kind, snap, before, writes, txs, blocks,
          wal, files, locked, snapshotIndex, last, commit, pc, pend, taking,
          raftCrashes, corrupted,
          chain, node, died,
          logChain, q

journalVars == <<ldg, db, phase, kind, snap, before, writes, txs, blocks>>
raftVars    == <<wal, files, locked, snapshotIndex, last, commit, pc, pend, taking,
                 raftCrashes, corrupted>>
execVars    == <<chain, node, died>>
logVars     == <<logChain, q>>

Writes == {"state", "trim", "file", "chain"}
AnyPoint == SUBSET Writes \cup {{"ready"}, {"recover"}, {"rollback"}, {"truncate"}}

-----------------------------------------------------------------------------
\* One transaction per block whose failing contract writes two accounts; and several
\* transactions of a block.
OneTx == INSTANCE StateJournal WITH
  Contract <- {k1, k2}, Sender <- sender, Stored <- {k1, sender},
  Kinds <- {"bvm", "ibtp", "transfer"}, Outcomes <- {"failed"}, Fee <- 2, Funds <- 2,
  MaxWrites <- 2, MaxTxs <- 1, MaxBlocks <- 2
ManyTxs == INSTANCE StateJournal WITH
  Contract <- {k2}, Sender <- sender, Stored <- {sender},
  Kinds <- {"bvm", "eth", "parallel"}, Outcomes <- {"ok", "failed", "error"}, Fee <- 1,
  Funds <- 1, MaxWrites <- 2, MaxTxs <- 2, MaxBlocks <- 1

\* A node that takes snapshots, crashes and finds a file corrupted; and one that is sent
\* them.
Keeping == INSTANCE RaftStorage WITH
  crashes <- raftCrashes, MaxIndex <- 4, Received <- FALSE, MaxCrashes <- 1, MaxCorrupt <- 1
Following == INSTANCE RaftStorage WITH
  crashes <- raftCrashes, MaxIndex <- 5, Received <- TRUE, MaxCrashes <- 0, MaxCorrupt <- 0

-----------------------------------------------------------------------------
(* The blocks that are executed.                                           *)

\* One transaction of every kind; m is the node whose API takes it.
Call(typ, from, to, val, m) ==
  [kind |-> typ, from |-> from, to |-> to, val |-> val, sig |-> TRUE, at |-> m,
   hub |-> FALSE, signs |-> <<>>, proof |-> "valid"]
Unsigned(t) == [t EXCEPT !.sig = FALSE]
Proof(t, p) == [t EXCEPT !.proof = p]
Freeze(m) == Call("status", u, s1, "frozen", m)
Activate(m) == Call("status", u, s1, "available", m)
Request(m) == Call("request", u, s1, "none", m)
Receipt(m) == Call("receipt", u, s1, "none", m)

ServiceBlocks ==
  {<<t>> : t \in {Freeze(n1), Activate(n1), Request(n1), Receipt(n2),
                  Unsigned(Freeze(Elsewhere)), Unsigned(Freeze(n1)), Proof(Request(n1), "error")}}
  \cup {<<Freeze(n1), Request(n2)>>, <<Activate(n2), Receipt(n1), Request(n1)>>}

MoneyBlocks ==
  {<<Call("transfer", a, b, x, n1)>> : a \in {u, v, w}, b \in {u, v, w}, x \in {0, 1, 3}}
  \cup {<<Freeze(n1)>>, <<Unsigned(Call("transfer", u, w, 1, n1))>>}

\* Up to five IBTPs with one or two wrong ones at every position, and requests that other
\* relay chains have signed.
CheckedBlocks ==
  {[i \in 1..k |-> IF i = j THEN Proof(Request(n1), "error")
                   ELSE IF i = l THEN Unsigned(Request(Elsewhere)) ELSE Request(n1)] :
      k \in 0..5, j \in 0..5, l \in 0..5}
  \cup {<<[Request(n1) EXCEPT !.hub = TRUE, !.signs = s]>> :
          s \in UNION {[1..k -> {a1, a2, a3, stranger}] : k \in 0..3}}

\* Two nodes, and one node with little money or with blocks of many proofs.
Two == INSTANCE Execution WITH
  Nodes <- {n1, n2}, Blocks <- ServiceBlocks, MaxHeight <- 3, maxGroup <- 2, Funds <- 30
Money == INSTANCE Execution WITH
  Nodes <- {n1}, Blocks <- MoneyBlocks, MaxHeight <- 3, maxGroup <- 2, Funds <- 4
Proofs == INSTANCE Execution WITH
  Nodes <- {n1}, Blocks <- CheckedBlocks, MaxHeight <- 2, maxGroup <- 4, Funds <- 60

-----------------------------------------------------------------------------
(* The logs that are asked for; A and t2 share a bit of the bloom filter.   *)

Log(a, ts) == [address |-> a, topics |-> ts]
SomeLogs == {Log(A, <<>>), Log(A, <<t1>>), Log(B, <<t2, t1>>), Log(B, <<t1, t2>>)}
SomeBlockLogs ==
  {<<>>, <<Log(B, <<t1, t2>>)>>, <<Log(B, <<t2, t1>>), Log(A, <<t1>>)>>,
   <<Log(A, <<>>), Log(A, <<t1>>)>>}
SomeCriteria ==
  {[addresses |-> as, topics |-> ts] :
      as \in {{}, {A}, {A, B}},
      ts \in {<<>>, <<{t1}>>, <<{}, {t1}>>, <<{t1, t2}>>, <<{t2}, {t1}>>}}
SharedBit == [x \in {A, B, t1, t2} |->
                CASE x = A -> 1 [] x = B -> 2 [] x = t1 -> 3 [] x = t2 -> 1]

Query == INSTANCE LogQuery WITH
  chain <- logChain, Logs <- SomeLogs, BlockLogs <- SomeBlockLogs, Criteria <- SomeCriteria,
  Begins <- {-2, -1, 1, 2}, Ends <- {-2, -1, 1, 2, 4}, Bit <- SharedBit, MaxHeight <- 3

-----------------------------------------------------------------------------
ASSUME Two!AdminsAssumption /\ Keeping!FilesAssumption

PartsInit ==
  /\ part \in Parts
  /\ Init
  /\ IF part = "block" THEN ManyTxs!Init ELSE OneTx!Init
  /\ part = "journal" \/ kind = "bvm"
  /\ Keeping!Init
  /\ IF part = "agree" THEN Two!Init ELSE IF part = "money" THEN Money!Init ELSE Proofs!Init
  /\ Query!Init

JournalNext == (part = "journal" /\ OneTx!Next) \/ (part = "block" /\ ManyTxs!Next)
RaftNext == (part = "keeping" /\ Keeping!Next) \/ (part = "following" /\ Following!Next)
ExecNext == \/ part = "agree" /\ Two!Next
            \/ part = "money" /\ Money!Next
            \/ part = "proofs" /\ Proofs!Next

PartsNext ==
  \/ part = "ledger" /\ Next /\ UNCHANGED <<part, journalVars, raftVars, execVars, logVars>>
  \/ JournalNext /\ UNCHANGED <<part, vars, raftVars, execVars, logVars>>
  \/ RaftNext /\ UNCHANGED <<part, vars, journalVars, execVars, logVars>>
  \/ ExecNext /\ UNCHANGED <<part, vars, journalVars, raftVars, logVars>>
  \/ part = "logs" /\ Query!Next /\ UNCHANGED <<part, vars, journalVars, raftVars, execVars>>

PartsSpec ==
  PartsInit /\ [][PartsNext]_<<part, vars, journalVars, raftVars, execVars, logVars>>
-----------------------------------------------------------------------------
\* A transaction that was undone, because its contract failed or its sender cannot pay,
\* has left no change in the accounts; the revision that is reverted to is found and is
\* still there, or the executor would panic (RevertToSnapshot, applyBxhTransaction).
UndoneWhole ==
  CASE part = "journal" -> OneTx!TypeOK /\ OneTx!Undone /\ OneTx!NoPanic
    [] part = "block" -> ManyTxs!Searchable
    [] OTHER -> TRUE

\* Whenever a node crashes, CreateStorage opens the log of raft at the newest snapshot
\* that can be read and finds every entry stored after it (saveSnap, gc, purgeWAL); a
\* follower's log opens at every snapshot it retains once the received one is saved.
LogReopens ==
  CASE part = "keeping" -> Keeping!TypeOK /\ Keeping!Recoverable
    [] part = "following" -> Following!TypeOK /\ Following!Reopens
    [] OTHER -> TRUE

\* Nodes that have executed the same blocks have the same ledger and the same receipts,
\* whichever of them took the transactions or has started again since; what the cache of
\* services says is what the ledger says (postServiceEvent).
ReplicasAgree == part = "agree" => Two!TypeOK /\ Two!NodesAgree /\ Two!CacheAgrees

\* Transfers, gas and its distribution never make money (transfer, payAdmins).  A
\* transaction with a wrong signature and an IBTP whose proof is wrong have a failed
\* receipt, at whichever position of whichever goroutine's part of the block they stand
\* (verifyProofs, verifyMultiSign).
PaidAndChecked ==
  CASE part = "money" -> Money!TypeOK /\ Money!NoMoneyMade
    [] part = "proofs" -> Proofs!BadOnesFail
    [] OTHER -> TRUE

\* A query has, in order, every log of its range that fits the criteria and no other,
\* although most blocks were looked at through their bloom filter only (unindexedLogs).
LogsExact == part = "logs" => Query!TypeOK /\ Query!Exact
=============================================================================
