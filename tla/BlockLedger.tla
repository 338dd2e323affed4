----------------------------- MODULE BlockLedger -----------------------------
(***************************************************************************)
(* How a block is made durable, undone and recovered (ledger.go,           *)
(* chain_ledger_impl.go, state_accessor.go, simple_ledger.go,              *)
(* block_journal.go; handle.go, rollbackBlocks).  Three stores are written *)
(* at the same time by goroutines of their own: the state database, the    *)
(* block file and the chain database; the node may crash between any two   *)
(* of their writes.  A state is the sequence of the blocks executed, which *)
(* is also what its root identifies.                                       *)
(***************************************************************************)
EXTENDS Naturals, Sequences, FiniteSets, Functions

CONSTANTS Block,        \* what blocks may hold
          Busy,         \* the blocks that hold one interchain transaction
          Window,       \* journals kept besides the newest (10 in the code)
          CrashPoints,  \* where the node may crash, see Point
          MaxHeight, MaxCrashes, MaxRollbacks    \* bounds

VARIABLES
    sdb,     \* state database: content, journals, minHeight, maxHeight
    file,    \* block file: the state root of every block
    cdb,     \* chain database: the chain meta
    mem,     \* what the process holds of them
    mode,    \* "ready", "persist", "rollback", "recover", "truncate", "down", "halted" or "stuck"
    done,    \* writes of the block being persisted that are on disk
    arg,     \* the root being persisted, or the height to go back to
    crashes, rollbacks
vars == <<sdb, file, cdb, mem, mode, done, arg, crashes, rollbacks>>

\* At least the journal of the block before the newest is kept.
ASSUME LedgerAssumption == Window \in Nat \ {0} /\ MaxHeight \in Nat

Prefix(root, n) == SubSeq(root, 1, n)
InterchainTxCount(root) == Cardinality({i \in DOMAIN root : root[i] \in Busy})

Init ==
    /\ sdb = [content |-> <<>>, jnl |-> <<>>, min |-> 0, max |-> 0]
    /\ file = <<>>
    /\ cdb = [height |-> 0, count |-> 0]
    /\ mem = [min |-> 0, max |-> 0, prev |-> <<>>, height |-> 0, count |-> 0]
    /\ mode = "ready" /\ done = {} /\ arg = <<>>
    /\ crashes = 0 /\ rollbacks = 0

-----------------------------------------------------------------------------
(* Persisting a block. *)
\* processExecuteEvent: FlushDirtyData chains the root to the previous journal
\* and PersistBlockData starts the goroutines.
FlushDirtyData(b) ==
    /\ mode = "ready" /\ mem.height < MaxHeight
    /\ arg' = Append(mem.prev, b)
    /\ mem' = [mem EXCEPT !.prev = arg']
    /\ mode' = "persist" /\ done' = {}
    /\ UNCHANGED <<sdb, file, cdb, crashes, rollbacks>>

\* Commit: one batch with the accounts, the journal and its range.
Commit ==
    LET height == mem.height + 1 IN
    /\ mode = "persist" /\ "state" \notin done
    /\ sdb' = [content |-> Append(sdb.content, arg[Len(arg)]),
               jnl |-> [i \in DOMAIN sdb.jnl \cup {height} |->
                            IF i = height THEN arg ELSE sdb.jnl[i]],
               min |-> IF mem.min = 0 THEN height ELSE sdb.min,
               max |-> height]
    /\ mem' = [mem EXCEPT !.min = IF @ = 0 THEN height ELSE @, !.max = height]
    /\ done' = done \cup {"state"}
    /\ UNCHANGED <<file, cdb, mode, arg, crashes, rollbacks>>

\* Mutant of removeJournalsBeforeBlock: the journal at the height goes too.
RemovesOneMore ==
    LET height == mem.max - Window IN
    /\ mode = "persist" /\ "state" \in done /\ "trim" \notin done
    /\ IF mem.max > Window /\ height > mem.min
       THEN /\ sdb' = [sdb EXCEPT !.jnl = Restrict(@, {i \in DOMAIN @ : i > height}),
                                  !.min = height]
            /\ mem' = [mem EXCEPT !.min = height]
       ELSE UNCHANGED <<sdb, mem>>
    /\ done' = done \cup {"trim"}
    /\ UNCHANGED <<file, cdb, mode, arg, crashes, rollbacks>>
\* removeJournalsBeforeBlock, the second batch of Commit.
removeJournalsBeforeBlock ==
    LET height == mem.max - Window IN
    /\ mode = "persist" /\ "state" \in done /\ "trim" \notin done
    /\ IF mem.max > Window /\ height > mem.min
       THEN /\ sdb' = [sdb EXCEPT !.jnl = Restrict(@, {i \in DOMAIN @ : i >= height}),
                                  !.min = height]
            /\ mem' = [mem EXCEPT !.min = height]
       ELSE UNCHANGED <<sdb, mem>>
    /\ done' = done \cup {"trim"}
    /\ UNCHANGED <<file, cdb, mode, arg, crashes, rollbacks>>

\* blockfile.AppendBlock (external): refuses a number that is not the number
\* of blocks it holds; PersistExecutionResult panics then.
AppendBlock ==
    /\ mode = "persist" /\ "file" \notin done
    /\ IF Len(file) = mem.height
       THEN file' = Append(file, arg) /\ done' = done \cup {"file"} /\ mode' = mode
       ELSE mode' = "stuck" /\ UNCHANGED <<file, done>>
    /\ UNCHANGED <<sdb, cdb, mem, arg, crashes, rollbacks>>

\* The chain database's batch, with the new chain meta.
persistChainMeta ==
    /\ mode = "persist" /\ "chain" \notin done
    /\ cdb' = [height |-> mem.height + 1,
               count |-> mem.count + IF arg[Len(arg)] \in Busy THEN 1 ELSE 0]
    /\ done' = done \cup {"chain"}
    /\ UNCHANGED <<sdb, file, mem, mode, arg, crashes, rollbacks>>

\* UpdateChainMeta, when all of PersistBlockData's goroutines have ended.
UpdateChainMeta ==
    /\ mode = "persist" /\ done = {"state", "trim", "file", "chain"}
    /\ mem' = [mem EXCEPT !.height = cdb.height, !.count = cdb.count]
    /\ mode' = "ready" /\ arg' = <<>> /\ done' = {}
    /\ UNCHANGED <<sdb, file, cdb, crashes, rollbacks>>

-----------------------------------------------------------------------------
(* Going back. *)
\* getBlockJournal: the root the journal of a height holds, if there is one.
getBlockJournal(height) == IF height \in DOMAIN sdb.jnl THEN sdb.jnl[height] ELSE <<>>

\* The early returns of RollbackState.
RollbackRefused(m, height) ==
    IF m.max < height THEN "higher"
    ELSE IF m.min > height /\ ~(m.min = 1 /\ height = 0) THEN "much" ELSE "no"

\* rollbackBlocks: consensus delivers another block at a height that has one.
rollbackBlocks(height) ==
    /\ mode = "ready" /\ rollbacks < MaxRollbacks /\ height < mem.height /\ height > 0
    /\ rollbacks' = rollbacks + 1
    /\ arg' = height
    /\ mode' = IF RollbackRefused(mem, height) = "no" THEN "rollback" ELSE "halted"
    /\ UNCHANGED <<sdb, file, cdb, mem, done, crashes>>

\* One height of RollbackState: a batch that applies the journal backwards.
revertJournal ==
    /\ mode \in {"rollback", "recover"} /\ sdb.max > arg
    /\ IF sdb.max \in DOMAIN sdb.jnl
       THEN /\ sdb' = [sdb EXCEPT !.content = Prefix(@, Len(@) - 1),
                                  !.jnl = Restrict(@, DOMAIN @ \ {sdb.max}),
                                  !.max = @ - 1]
            /\ mode' = mode
       ELSE mode' = "stuck" /\ UNCHANGED sdb
    /\ UNCHANGED <<file, cdb, mem, done, arg, crashes, rollbacks>>

\* Mutant of RollbackState: the previous journal's hash is left as it is.
KeepsPrevious ==
    /\ mode \in {"rollback", "recover"} /\ sdb.max <= arg
    /\ mem' = [mem EXCEPT !.max = arg, !.min = IF arg = 0 THEN 0 ELSE @]
    /\ mode' = IF mode = "recover" THEN "ready" ELSE "truncate"
    /\ UNCHANGED <<sdb, file, cdb, done, arg, crashes, rollbacks>>
\* The end of RollbackState; at start-up RollbackBlockChain has nothing to do.
RollbackState ==
    /\ mode \in {"rollback", "recover"} /\ sdb.max <= arg
    /\ mem' = [mem EXCEPT !.prev = getBlockJournal(arg),
                          !.max = arg, !.min = IF arg = 0 THEN 0 ELSE @]
    /\ mode' = IF mode = "recover" THEN "ready" ELSE "truncate"
    /\ UNCHANGED <<sdb, file, cdb, done, arg, crashes, rollbacks>>

\* removeChainDataOnBlock: the block file is cut before the batch commits.
removeChainDataOnBlock ==
    /\ mode = "truncate" /\ Len(file) > arg
    /\ file' = Prefix(file, Len(file) - 1)
    /\ mem' = [mem EXCEPT !.count = @ - IF file[Len(file)][Len(file)] \in Busy THEN 1 ELSE 0]
    /\ UNCHANGED <<sdb, cdb, mode, done, arg, crashes, rollbacks>>

\* The end of RollbackBlockChain: the batch with the chain meta.
RollbackBlockChain ==
    /\ mode = "truncate" /\ Len(file) = arg
    /\ cdb' = [height |-> arg, count |-> mem.count]
    /\ mem' = [mem EXCEPT !.height = arg]
    /\ mode' = "ready"
    /\ UNCHANGED <<sdb, file, done, arg, crashes, rollbacks>>

-----------------------------------------------------------------------------
(* Crash and start.  The points of SafePoint leave the chain meta and the    *)
(* block file in step, with nothing but the state ahead of them.             *)
SafePoint == {{"ready"}, {"recover"}, {}, {"state"}, {"state", "trim"},
              {"state", "file", "chain"}, {"state", "trim", "file", "chain"}}
Point == IF mode = "persist" THEN done ELSE {mode}
Crash ==
    /\ Point \in CrashPoints /\ crashes < MaxCrashes
    /\ mode' = "down" /\ crashes' = crashes + 1
    /\ UNCHANGED <<sdb, file, cdb, mem, done, arg, rollbacks>>

\* NewSimpleLedger and NewChainLedgerImpl: what is loaded from the stores; the
\* state ledger needs the journal of its height.
NewSimpleLedger == [min |-> sdb.min, max |-> sdb.max, prev |-> getBlockJournal(sdb.max)]
NewChainLedgerImpl(m) == [min |-> m.min, max |-> m.max, prev |-> m.prev,
                          height |-> cdb.height, count |-> cdb.count]

\* New: both ledgers are loaded, and the state goes back to the chain's height.
New ==
    LET loaded == NewChainLedgerImpl(NewSimpleLedger) IN
    /\ mode = "down"
    /\ mem' = loaded
    /\ arg' = cdb.height /\ done' = {}
    /\ mode' = IF \/ RollbackRefused(loaded, cdb.height) # "no"
                  \/ sdb.max # 0 /\ loaded.prev = <<>> THEN "stuck"
               ELSE IF sdb.max = cdb.height THEN "ready" ELSE "recover"
    /\ UNCHANGED <<sdb, file, cdb, crashes, rollbacks>>

Next ==
    \/ \E b \in Block : FlushDirtyData(b)
    \/ Commit
    \/ removeJournalsBeforeBlock
    \/ AppendBlock
    \/ persistChainMeta
    \/ UpdateChainMeta
    \/ \E h \in 1..MaxHeight : rollbackBlocks(h)
    \/ revertJournal
    \/ RollbackState
    \/ removeChainDataOnBlock
    \/ RollbackBlockChain
    \/ Crash
    \/ New
\* A node that is down is started, and start-up runs to its end.
Spec == Init /\ [][Next]_vars /\ WF_vars(New \/ (mode = "recover" /\ (revertJournal \/ RollbackState)))

-----------------------------------------------------------------------------
\* Types; the count of interchain transactions, an unsigned number, is never
\* taken below zero by a rollback (RollbackBlockChain).
TypeOK ==
    /\ sdb.content \in Seq(Block) /\ sdb.min \in 0..MaxHeight /\ sdb.max \in 0..MaxHeight
    /\ cdb.height \in 0..MaxHeight /\ cdb.count \in Nat
    /\ mem.height \in 0..MaxHeight /\ mem.count \in Nat
    /\ mode \in {"ready", "persist", "rollback", "recover", "truncate", "down", "halted", "stuck"}
    /\ done \subseteq {"state", "trim", "file", "chain"}

\* Whenever the node may take a block, after whatever crashes and rollbacks,
\* its three stores tell the same history: the block file holds the root of
\* every prefix of the state, and the chain meta its height and its count.
StoresAgree ==
    mode = "ready" =>
        /\ Len(sdb.content) = mem.height /\ sdb.max = mem.height /\ cdb.height = mem.height
        /\ file = [i \in 1..mem.height |-> Prefix(sdb.content, i)]
        /\ mem.prev = sdb.content
        /\ cdb.count = InterchainTxCount(sdb.content) /\ mem.count = cdb.count

\* Every height RollbackState accepts can be reached: the journals between the
\* bounds the state database names are there and hold the roots of their heights.
JournalsComplete ==
    mode = "ready" /\ sdb.max > 0 =>
        /\ mem.min = sdb.min /\ DOMAIN sdb.jnl = sdb.min..sdb.max
        /\ \A i \in DOMAIN sdb.jnl : sdb.jnl[i] = Prefix(sdb.content, i)

\* No crash leaves stores from which the node cannot start, or cannot append
\* the next block (New, PersistExecutionResult).
Recoverable == mode # "stuck"
=============================================================================
