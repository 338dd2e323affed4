----------------------------- MODULE StateJournal -----------------------------
(***************************************************************************)
(* How the executor applies the transactions of a block to the state       *)
(* ledger and undoes them (handle.go, applyTransaction; state_accessor.go, *)
(* account.go, state_changer.go; bolt_stub.go for EVM calls made by        *)
(* contracts).  An account object holds the changer it was created with,   *)
(* and keeps it when ClearChangerAndRefund gives the ledger a new one.     *)
(* Every operation of the ledger is an operator on a ledger record.        *)
(***************************************************************************)
EXTENDS Naturals, Sequences, FiniteSets, SequencesExt

CONSTANTS Contract,    \* accounts of contracts
          Sender,      \* the account that sends and pays
          Stored,      \* accounts the database holds at the start
          Kinds,       \* kinds of transaction: "bvm", "ibtp", "parallel", "transfer", "eth"
          Outcomes,    \* outcomes of EVM calls: "ok", "failed", "error"
          Fee,         \* gas fee of a transaction
          Funds,       \* what the sender owns at the start
          MaxWrites,   \* bound: writes of a transaction
          MaxTxs,      \* bound: transactions of a block
          MaxBlocks    \* bound

Account == Contract \cup {Sender}
Field == {"balance", "nonce", "state"}
Value == 0..Funds
Empty == [f \in Field |-> 0]

VARIABLES
    ldg,     \* the state ledger
    db,      \* the database: the values of the accounts
    phase,   \* where the executor is in the transaction
    kind,    \* the kind of the transaction
    snap,    \* the revisions it took: the outer and the inner one
    before,  \* history: the values when it began
    writes, txs, blocks
vars == <<ldg, db, phase, kind, snap, before, writes, txs, blocks>>

\* held: the changer of the account object is the ledger's ("current"), one the
\* ledger has given up ("old"), or there is no object ("none").
NoObject == [held |-> "none", val |-> Empty]
FreshLedger == [acc |-> [a \in Account |-> NoObject], changes |-> <<>>,
                revs |-> <<>>, next |-> 0, instance |-> <<>>, panic |-> FALSE]

-----------------------------------------------------------------------------
(* Accounts and the change log. *)
\* GetAccount: the object in memory, or one read from cache or database.
GetAccount(l, a) ==
    IF l.acc[a].held = "none" /\ db[a] # Empty
    THEN [l EXCEPT !.acc[a] = [held |-> "current", val |-> db[a]]] ELSE l

append(l, change) == [l EXCEPT !.changes = Append(@, change)]

GetOrCreateAccount(l, a) ==
    LET known == GetAccount(l, a) IN
    IF known.acc[a].held # "none" THEN known
    ELSE append([l EXCEPT !.acc[a] = [held |-> "current", val |-> Empty]],
                [account |-> a, create |-> TRUE])

\* A setter logs the old value with the changer its account object holds.
Journaled(l, a, f, v) ==
    LET have == GetOrCreateAccount(l, a)
        entry == [account |-> a, create |-> FALSE, field |-> f, prev |-> have.acc[a].val[f]]
        logged == IF have.acc[a].held = "current" THEN append(have, entry) ELSE have IN
    [logged EXCEPT !.acc[a].val[f] = v]

SetNonce(l, a, v) == Journaled(l, a, "nonce", v)
SetBalance(l, a, v) == Journaled(l, a, "balance", v)

\* SetState of an account: with a change instance, the log is the instance's.
SetState(l, a, v, instanced) ==
    IF ~instanced THEN Journaled(l, a, "state", v)
    ELSE LET have == GetOrCreateAccount(l, a) IN
         [have EXCEPT !.acc[a].val["state"] = v,
                      !.instance = Append(@, [account |-> a, create |-> FALSE,
                          field |-> "state", prev |-> have.acc[a].val["state"]])]

\* The entry's revert method.
Undo(l, entry) ==
    IF entry.create THEN [l EXCEPT !.acc[entry.account] = NoObject]
    ELSE [GetOrCreateAccount(l, entry.account) EXCEPT
             !.acc[entry.account].val[entry.field] = entry.prev]

\* Mutant of revert: the oldest entry is undone first.
UndoesInOrder(l, log, snapshot) ==
    FoldLeft(Undo, l, SubSeq(log, snapshot + 1, Len(log)))
\* stateChanger.revert: the entries after snapshot, the last one first.
revert(l, log, snapshot) ==
    FoldLeft(Undo, l, Reverse(SubSeq(log, snapshot + 1, Len(log))))

-----------------------------------------------------------------------------
(* Revisions. *)
\* A revision is a number and the length of the log.
Snapshot(l) ==
    [l EXCEPT !.revs = Append(@, [id |-> l.next, index |-> Len(l.changes)]),
              !.next = @ + 1]

\* RevertToSnapshot: binary search of the revision; panics without it.
RevertToSnapshot(l, revid) ==
    LET idx == {i \in DOMAIN l.revs : l.revs[i].id = revid} IN
    IF idx = {} THEN [l EXCEPT !.panic = TRUE]
    ELSE LET i == CHOOSE i \in idx : TRUE
             at == l.revs[i].index IN
         [revert(l, l.changes, at) EXCEPT !.changes = SubSeq(l.changes, 1, at),
                                          !.revs = SubSeq(l.revs, 1, i - 1)]

\* RevertToSnapshotForParallel, on a change instance with one revision.
RevertToSnapshotForParallel(l) ==
    [revert(l, l.instance, 0) EXCEPT !.instance = <<>>]

\* Finalise is ClearChangerAndRefund: a changer with entries is replaced, and
\* the objects created with it are left with the old one.
ClearChangerAndRefund(l) ==
    [l EXCEPT !.changes = <<>>, !.revs = <<>>, !.next = 0,
              !.acc = [a \in Account |-> IF l.changes # <<>> /\ l.acc[a].held = "current"
                                         THEN [l.acc[a] EXCEPT !.held = "old"] ELSE l.acc[a]]]

\* The values a reader sees.
Values(l) == [a \in Account |-> IF l.acc[a].held = "none" THEN db[a] ELSE l.acc[a].val]

-----------------------------------------------------------------------------
Init ==
    /\ db = [a \in Account |->
                IF a \notin Stored THEN Empty
                ELSE [Empty EXCEPT !["balance"] = IF a = Sender THEN Funds ELSE 0,
                                   !["state"] = IF a = Sender THEN 0 ELSE 1]]
    /\ ldg = FreshLedger /\ phase = "idle" /\ kind \in Kinds
    /\ snap = <<0, 0>> /\ before = db
    /\ writes = 0 /\ txs = 0 /\ blocks = 0

\* applyTransaction up to the contract: the outer snapshot, and for contracts
\* and transfers the one of applyBxhTransaction.
Begin(k) ==
    LET outer == Snapshot(ldg)
        inner == Snapshot(outer) IN
    /\ phase = "idle" /\ txs < MaxTxs
    /\ kind' = k
    /\ before' = Values(ldg)
    /\ snap' = <<ldg.next, outer.next>>
    /\ ldg' = IF k \in {"bvm", "transfer"} THEN inner
              ELSE IF k \in {"ibtp", "eth"} THEN outer
              ELSE [ldg EXCEPT !.instance = <<>>]
    /\ phase' = "run" /\ writes' = 0
    /\ UNCHANGED <<db, txs, blocks>>

\* The contract sets a state; a contract called by another contract does so
\* without the change instance of the transaction.
Write(a, v, called) ==
    /\ phase = "run" /\ writes < MaxWrites
    /\ kind \in {"bvm", "ibtp", "parallel"}
    /\ ldg' = SetState(ldg, a, v, kind = "parallel" /\ ~called)
    /\ writes' = writes + 1
    /\ UNCHANGED <<db, phase, kind, snap, before, txs, blocks>>

\* transfer: checks the balance first.
transfer(a, v) ==
    /\ phase = "run" /\ kind = "transfer" /\ writes = 0
    /\ v > 0 /\ Values(ldg)[Sender]["balance"] >= v
    /\ ldg' = SetBalance(SetBalance(ldg, Sender, Values(ldg)[Sender]["balance"] - v),
                         a, Values(ldg)[a]["balance"] + v)
    /\ writes' = MaxWrites
    /\ UNCHANGED <<db, phase, kind, snap, before, txs, blocks>>

\* CrossInvokeEVM: the EVM works on the same ledger, undoes a failed call by
\* a snapshot of its own, and a call that ran is finalised.
CrossInvokeEVM(outcome, a, v) ==
    LET s == Snapshot(ldg)
        own == Snapshot(s)
        wrote == Journaled(own, a, "state", v) IN
    /\ phase = "run" /\ kind = "bvm" /\ writes < MaxWrites
    /\ ldg' = CASE outcome = "ok" -> ClearChangerAndRefund(wrote)
                [] outcome = "failed" -> RevertToSnapshot(wrote, s.next)
                [] outcome = "error" ->
                     ClearChangerAndRefund(RevertToSnapshot(s, ldg.next))
    /\ writes' = writes + 1
    /\ UNCHANGED <<db, phase, kind, snap, before, txs, blocks>>

\* applyEthTransaction: refused messages are undone; otherwise the EVM kept or
\* undid its own changes.  It is finalised either way and pays in the EVM.
applyEthTransaction(outcome, a, v) ==
    LET own == Snapshot(ldg)
        wrote == Journaled(own, a, "state", v)
        left == CASE outcome = "ok" -> wrote
                  [] outcome = "failed" -> RevertToSnapshot(wrote, ldg.next)
                  [] outcome = "error" -> RevertToSnapshot(ldg, snap[1]) IN
    /\ phase = "run" /\ kind = "eth"
    /\ ldg' = ClearChangerAndRefund(left)
    /\ phase' = IF outcome = "ok" THEN "ran" ELSE "undone"
    /\ UNCHANGED <<db, kind, snap, before, writes, txs, blocks>>

\* The contract returns: applyBxhTransaction undoes what a failed one did, but
\* not what a failed IBTP did.
Return(ok) ==
    /\ phase = "run" /\ kind # "eth"
    /\ ldg' = IF ok \/ kind \in {"ibtp", "parallel"} THEN ldg
              ELSE RevertToSnapshot(ldg, snap[2])
    /\ phase' = IF ldg'.panic THEN "panic"
                ELSE IF ok \/ kind \in {"ibtp", "parallel"} THEN "ran" ELSE "undone"
    /\ UNCHANGED <<db, kind, snap, before, writes, txs, blocks>>

\* The nonce is set and the changer cleared when applyTransaction returns; a
\* parallel transaction releases its instance instead.
Close(l) ==
    LET n == SetNonce(l, Sender, 1) IN
    IF kind = "parallel" THEN [n EXCEPT !.instance = <<>>] ELSE ClearChangerAndRefund(n)

\* payGasFee of a sender who can pay.
payGasFee ==
    LET have == Values(ldg)[Sender]["balance"] IN
    /\ phase \in {"ran", "undone"} /\ kind # "eth" /\ have >= Fee
    /\ ldg' = Close(SetBalance(ldg, Sender, have - Fee))
    /\ phase' = "idle" /\ txs' = txs + 1
    /\ UNCHANGED <<db, kind, snap, before, writes, blocks>>

\* payGasFee of a sender who cannot: the whole transaction is undone.
GasShort ==
    /\ phase \in {"ran", "undone"} /\ kind # "eth"
    /\ Values(ldg)[Sender]["balance"] < Fee
    /\ ldg' = IF kind = "parallel" THEN RevertToSnapshotForParallel(ldg)
              ELSE RevertToSnapshot(ldg, snap[1])
    /\ phase' = IF ldg'.panic THEN "panic" ELSE "short"
    /\ UNCHANGED <<db, kind, snap, before, writes, txs, blocks>>

\* payLeftAsGasFee, for a sender who is short; an EVM transaction has paid.
payLeftAsGasFee ==
    /\ phase = "short"
    /\ ldg' = Close(SetBalance(ldg, Sender, 0))
    /\ phase' = "idle" /\ txs' = txs + 1
    /\ UNCHANGED <<db, kind, snap, before, writes, blocks>>
CloseEth ==
    /\ phase \in {"ran", "undone"} /\ kind = "eth"
    /\ ldg' = Close(ldg) /\ phase' = "idle" /\ txs' = txs + 1
    /\ UNCHANGED <<db, kind, snap, before, writes, blocks>>

\* FlushDirtyData, Commit and Clear at the end of the block.
FlushDirtyData ==
    /\ phase = "idle" /\ txs > 0 /\ blocks < MaxBlocks
    /\ db' = Values(ldg)
    /\ ldg' = [ldg EXCEPT !.acc = [a \in Account |-> NoObject]]
    /\ txs' = 0 /\ blocks' = blocks + 1
    /\ UNCHANGED <<phase, kind, snap, before, writes>>

Next ==
    \/ \E k \in Kinds : Begin(k)
    \/ \E a \in Contract, v \in Value, called \in BOOLEAN : Write(a, v, called)
    \/ \E a \in Contract, v \in Value : transfer(a, v)
    \/ \E outcome \in Outcomes, a \in Contract, v \in Value : CrossInvokeEVM(outcome, a, v)
    \/ \E outcome \in Outcomes, a \in Contract, v \in Value : applyEthTransaction(outcome, a, v)
    \/ \E ok \in BOOLEAN : Return(ok)
    \/ payGasFee
    \/ GasShort
    \/ payLeftAsGasFee
    \/ CloseEth
    \/ FlushDirtyData
Spec == Init /\ [][Next]_vars

-----------------------------------------------------------------------------
\* Types of the ledger record and of the executor's own state; no balance is
\* overdrawn by a fee (payGasFee).
TypeOK ==
    /\ \A a \in Account : Values(ldg)[a]["balance"] \in Nat
    /\ \A a \in Account : ldg.acc[a].held \in {"none", "current", "old"}
    /\ ldg.next \in Nat /\ ldg.panic \in BOOLEAN
    /\ phase \in {"idle", "run", "ran", "undone", "short", "panic"}
    /\ kind \in Kinds /\ writes \in 0..MaxWrites /\ txs \in 0..MaxTxs /\ blocks \in 0..MaxBlocks

\* RevertToSnapshot finds a revision by binary search and cuts the log at its
\* index: the revisions are in the order of their numbers, and none points
\* behind the end of the log.
Searchable ==
    /\ \A i, j \in DOMAIN ldg.revs : i < j => ldg.revs[i].id < ldg.revs[j].id
    /\ \A i \in DOMAIN ldg.revs : /\ ldg.revs[i].id < ldg.next
                                  /\ ldg.revs[i].index <= Len(ldg.changes)

\* A transaction that was undone, because its contract failed or its sender
\* cannot pay, has left no change in the accounts.
Undone == phase \in {"undone", "short"} => Values(ldg) = before

\* The executor only reverts to revisions that are still there; otherwise
\* RevertToSnapshot panics in the executor's goroutine.
NoPanic == phase # "panic"
=============================================================================
