------------------------------ MODULE Execution ------------------------------
(* The block executor of every node: the ordered blocks go through the        *)
(* signature stage and the execution stage, transactions change the ledger,   *)
(* pay their gas, and the events they posted update the cache of services     *)
(* that the interchain contract reads.  All nodes execute the same chain;     *)
(* a node may stop at any time and start again with what it has persisted.    *)
(*                                                                            *)
(* A transaction is a record: kind ("transfer", "status" of a service,        *)
(* "request" or "receipt" of an IBTP), from, to (an account or a service),    *)
(* val (an amount or a status), sig (does the signature verify), at (the node *)
(* whose API took it, or Elsewhere), hub (does the IBTP come from another     *)
(* relay chain), signs (who signed it there) and proof (what the rule of the  *)
(* appchain, or verifyProof before it comes to the rule, says of it).         *)
EXTENDS Integers, Sequences, SequencesExt, FiniteSets, FiniteSetsExt

CONSTANTS
    Nodes, Elsewhere,   \* the nodes that are followed, and the rest
    Services, Accounts,
    Validators,         \* of the other relay chain
    Admins,             \* the accounts that share the gas fees
    Blocks,             \* the blocks that clients and consensus may produce
    MaxHeight,          \* bound: blocks ordered
    maxGroup,           \* goroutines of verifyProofs
    Capacity,           \* of blockC
    GasNormalTx, GasBVMTx, GasFailedTx,
    Funds               \* initial balance of every account

VARIABLES
    chain,   \* the ordered blocks
    node,    \* per node: its pipeline, what it has persisted, and its cache
    died     \* nodes whose process ended in a panic

vars == <<chain, node, died>>

\* Genesis names administrators, and they have accounts.
AdminsAssumption == Admins # {} /\ Admins \subseteq Accounts

Absent == "absent"
Statuses == {"available", "frozen"}

Ledger0 == [status |-> [s \in Services |-> "available"],
            count  |-> [s \in Services |-> 0],
            bal    |-> [a \in Accounts |-> Funds]]

\* pre: the last block that passed verifySign; blockC: verified blocks that wait,
\* each the set of its invalid positions; receipts: a sequence per executed block.
Node0 == [pre |-> 0, blockC |-> <<>>, ledger |-> Ledger0,
          cache |-> [s \in Services |-> Absent], receipts |-> <<>>]

Init ==
    /\ chain = <<>>
    /\ node = [n \in Nodes |-> Node0]
    /\ died = {}

-----------------------------------------------------------------------------
(* The API and the signature stage.                                           *)

checkTransaction(t) == t.from # t.to /\ t.sig

\* What reaches a block: a local transaction has passed this check; of the ones
\* taken elsewhere only the signature is in doubt.
Admitted(t) == IF t.at = Elsewhere THEN t.from # t.to ELSE checkTransaction(t)

Order(b) ==
    /\ Len(chain) < MaxHeight
    /\ \A i \in DOMAIN b : Admitted(b[i])
    /\ chain' = Append(chain, b)
    /\ UNCHANGED <<node, died>>

\* Block 1 is the genesis block and is not in chain: every block is verified.
verifySign(b, local) == {i \in DOMAIN b : i \notin local /\ ~b[i].sig}

\* LocalList marks transactions this node's API took, unless the node has lost
\* its pool since then or has fetched the block from a peer.
listenPreExecuteEvent(n) ==
    /\ n \notin died
    /\ node[n].pre < Len(chain)
    /\ Len(node[n].blockC) < Capacity
    /\ LET b == chain[node[n].pre + 1]
       IN  \E local \in SUBSET {i \in DOMAIN b : b[i].at = n} :
             node' = [node EXCEPT ![n].pre = @ + 1,
                                  ![n].blockC = Append(@, verifySign(b, local))]
    /\ UNCHANGED <<chain, died>>

-----------------------------------------------------------------------------
(* Proofs.                                                                    *)

isIBTP(t) == t.kind \in {"request", "receipt"}

\* Every validator is counted once, anyone else not at all.
verifyMultiSign(signs) ==
    IF Cardinality(ToSet(signs) \cap Validators) > (Cardinality(Validators) - 1) \div 3
    THEN "valid" ELSE "error"

\* "error" covers what verifyProof finds wrong itself and what the rule reports
\* as an error; "refused" is the rule's answer false.
verifyProof(t) == IF t.hub THEN verifyMultiSign(t.signs) ELSE t.proof

CheckProof(t) ==
    IF isIBTP(t) THEN [ok |-> verifyProof(t) = "valid", err |-> verifyProof(t) = "error"]
    ELSE [ok |-> TRUE, err |-> FALSE]

EqualGroups(b) ==
    LET groupNum == Min({Len(b), maxGroup})
        groupLen == Len(b) \div groupNum
    IN  [g \in 1..groupNum |-> (g - 1) * groupLen + 1 .. g * groupLen]

\* The positions each goroutine checks: equal parts, the last takes the rest.
Groups(b) ==
    LET groupNum == Min({Len(b), maxGroup})
        groupLen == Len(b) \div groupNum
    IN  [g \in 1..groupNum |-> (g - 1) * groupLen + 1 ..
                                 (IF g = groupNum THEN Len(b) ELSE g * groupLen)]

Refused(b) ==
    IF b = <<>> THEN {}
    ELSE UNION {{i \in Groups(b)[g] : ~CheckProof(b[i]).ok} : g \in DOMAIN Groups(b)}

\* A refusal without an error is a nil dereference in a goroutine.
Panics(b) == \E i \in Refused(b) : ~CheckProof(b[i]).err

verifyProofs(b, invalid) == invalid \cup Refused(b)

-----------------------------------------------------------------------------
(* One transaction.  An outcome has the ledger, whether it succeeded, the gas *)
(* and the services in the SERVICE events it posted, with their status.       *)

Outcome(l, ok, gas, evs) == [l |-> l, ok |-> ok, gas |-> gas, evs |-> evs]

transfer(l, t) ==
    IF t.val = 0 THEN Outcome(l, TRUE, GasNormalTx, {})
    ELSE IF l.bal[t.from] < t.val THEN Outcome(l, FALSE, GasNormalTx, {})
    ELSE LET fv == l.bal[t.from]
             tv == l.bal[t.to]
             taken == [l.bal EXCEPT ![t.from] = fv - t.val]
         IN  Outcome([l EXCEPT !.bal = [taken EXCEPT ![t.to] = tv + t.val]], TRUE, GasNormalTx, {})

getServiceByID(l, cache, s) == IF cache[s] # Absent THEN cache[s] ELSE l.status[s]

\* A request needs an available source; a receipt records the invocation at the
\* service, which posts the service as it stands in the ledger.
HandleIBTP(l, cache, t) ==
    IF t.kind = "request" /\ getServiceByID(l, cache, t.to) # "available"
    THEN Outcome(l, FALSE, GasBVMTx, {})
    ELSE Outcome([l EXCEPT !.count[t.to] = @ + 1], TRUE, GasBVMTx,
                 IF t.kind = "receipt" THEN {<<t.to, l.status[t.to]>>} ELSE {})

StaysQuiet(l, t) == Outcome([l EXCEPT !.status[t.to] = t.val], TRUE, GasBVMTx, {})

\* A call of the service manager that changes the status of a service.
RunBVM(l, t) == Outcome([l EXCEPT !.status[t.to] = t.val], TRUE, GasBVMTx, {<<t.to, t.val>>})

applyBxhTransaction(l, cache, t, invalid) ==
    CASE invalid -> Outcome(l, FALSE, GasFailedTx, {})
      [] ~invalid /\ isIBTP(t) -> HandleIBTP(l, cache, t)
      [] ~invalid /\ t.kind = "transfer" -> transfer(l, t)
      [] ~invalid /\ t.kind = "status" -> RunBVM(l, t)

payAdmins(bal, fees) ==
    [a \in Accounts |-> bal[a] + (IF a \in Admins THEN fees \div Cardinality(Admins) ELSE 0)]

payGasFee(l, from, fees) == [l EXCEPT !.bal = payAdmins([@ EXCEPT ![from] = @ - fees], fees)]

payLeftAsGasFee(l, from) == payGasFee(l, from, l.bal[from])

\* The sender pays after the call: what it cannot pay for is undone, and what is
\* left of its balance goes to the administrators.
applyTransaction(l, cache, t, invalid) ==
    LET r == applyBxhTransaction(l, cache, t, invalid)
    IN  IF r.l.bal[t.from] < r.gas
        THEN [r EXCEPT !.l = payLeftAsGasFee(l, t.from), !.ok = FALSE]
        ELSE [r EXCEPT !.l = payGasFee(r.l, t.from, r.gas)]

\* Events of a transaction stay in the ledger whatever its receipt says.
applyTx(x, t, invalid) ==
    LET r == applyTransaction(x.ledger, x.cache, t, invalid)
    IN  [x EXCEPT !.ledger = r.l,
                  !.cache = [s \in Services |->
                               IF \E e \in r.evs : e[1] = s
                               THEN (CHOOSE e \in r.evs : e[1] = s)[2] ELSE @[s]],
                  !.receipts[Len(x.receipts)] = Append(@, r.ok)]

ApplyTransactions(x, b, invalid) ==
    FoldLeft(LAMBDA y, i : applyTx(y, b[i], i \in invalid),
             [x EXCEPT !.receipts = Append(@, <<>>)], [i \in DOMAIN b |-> i])

-----------------------------------------------------------------------------
(* A block, and a node that stops.                                            *)

Executed(x) == Len(x.receipts)

processExecuteEvent(n) ==
    /\ n \notin died
    /\ node[n].blockC # <<>>
    /\ LET b == chain[Executed(node[n]) + 1]
           invalid == verifyProofs(b, Head(node[n].blockC))
       IN  IF Panics(b)
           THEN died' = died \cup {n} /\ UNCHANGED node
           ELSE /\ node' = [node EXCEPT ![n] =
                              ApplyTransactions([@ EXCEPT !.blockC = Tail(@)], b, invalid)]
                /\ UNCHANGED died
    /\ UNCHANGED chain

\* loadServiceCache reads the services and stores none of them: the cache starts
\* empty.  Blocks that were not executed are delivered again.
Restart(n) ==
    /\ node' = [node EXCEPT ![n].pre = Executed(node[n]), ![n].blockC = <<>>,
                            ![n].cache = [s \in Services |-> Absent]]
    /\ died' = died \ {n}
    /\ UNCHANGED chain

Next ==
    \/ \E b \in Blocks : Order(b)
    \/ \E n \in Nodes :
         \/ listenPreExecuteEvent(n)
         \/ processExecuteEvent(n)
         \/ Restart(n)

Spec == Init /\ [][Next]_vars

-----------------------------------------------------------------------------
TypeOK ==
    /\ chain \in Seq(Blocks) /\ Len(chain) <= MaxHeight
    /\ \A n \in Nodes :
         /\ Executed(node[n]) + Len(node[n].blockC) = node[n].pre
         /\ node[n].pre \in 0..Len(chain)
         /\ node[n].ledger.status \in [Services -> Statuses]
         /\ node[n].ledger.bal \in [Accounts -> Nat]
         /\ node[n].cache \in [Services -> Statuses \cup {Absent}]
    /\ died \subseteq Nodes

\* Nodes that have executed the same blocks have the same receipts and the same
\* ledger, whichever of them took the transactions, skipped their signatures
\* (verifySign) or has started again since with an empty cache of services.
NodesAgree ==
    \A m, n \in Nodes :
        Executed(node[m]) = Executed(node[n]) =>
            node[m].ledger = node[n].ledger /\ node[m].receipts = node[n].receipts

\* What the interchain contract finds in the cache of services is what the
\* ledger says of the service (postServiceEvent, applyTx, getServiceByID).
CacheAgrees ==
    \A n \in Nodes, s \in Services :
        node[n].cache[s] \in {Absent, node[n].ledger.status[s]}

\* Transfers, gas and its distribution never make money: the balances of a
\* ledger never add up to more than the accounts had at first (transfer reads
\* both balances before it writes either; payAdmins rounds down).
NoMoneyMade ==
    \A n \in Nodes :
        MapThenSumSet(LAMBDA a : node[n].ledger.bal[a], Accounts)
            <= Cardinality(Accounts) * Funds

\* A third of the validators has signed, or the rule accepts the proof.
Proved(t) ==
    IF t.hub THEN 3 * Cardinality({v \in Validators : \E i \in DOMAIN t.signs : t.signs[i] = v})
                    >= Cardinality(Validators)
    ELSE t.proof = "valid"

\* In an executed block every transaction with a wrong signature, every IBTP of
\* another hub that less than a third of its validators signed and every IBTP
\* whose proof is wrong has a failed receipt, at whichever position of
\* whichever goroutine's part it stands (verifyProofs, verifyMultiSign).
BadOnesFail ==
    \A n \in Nodes : \A h \in 1..Executed(node[n]) : \A i \in DOMAIN chain[h] :
        LET t == chain[h][i]
        IN  ~t.sig \/ (isIBTP(t) /\ ~Proved(t)) => ~node[n].receipts[h][i]
=============================================================================
