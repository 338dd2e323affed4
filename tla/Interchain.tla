----------------------------- MODULE Interchain -----------------------------
(***************************************************************************)
(* One hub handling one-to-one cross-chain transactions: the               *)
(* InterchainManager contract (HandleIBTP and what it calls), the record   *)
(* the TransactionManager contract keeps of every transaction, and the     *)
(* work the executor does when it closes a block: filing the block's       *)
(* requests under the height at which they time out, taking the answered   *)
(* ones off, and rolling back those whose height has come.                 *)
(*                                                                         *)
(* An IBTP is a request (INTERCHAIN), a receipt, or a notification: a      *)
(* request sent back by the destination hub with the status it gave up in. *)
(* Piers may send any IBTP at any moment and any number of times, so the   *)
(* actions quantify over all of them.  An IBTP that fails a check changes  *)
(* nothing and is a stuttering step.                                       *)
(***************************************************************************)
EXTENDS Integers, FiniteSets, TxFsm

CONSTANTS
  Service,        \* the services, of application chains and of hubs
  HubOf,          \* HubOf[s] is the hub service s is registered with
  BxhId,          \* this hub
  BxhService,     \* the services that run on a hub itself (ChainId = BxhId)
  Ordered,        \* Ordered[s]: the service asks to be invoked in index order
  Channel,        \* the pairs <<from, to>> that exchange IBTPs
  Index,          \* the indices IBTPs carry
  TimeoutHeight,  \* the values the field IBTP.TimeoutHeight, an int64, takes
  Switchable,     \* services, hubs and permissions governance may switch
  NotifyFlags,    \* pb.StatusChange.NotifyFlags, source half: the changes told
  MaxUint64,      \* the height that never comes
  MaxHeight,      \* bound: no block above this height is closed
  MaxRequests     \* bound: requests accepted per channel

\* The identity "from-to-index" of a cross-chain transaction.
TxId == Channel \X Index

\* A record that TxInfoKey does not hold.
NoRecord == [status |-> "none", height |-> 0]

\* A pb.TransactionRecord.
Record == [status : TransactionStatus, height : 0..MaxUint64]

\* An accepted IBTP of the open block, with what its receipt's Ret says.
BlockEntry == [id   : TxId,
               type : {"INTERCHAIN"} \cup ReceiptType,
               ret  : {"ok", "batch_ibtp", "begin_failure"}]

\* The two counts of an InvokeRecord.
InvokeResult == {"Succeed", "Failure"}

\* What the source chain's pier can be told about a transaction.
Message == ReceiptType \cup NotificationStatus \cup {"TIMEOUT"}

ASSUME InterchainAssumption ==
  /\ Channel \subseteq (Service \ BxhService) \X Service
  /\ Index \subseteq Nat \ {0}
  /\ TimeoutHeight \subseteq (-MaxUint64)..MaxUint64
  /\ MaxUint64 \in Nat /\ MaxHeight \in Nat /\ MaxHeight < MaxUint64
  /\ NotifyFlags \subseteq (TransactionStatus \cup {"none"}) \X TransactionStatus
  /\ <<"none", "BEGIN">> \notin NotifyFlags  \* a begun request is no news to its source

VARIABLES
  currentHeight,            \* height of the last closed block
  block,                    \* the IBTPs accepted into the open block
  ibtpTimeout,              \* the TimeoutHeight each request was sent with
  down,                     \* unavailable services and hubs, refused channels
  interchainCounter,        \* Interchain(from).InterchainCounter[to]
  receiptCounter,           \* Interchain(from).ReceiptCounter[to]
  sourceInterchainCounter,  \* Interchain(to).SourceInterchainCounter[from]
  sourceReceiptCounter,     \* Interchain(to).SourceReceiptCounter[from]
  indexMap,                 \* transactions with a request on the ledger
  indexReceiptMap,          \* transactions with a receipt on the ledger
  invokeRecords,            \* Service(to).InvokeRecords[from]
  inCounter,                \* InterBroker's InCounter
  record,                   \* TransactionManager's records
  timeoutList,              \* TransactionManager's lists, by height
  told                      \* history: what the source's pier was told

counters == <<interchainCounter, receiptCounter, sourceInterchainCounter,
              sourceReceiptCounter>>
indices  == <<indexMap, indexReceiptMap, invokeRecords, inCounter>>
vars     == <<currentHeight, block, ibtpTimeout, down, counters, indices,
              record, timeoutList, told>>

TypeOK ==
  /\ currentHeight \in 0..MaxHeight
  /\ block \subseteq BlockEntry
  /\ ibtpTimeout \in [TxId -> TimeoutHeight]
  /\ down \subseteq Switchable
  /\ interchainCounter \in [Channel -> Nat]
  /\ receiptCounter \in [Channel -> Nat]
  /\ sourceInterchainCounter \in [Channel -> Nat]
  /\ sourceReceiptCounter \in [Channel -> Nat]
  /\ indexMap \subseteq TxId
  /\ indexReceiptMap \subseteq TxId
  /\ invokeRecords \in [Channel -> [InvokeResult -> Nat]]
  /\ inCounter \in [Channel -> Nat]
  /\ record \in [TxId -> Record \cup {NoRecord}]
  /\ timeoutList \in [0..MaxUint64 -> SUBSET TxId]
  /\ told \in [TxId -> SUBSET Message]

Init ==
  /\ currentHeight = 0
  /\ block = {}
  /\ ibtpTimeout \in [TxId -> TimeoutHeight]
  /\ down = {}
  /\ interchainCounter = [c \in Channel |-> 0]
  /\ receiptCounter = [c \in Channel |-> 0]
  /\ sourceInterchainCounter = [c \in Channel |-> 0]
  /\ sourceReceiptCounter = [c \in Channel |-> 0]
  /\ indexMap = {}
  /\ indexReceiptMap = {}
  /\ invokeRecords = [c \in Channel |-> [r \in InvokeResult |-> 0]]
  /\ inCounter = [c \in Channel |-> 0]
  /\ record = [id \in TxId |-> NoRecord]
  /\ timeoutList = [h \in 0..MaxUint64 |-> {}]
  /\ told = [id \in TxId |-> {}]
-----------------------------------------------------------------------------
(***************************************************************************)
(* The checks of checkIBTP.                                                *)
(***************************************************************************)
\* The block number the open block will get; contracts see it as the current
\* height.
Number == currentHeight + 1

IsLocal(s) == HubOf[s] = BxhId

\* A transaction between services of two hubs.
InterBxh(c) == HubOf[c[1]] # HubOf[c[2]]

\* checkTargetAvailability reports an error: the target service is unavailable
\* or refuses the source, or the target hub is unavailable.
TargetFails(c) ==
  IF IsLocal(c[2]) THEN /\ c[2] \notin BxhService
                        /\ c[2] \in down \/ c \in down
                   ELSE HubOf[c[2]] \in down

\* checkTargetAvailability's isBatch: the index of the request is not checked.
IsBatch(c) ==
  /\ IsLocal(c[2])
  /\ c[2] \notin BxhService
  /\ ~TargetFails(c)
  /\ ~Ordered[c[2]]

\* checkSourceAvailability, or for a source of another hub the checks that the
\* destination is here and that the hub is available.
SourcePasses(c) ==
  IF IsLocal(c[1]) THEN c[1] \notin down
                   ELSE IsLocal(c[2]) /\ HubOf[c[1]] \notin down

\* The conversion uint64(t) of an int64, modulo MaxUint64 + 1.
Uint64(t) == IF t < 0 THEN t + MaxUint64 + 1 ELSE t

\* The height Begin and BeginInterBitXHub record for a TimeoutHeight of t, which
\* beginTransaction has made unsigned.
RecordHeight(t) ==
  IF Uint64(t) = 0 \/ Uint64(t) >= MaxUint64 - Number
  THEN MaxUint64 ELSE Number + Uint64(t)

\* notifySrcDst towards the source: message m is in the block's interchain
\* counter of the source chain when the change of status is to be told.
Notify(id, prev, cur, m) ==
  told' = [told EXCEPT ![id] = @ \cup IF <<prev, cur>> \in NotifyFlags THEN {m} ELSE {}]
-----------------------------------------------------------------------------
(***************************************************************************)
(* HandleIBTP.                                                             *)
(***************************************************************************)
\* Begin, or BeginInterBitXHub for a transaction it does not know.  Begin never
\* looks for an existing record.  The hub of the source of an inter-hub
\* transaction leaves the timing to the other hub.
BeginTransaction(id, isFailed) ==
  LET c == id[1]
      t == IF InterBxh(c) /\ IsLocal(c[1]) THEN 0 ELSE ibtpTimeout[id]
  IN  /\ InterBxh(c) => record[id] = NoRecord
      /\ record' = [record EXCEPT ![id] =
                      [status |-> IF isFailed THEN "BEGIN_FAILURE" ELSE "BEGIN",
                       height |-> RecordHeight(t)]]

\* Mutant of ProcessRequest: returns before InterBroker is called.
ProcessRequestNoBroker(id) ==
  LET c == id[1]
  IN  /\ interchainCounter' = [interchainCounter EXCEPT ![c] = @ + 1]
      /\ indexMap' = indexMap \cup {id}
      /\ sourceInterchainCounter' = [sourceInterchainCounter EXCEPT ![c] = id[2]]
      /\ UNCHANGED <<receiptCounter, sourceReceiptCounter, indexReceiptMap,
                     invokeRecords, inCounter>>

\* ProcessIBTP for a request: the counters of both ends, the index entry, and
\* the call of InterBroker when the destination runs on a hub.
ProcessRequest(id) ==
  LET c == id[1]
  IN  /\ interchainCounter' = [interchainCounter EXCEPT ![c] = @ + 1]
      /\ indexMap' = indexMap \cup {id}
      /\ IF c[2] \in BxhService
           THEN /\ inCounter' = [inCounter EXCEPT ![c] = @ + 1]
                /\ UNCHANGED sourceInterchainCounter
           ELSE /\ sourceInterchainCounter' =
                     [sourceInterchainCounter EXCEPT ![c] = id[2]]
                /\ UNCHANGED inCounter
      /\ UNCHANGED <<receiptCounter, sourceReceiptCounter, indexReceiptMap,
                     invokeRecords>>

\* The Ret of an accepted request, which filterValidTx reads at block end.
RequestRet(c) ==
  CASE c[2] \in BxhService -> "ok"
    [] IsBatch(c)          -> "batch_ibtp"
    [] TargetFails(c)      -> "begin_failure"
    [] OTHER               -> "ok"

\* HandleIBTP for a request.
HandleRequest(id) ==
  LET c == id[1]
  IN  /\ interchainCounter[c] < MaxRequests
      /\ SourcePasses(c)
      /\ IsBatch(c) \/ id[2] = interchainCounter[c] + 1
      /\ BeginTransaction(id, TargetFails(c))
      /\ Notify(id, "none", record'[id].status, record'[id].status)
      /\ ProcessRequest(id)
      /\ block' = block \cup
           {[id |-> id, type |-> "INTERCHAIN", ret |-> RequestRet(c)]}
      /\ UNCHANGED <<currentHeight, ibtpTimeout, down, timeoutList>>

\* Mutant of AnswerPasses: the index is not checked.
AnswerPassesAnyIndex(id) == IsLocal(id[1][1]) \/ IsLocal(id[1][2])

\* checkIBTP for a receipt or a notification: one of the ends is of this hub
\* and the index follows the last receipt.
AnswerPasses(id) ==
  /\ IsLocal(id[1][1]) \/ IsLocal(id[1][2])
  /\ id[2] = receiptCounter[id[1]] + 1

\* Mutant of ProcessAnswer: only a success is taken for a final status.
ProcessAnswerSuccessOnly(id, cur, result) ==
  LET c == id[1]
  IN  /\ IF cur = "SUCCESS"
           THEN /\ receiptCounter' = [receiptCounter EXCEPT ![c] = id[2]]
                /\ sourceReceiptCounter' = [sourceReceiptCounter EXCEPT ![c] = id[2]]
                /\ invokeRecords' = [invokeRecords EXCEPT ![c][result] = @ + 1]
           ELSE UNCHANGED <<receiptCounter, sourceReceiptCounter, invokeRecords>>
      /\ indexReceiptMap' = indexReceiptMap \cup {id}
      /\ UNCHANGED <<interchainCounter, sourceInterchainCounter, indexMap,
                     inCounter>>

\* setDestInterchain and recordService once the transaction reached a final
\* status; the receipt's index entry in any case.  Services are registered:
\* RecordInvokeService refuses one that is not, and recordService ignores that.
ProcessAnswer(id, cur, result) ==
  LET c == id[1]
  IN  /\ IF cur \in FinalStatus
           THEN /\ receiptCounter' = [receiptCounter EXCEPT ![c] = id[2]]
                /\ sourceReceiptCounter' =
                     [sourceReceiptCounter EXCEPT ![c] = id[2]]
                /\ invokeRecords' =
                     IF IsLocal(c[2]) /\ c[2] \notin BxhService
                     THEN [invokeRecords EXCEPT ![c][result] = @ + 1]
                     ELSE invokeRecords
           ELSE UNCHANGED <<receiptCounter, sourceReceiptCounter, invokeRecords>>
      /\ indexReceiptMap' = indexReceiptMap \cup {id}
      /\ UNCHANGED <<interchainCounter, sourceInterchainCounter, indexMap,
                     inCounter>>

\* The Ret of an accepted receipt or notification.
AnswerRet(c) ==
  IF IsLocal(c[1]) /\ ~Ordered[c[1]] THEN "batch_ibtp" ELSE "ok"

\* HandleIBTP for a receipt: Report moves the record along the status machine.
HandleReceipt(id, type) ==
  /\ AnswerPasses(id)
  /\ record[id] # NoRecord
  /\ \E cur \in TransactionStatus :
       /\ <<record[id].status, receipt2EventM[type], cur>> \in Fsm
       /\ record' = [record EXCEPT ![id].status = cur]
       /\ Notify(id, record[id].status, cur, type)
       /\ ProcessAnswer(id, cur, IF type = "RECEIPT_FAILURE" THEN "Failure" ELSE "Succeed")
  /\ block' = block \cup {[id |-> id, type |-> type, ret |-> AnswerRet(id[1])]}
  /\ UNCHANGED <<currentHeight, ibtpTimeout, down, timeoutList>>

\* HandleIBTP for a notification of the destination hub (checkTxStatusForSourceBxh):
\* BeginInterBitXHub finds a record but never reads it, so the status machine
\* starts from the zero record.  It comes from the hub of the destination, which
\* answers blocks, hence for a source of this hub and a request of a closed block.
HandleNotification(id, status) ==
  /\ InterBxh(id[1]) /\ IsLocal(id[1][1])
  /\ id \in indexMap
  /\ \A e \in block : e.id = id => e.type # "INTERCHAIN"
  /\ AnswerPasses(id)
  /\ \E cur \in TransactionStatus :
       /\ <<"BEGIN", txStatus2EventM[status], cur>> \in Fsm
       /\ record' = [record EXCEPT ![id] = [status |-> cur, height |-> 0]]
       /\ Notify(id, "BEGIN", cur, status)
       /\ ProcessAnswer(id, cur, "Failure")
  /\ block' = block \cup
       {[id |-> id, type |-> "INTERCHAIN", ret |-> AnswerRet(id[1])]}
  /\ UNCHANGED <<currentHeight, ibtpTimeout, down, timeoutList>>

\* A governance transaction freezes, activates or changes the permissions of
\* what the checks look at.
Switch(x) ==
  /\ down' = IF x \in down THEN down \ {x} ELSE down \cup {x}
  /\ UNCHANGED <<currentHeight, block, ibtpTimeout, counters, indices, record,
                 timeoutList, told>>
-----------------------------------------------------------------------------
(***************************************************************************)
(* The end of processExecuteEvent.                                         *)
(***************************************************************************)
\* setTimeoutList looks at the IBTPs of the block that are not for a service of
\* this hub and that filterValidTx put in neither of its two maps.
Filed(e) ==
  /\ ~(IsLocal(e.id[1][2]) /\ e.id[1][2] \in BxhService)
  /\ e.ret = "ok"

\* Mutant of Added: the test for an illegal TimeoutHeight also drops one block.
AddedNotOne(h) ==
  {id \in TxId :
     /\ \E e \in block : e.id = id /\ e.type = "INTERCHAIN" /\ Filed(e)
     /\ 1 < ibtpTimeout[id] /\ ibtpTimeout[id] < MaxUint64 - Number
     /\ h = Number + ibtpTimeout[id]}

\* The transactions setTimeoutList adds to the list of height h.  It skips zero
\* and negative timeouts before it converts them.
Added(h) ==
  {id \in TxId :
     /\ \E e \in block : e.id = id /\ e.type = "INTERCHAIN" /\ Filed(e)
     /\ 0 < ibtpTimeout[id] /\ ibtpTimeout[id] < MaxUint64 - Number
     /\ h = Number + ibtpTimeout[id]}

\* Mutant of Removed: looks in the list of the block being closed.
RemovedFromCurrent(h) ==
  {id \in TxId : /\ \E e \in block : e.id = id /\ e.type # "INTERCHAIN" /\ Filed(e)
                 /\ h = Number}

\* The transactions setTimeoutList removes from the list of height h.
Removed(h) ==
  {id \in TxId :
     \E e \in block :
        /\ e.id = id /\ e.type # "INTERCHAIN" /\ Filed(e)
        /\ ~(e.type = "RECEIPT_FAILURE" /\ record[id].status = "FAILURE")
        /\ h = record[id].height}

\* Additions are written before removals.
SetTimeoutList ==
  timeoutList' = [h \in 0..MaxUint64 |-> (timeoutList[h] \cup Added(h)) \ Removed(h)]

\* setTimeoutRollback, which overwrites the record of every transaction on the
\* block's list, and getTimeoutIBTPsMap, which tells the source's pier.
SetTimeoutRollback ==
  /\ record' = [id \in TxId |->
       IF id \in timeoutList'[Number]
       THEN [status |-> "BEGIN_ROLLBACK", height |-> Number]
       ELSE record[id]]
  /\ told' = [id \in TxId |->
       told[id] \cup IF id \in timeoutList'[Number] THEN {"TIMEOUT"} ELSE {}]

\* The executor closes the open block.
CloseBlock ==
  /\ currentHeight < MaxHeight
  /\ SetTimeoutList
  /\ SetTimeoutRollback
  /\ currentHeight' = Number
  /\ block' = {}
  /\ UNCHANGED <<ibtpTimeout, down, counters, indices>>
-----------------------------------------------------------------------------
Next ==
  \/ \E id \in TxId : HandleRequest(id)
  \/ \E id \in TxId, type \in ReceiptType : HandleReceipt(id, type)
  \/ \E id \in TxId, status \in NotificationStatus : HandleNotification(id, status)
  \/ \E x \in Switchable : Switch(x)
  \/ CloseBlock

Spec == Init /\ [][Next]_vars

\* Blocks keep coming: the condition under which heights, and so timeouts, come.
FairSpec == Spec /\ WF_vars(CloseBlock)
-----------------------------------------------------------------------------
(***************************************************************************)
(* Properties.                                                             *)
(***************************************************************************)
\* A channel between two ordered services of application chains of this hub.
Plain(c) ==
  /\ IsLocal(c[1]) /\ IsLocal(c[2])
  /\ c[2] \notin BxhService
  /\ Ordered[c[1]] /\ Ordered[c[2]]

PlainTx == {id \in TxId : Plain(id[1])}

\* The books of the two ends and of the services agree: both Interchain objects
\* of a channel hold the same receipt counter, no receipt is counted before its
\* request, receipts have requests on the ledger, every counted receipt is one
\* invocation of the destination service, and InterBroker sees every request for
\* a service of a hub.  HandleIBTP writes these objects one by one, for requests,
\* receipts, notifications and timeouts in any order.
CounterConsistency ==
  /\ indexReceiptMap \subseteq indexMap
  /\ \A c \in Channel :
       /\ sourceReceiptCounter[c] = receiptCounter[c]
       /\ c[2] \in BxhService => inCounter[c] = interchainCounter[c]
       /\ IsLocal(c[2]) /\ c[2] \notin BxhService =>
            invokeRecords[c]["Succeed"] + invokeRecords[c]["Failure"] = receiptCounter[c]
       /\ Plain(c) => /\ receiptCounter[c] <= interchainCounter[c]
                      /\ sourceInterchainCounter[c] = interchainCounter[c]

\* checkIndex lets only the receipt after the last counted one in, so a channel
\* whose next transaction already has a final status would take no receipt ever
\* again: in every state the next transaction to be answered can still be
\* answered.
ChannelNotWedged ==
  \A id \in PlainTx :
     id[2] = receiptCounter[id[1]] + 1 => record[id].status \notin FinalStatus

\* What the source's pier is told never contradicts itself: a pier that was told
\* of a success (and called the callback) is not told of a failure, a rollback or
\* a timeout of the same transaction, nor the other way round, however receipts
\* and timeouts race.
VerdictsAgree ==
  \A id \in PlainTx : "RECEIPT_SUCCESS" \in told[id] => told[id] = {"RECEIPT_SUCCESS"}

\* The verdict a record stands for.
VerdictOf(r) ==
  CASE r.status = "none"    -> "none"
    [] r.status = "BEGIN"   -> "open"
    [] r.status = "SUCCESS" -> "commit"
    [] OTHER                -> "abort"

Promise == INSTANCE CrossTx WITH
  Tx        <- PlainTx,
  verdict   <- [id \in PlainTx |-> VerdictOf(record[id])],
  announced <- [id \in PlainTx |->
                  {IF m = "RECEIPT_SUCCESS" THEN "commit" ELSE "abort" : m \in told[id]}]

\* The hub keeps the promise of CrossTx for the transactions of plain channels:
\* one verdict, never revised by a receipt, a repeated request or a timeout, and
\* only that verdict announced.
KeepsPromise == Promise!Spec

\* A begun transaction whose timeout height is within the blocks that come: FairSpec
\* says that it does not stay so.
Expiring(id) == record[id].status = "BEGIN" /\ record[id].height <= MaxHeight
=============================================================================
