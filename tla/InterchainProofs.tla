-------------------------- MODULE InterchainProofs --------------------------
(***************************************************************************)
(* Proofs about Interchain, for every set of services, hubs, channels and  *)
(* indices, every timeout and every bound.                                 *)
(***************************************************************************)
EXTENDS Interchain, TLAPS

\* The conversion to uint64 yields one, and leaves alone what is one.
LEMMA Uint64Type ==
  ASSUME NEW t \in (-MaxUint64)..MaxUint64
  PROVE  /\ Uint64(t) \in 0..MaxUint64
         /\ t \in 0..MaxUint64 => Uint64(t) = t
BY InterchainAssumption DEF Uint64

\* The checks of an accepted request leave a record of the right type: a timeout
\* never carries the recorded height over MaxUint64.
LEMMA RecordHeightType ==
  ASSUME TypeOK, NEW t \in (-MaxUint64)..MaxUint64
  PROVE  RecordHeight(t) \in 0..MaxUint64
<1>1. Uint64(t) \in 0..MaxUint64
  BY Uint64Type
<1> QED BY <1>1, InterchainAssumption DEF TypeOK, RecordHeight, Number

\* The components of a transaction's identity.
LEMMA TxIdType ==
  ASSUME NEW id \in TxId
  PROVE  /\ id[1] \in Channel /\ id[2] \in Index /\ id[2] \in Nat \ {0}
         /\ id[1][1] \in Service \ BxhService /\ id[1][2] \in Service
         /\ id = <<id[1], id[2]>>
<1>1. id[1] \in Channel /\ id[2] \in Index /\ id = <<id[1], id[2]>>
  BY DEF TxId
<1>2. \A c \in Channel : c[1] \in Service \ BxhService /\ c[2] \in Service
  BY InterchainAssumption
<1> QED BY <1>1, <1>2, InterchainAssumption

\* What Notify leaves in the history.
LEMMA NotifyType ==
  ASSUME TypeOK, NEW id \in TxId, NEW prev, NEW cur, NEW m \in Message,
         Notify(id, prev, cur, m)
  PROVE  told' \in [TxId -> SUBSET Message]
BY DEF TypeOK, Notify

\* The types of what ProcessRequest and ProcessAnswer write.
BooksType ==
  /\ interchainCounter \in [Channel -> Nat]
  /\ receiptCounter \in [Channel -> Nat]
  /\ sourceInterchainCounter \in [Channel -> Nat]
  /\ sourceReceiptCounter \in [Channel -> Nat]
  /\ indexMap \subseteq TxId
  /\ indexReceiptMap \subseteq TxId
  /\ invokeRecords \in [Channel -> [InvokeResult -> Nat]]
  /\ inCounter \in [Channel -> Nat]

\* ProcessRequest keeps these types.
LEMMA ProcessRequestType ==
  ASSUME BooksType, NEW id \in TxId, ProcessRequest(id)
  PROVE  BooksType'
<1>1. id[1] \in Channel /\ id[2] \in Nat
  BY TxIdType
<1>2. CASE id[1][2] \in BxhService
  BY <1>1, <1>2 DEF BooksType, ProcessRequest
<1>3. CASE id[1][2] \notin BxhService
  BY <1>1, <1>3 DEF BooksType, ProcessRequest
<1> QED BY <1>2, <1>3

\* ProcessAnswer keeps them too.
LEMMA ProcessAnswerType ==
  ASSUME BooksType, NEW id \in TxId, NEW cur, NEW result \in InvokeResult,
         ProcessAnswer(id, cur, result)
  PROVE  BooksType'
<1>1. id[1] \in Channel /\ id[2] \in Nat
  BY TxIdType
<1>2. invokeRecords' \in [Channel -> [InvokeResult -> Nat]]
  <2> DEFINE r == [invokeRecords[id[1]] EXCEPT ![result] = @ + 1]
  <2>1. r \in [InvokeResult -> Nat]
    BY <1>1 DEF BooksType
  <2>2. \/ invokeRecords' = invokeRecords
        \/ invokeRecords' = [invokeRecords EXCEPT ![id[1]] = r]
    BY DEF ProcessAnswer
  <2> HIDE DEF r
  <2> QED BY <1>1, <2>1, <2>2 DEF BooksType
<1>3. /\ receiptCounter' \in [Channel -> Nat]
      /\ sourceReceiptCounter' \in [Channel -> Nat]
  BY <1>1 DEF BooksType, ProcessAnswer
<1> QED BY <1>1, <1>2, <1>3 DEF BooksType, ProcessAnswer

\* Every step keeps the state well typed.
LEMMA TypeStep ==
  ASSUME TypeOK, [Next]_vars
  PROVE  TypeOK'
<1>1. CASE \E id \in TxId : HandleRequest(id)
  <2>1. PICK id \in TxId : HandleRequest(id)
    BY <1>1
  <2>2. record' \in [TxId -> Record \cup {NoRecord}]
    <3> DEFINE t == IF InterBxh(id[1]) /\ IsLocal(id[1][1]) THEN 0 ELSE ibtpTimeout[id]
    <3>1. t \in (-MaxUint64)..MaxUint64
      <4>1. ibtpTimeout[id] \in (-MaxUint64)..MaxUint64
        BY ZenonT(30), InterchainAssumption DEF TypeOK
      <4> QED BY <4>1, InterchainAssumption
    <3>2. RecordHeight(t) \in 0..MaxUint64
      BY <3>1, RecordHeightType
    <3> QED
      BY <2>1, <3>2 DEF TypeOK, HandleRequest, BeginTransaction, Record, TransactionStatus
  <2>3. record'[id].status \in {"BEGIN", "BEGIN_FAILURE"}
    BY <2>1 DEF TypeOK, HandleRequest, BeginTransaction
  <2>4. told' \in [TxId -> SUBSET Message]
    <3>1. CASE record'[id].status = "BEGIN_FAILURE"
      BY <2>1, <3>1, NotifyType DEF HandleRequest, Message, NotificationStatus
    <3>2. CASE record'[id].status = "BEGIN"
      BY <2>1, <3>2, InterchainAssumption DEF HandleRequest, Notify, TypeOK
    <3> QED BY <2>3, <3>1, <3>2
  <2>5. block' \subseteq BlockEntry
    <3>1. RequestRet(id[1]) \in {"ok", "batch_ibtp", "begin_failure"}
      BY DEF RequestRet
    <3> QED BY <2>1, <3>1 DEF TypeOK, HandleRequest, BlockEntry
  <2> QED
    BY ZenonT(30), <2>1, <2>2, <2>4, <2>5, ProcessRequestType DEF TypeOK, HandleRequest, BooksType
<1>2. CASE \E id \in TxId, type \in ReceiptType : HandleReceipt(id, type)
  <2>1. PICK id \in TxId, type \in ReceiptType : HandleReceipt(id, type)
    BY <1>2
  <2>2. PICK cur \in TransactionStatus :
          /\ record' = [record EXCEPT ![id].status = cur]
          /\ Notify(id, record[id].status, cur, type)
          /\ ProcessAnswer(id, cur, IF type = "RECEIPT_FAILURE" THEN "Failure" ELSE "Succeed")
    BY ZenonT(30), <2>1 DEF HandleReceipt
  <2>3. record' \in [TxId -> Record \cup {NoRecord}]
    BY <2>1, <2>2 DEF TypeOK, HandleReceipt, Record
  <2>4. told' \in [TxId -> SUBSET Message]
    BY <2>2, NotifyType DEF Message
  <2>5. block' \subseteq BlockEntry
    BY <2>1 DEF TypeOK, HandleReceipt, BlockEntry, AnswerRet
  <2> QED
    BY ZenonT(30), <2>1, <2>2, <2>3, <2>4, <2>5, ProcessAnswerType
       DEF TypeOK, HandleReceipt, BooksType, InvokeResult
<1>3. CASE \E id \in TxId, status \in NotificationStatus : HandleNotification(id, status)
  <2>1. PICK id \in TxId, status \in NotificationStatus : HandleNotification(id, status)
    BY <1>3
  <2>2. PICK cur \in TransactionStatus :
          /\ record' = [record EXCEPT ![id] = [status |-> cur, height |-> 0]]
          /\ Notify(id, "BEGIN", cur, status)
          /\ ProcessAnswer(id, cur, "Failure")
    BY ZenonT(30), <2>1 DEF HandleNotification
  <2>3. record' \in [TxId -> Record \cup {NoRecord}]
    BY <2>1, <2>2, InterchainAssumption DEF TypeOK, Record
  <2>4. told' \in [TxId -> SUBSET Message]
    BY <2>2, NotifyType DEF Message
  <2>5. block' \subseteq BlockEntry
    BY SMTT(30), <2>1 DEF TypeOK, HandleNotification, BlockEntry, AnswerRet
  <2> QED
    BY ZenonT(30), <2>1, <2>2, <2>3, <2>4, <2>5, ProcessAnswerType
       DEF TypeOK, HandleNotification, BooksType, InvokeResult
<1>4. CASE \E x \in Switchable : Switch(x)
  BY <1>4 DEF TypeOK, Switch, counters, indices
<1>5. CASE CloseBlock
  <2>1. timeoutList' \in [0..MaxUint64 -> SUBSET TxId]
    BY <1>5 DEF TypeOK, CloseBlock, SetTimeoutList, Added
  <2>2. Number \in 0..MaxUint64 /\ Number \in 0..MaxHeight
    BY <1>5, InterchainAssumption DEF TypeOK, CloseBlock, Number
  <2>3. record' \in [TxId -> Record \cup {NoRecord}]
    BY <1>5, <2>2 DEF TypeOK, CloseBlock, SetTimeoutRollback, Record, TransactionStatus
  <2>4. told' \in [TxId -> SUBSET Message]
    BY <1>5 DEF TypeOK, CloseBlock, SetTimeoutRollback, Message
  <2> QED
    BY <1>5, <2>1, <2>2, <2>3, <2>4 DEF TypeOK, CloseBlock, counters, indices
<1>6. CASE UNCHANGED vars
  BY <1>6 DEF TypeOK, vars, counters, indices
<1> QED BY <1>1, <1>2, <1>3, <1>4, <1>5, <1>6 DEF Next

\* The state of the hub is always well typed; in particular recorded timeout
\* heights never exceed MaxUint64.
THEOREM TypeCorrect == Spec => []TypeOK
<1>1. Init => TypeOK
  BY InterchainAssumption DEF Init, TypeOK, Record
<1>2. TypeOK /\ [Next]_vars => TypeOK'
  BY TypeStep
<1> QED BY <1>1, <1>2, PTL DEF Spec
-----------------------------------------------------------------------------
(***************************************************************************)
(* The books.  CounterConsistency is inductive once it is known which      *)
(* transactions have a record: those in indexMap, to which the open block  *)
(* and the timeout lists are confined, and, on plain channels, none beyond *)
(* the interchain counter.                                                 *)
(***************************************************************************)
BookInv ==
  /\ TypeOK
  /\ CounterConsistency
  /\ \A id \in TxId : id \in indexMap <=> record[id] # NoRecord
  /\ \A e \in block : e.id \in indexMap
  /\ \A h \in 0..MaxUint64 : timeoutList[h] \subseteq indexMap
  /\ \A id \in PlainTx : id \in indexMap => id[2] <= interchainCounter[id[1]]

(***************************************************************************)
(* The lists.  A plain transaction that is on a timeout list, or that the  *)
(* closing of the open block will put there, is on the list of the height  *)
(* its record names, and if it has succeeded its receipt is in the open    *)
(* block, so that it is off the list before the list is next read.  This   *)
(* is what keeps a timeout from overtaking a success.                      *)
(***************************************************************************)
Answered(id) ==
  \E e \in block : e.id = id /\ e.type = "RECEIPT_SUCCESS" /\ e.ret = "ok"

ListInv(id) ==
  \A h \in 0..MaxUint64 :
     id \in timeoutList[h] \cup Added(h) =>
       /\ record[id].height = h
       /\ record[id].status = "SUCCESS" => Answered(id)

\* The next transaction to be answered, and all after it, are not settled.
OpenInv(id) ==
  receiptCounter[id[1]] < id[2] => record[id].status \notin FinalStatus

\* What the source was told is the verdict in the record.
ToldInv(id) ==
  \A m \in told[id] :
     /\ record[id].status \notin {"none", "BEGIN"}
     /\ m = "RECEIPT_SUCCESS" <=> record[id].status = "SUCCESS"

PlainInv(id) == ListInv(id) /\ OpenInv(id) /\ ToldInv(id)

IInv == BookInv /\ \A id \in PlainTx : PlainInv(id)

\* On a plain channel the checks of checkIBTP include the index, transactions are
\* begun by Begin, and receipts are not batched.
LEMMA PlainFacts ==
  ASSUME NEW c, Plain(c)
  PROVE  ~InterBxh(c) /\ ~IsBatch(c) /\ AnswerRet(c) = "ok"
BY DEF Plain, InterBxh, IsBatch, AnswerRet, IsLocal

\* A request keeps the books.
LEMMA BookRequest ==
  ASSUME BookInv, NEW id \in TxId, HandleRequest(id), TypeOK'
  PROVE  BookInv'
<1> DEFINE c == id[1]
<1>0. c \in Channel /\ id[2] \in Nat /\ c[2] \in Service
  BY TxIdType
<1>1. /\ interchainCounter' = [interchainCounter EXCEPT ![c] = @ + 1]
      /\ indexMap' = indexMap \cup {id}
      /\ receiptCounter' = receiptCounter
      /\ sourceReceiptCounter' = sourceReceiptCounter
      /\ indexReceiptMap' = indexReceiptMap
      /\ invokeRecords' = invokeRecords
      /\ timeoutList' = timeoutList
      /\ IsBatch(c) \/ id[2] = interchainCounter[c] + 1
      /\ block' = block \cup
           {[id |-> id, type |-> "INTERCHAIN", ret |-> RequestRet(c)]}
  BY DEF HandleRequest, ProcessRequest
<1>2. /\ c[2] \in BxhService => inCounter' = [inCounter EXCEPT ![c] = @ + 1]
      /\ c[2] \notin BxhService =>
           /\ inCounter' = inCounter
           /\ sourceInterchainCounter' = [sourceInterchainCounter EXCEPT ![c] = id[2]]
  BY DEF HandleRequest, ProcessRequest
<1>2a. c[2] \in BxhService => sourceInterchainCounter' = sourceInterchainCounter
  BY DEF HandleRequest, ProcessRequest
<1>3. /\ record' = [record EXCEPT ![id] = record'[id]]
      /\ record'[id] # NoRecord
  BY ZenonT(30) DEF HandleRequest, BeginTransaction, BookInv, TypeOK, NoRecord
<1> HIDE DEF c
<1>4. CounterConsistency'
  <2>1. (indexReceiptMap \subseteq indexMap)'
    BY <1>1 DEF BookInv, CounterConsistency
  <2>2. ASSUME NEW d \in Channel
        PROVE  /\ sourceReceiptCounter'[d] = receiptCounter'[d]
               /\ d[2] \in BxhService => inCounter'[d] = interchainCounter'[d]
               /\ IsLocal(d[2]) /\ d[2] \notin BxhService =>
                    invokeRecords'[d]["Succeed"] + invokeRecords'[d]["Failure"]
                      = receiptCounter'[d]
    <3>1. sourceReceiptCounter'[d] = receiptCounter'[d]
      BY <1>1 DEF BookInv, CounterConsistency
    <3>2. ASSUME d[2] \in BxhService PROVE inCounter'[d] = interchainCounter'[d]
      <4>1. inCounter[d] = interchainCounter[d]
        BY <3>2 DEF BookInv, CounterConsistency
      <4>2. inCounter \in [Channel -> Nat] /\ interchainCounter \in [Channel -> Nat]
        BY ZenonT(30) DEF BookInv, TypeOK
      <4>3. CASE d = c
        BY <1>0, <1>1, <1>2, <3>2, <4>1, <4>2, <4>3
      <4>4. CASE d # c
        BY <1>0, <1>1, <1>2, <4>1, <4>2, <4>4
      <4> QED BY <4>3, <4>4
    <3>3. IsLocal(d[2]) /\ d[2] \notin BxhService =>
             invokeRecords'[d]["Succeed"] + invokeRecords'[d]["Failure"]
               = receiptCounter'[d]
      BY SMTT(30), <1>1 DEF BookInv, CounterConsistency
    <3> QED BY <3>1, <3>2, <3>3
  <2>3. ASSUME NEW d \in Channel, Plain(d)
        PROVE  /\ receiptCounter'[d] <= interchainCounter'[d]
               /\ sourceInterchainCounter'[d] = interchainCounter'[d]
    <3>1. /\ receiptCounter[d] <= interchainCounter[d]
          /\ sourceInterchainCounter[d] = interchainCounter[d]
          /\ receiptCounter[d] \in Nat /\ interchainCounter[d] \in Nat
      BY SMTT(30), <2>3 DEF BookInv, CounterConsistency, TypeOK
    <3>2. CASE d = c
      <4>1. id[2] = interchainCounter[c] + 1 /\ c[2] \notin BxhService
        BY ZenonT(30), <1>1, <2>3, <3>2, PlainFacts DEF Plain
      <4> QED BY SMTT(30), <1>0, <1>1, <1>2, <3>1, <3>2, <4>1 DEF BookInv, TypeOK
    <3>3. CASE d # c
      BY ZenonT(30), <1>0, <1>1, <1>2, <1>2a, <3>1, <3>3 DEF BookInv, TypeOK
    <3> QED BY <3>2, <3>3
  <2> QED BY <2>1, <2>2, <2>3 DEF CounterConsistency, IsLocal, Plain
<1>5. (\A i \in TxId : i \in indexMap <=> record[i] # NoRecord)'
  BY SMTT(30), <1>1, <1>3 DEF BookInv, TypeOK
<1>6. (\A e \in block : e.id \in indexMap)'
  BY SMTT(30), <1>1 DEF BookInv
<1>7. (\A h \in 0..MaxUint64 : timeoutList[h] \subseteq indexMap)'
  BY <1>1 DEF BookInv
<1>8. (\A i \in PlainTx : i \in indexMap => i[2] <= interchainCounter[i[1]])'
  <2> SUFFICES ASSUME NEW i \in PlainTx, i \in indexMap'
               PROVE  i[2] <= interchainCounter'[i[1]]
    BY DEF PlainTx, Plain, IsLocal
  <2>1. i \in TxId /\ Plain(i[1]) /\ i[1] \in Channel /\ i[2] \in Nat
    BY TxIdType DEF PlainTx
  <2>2. CASE i = id
    <3>1. id[2] = interchainCounter[c] + 1
      BY <1>1, <2>1, <2>2, PlainFacts DEF c
    <3> QED BY SMTT(30), <1>0, <1>1, <2>2, <3>1 DEF BookInv, TypeOK, c
  <2>3. CASE i # id
    <3>1. i[2] <= interchainCounter[i[1]]
      BY <1>1, <2>3 DEF BookInv
    <3>2. interchainCounter \in [Channel -> Nat]
      BY DEF BookInv, TypeOK
    <3>3. interchainCounter[i[1]] <= interchainCounter'[i[1]]
      BY SMTT(30), <1>0, <1>1, <2>1, <3>2
    <3> QED BY <1>1, <2>1, <3>1, <3>2, <3>3
  <2> QED BY <2>2, <2>3
<1> QED BY <1>4, <1>5, <1>6, <1>7, <1>8 DEF BookInv

\* A receipt or a notification keeps the books.
LEMMA BookAnswer ==
  ASSUME BookInv, TypeOK',
         NEW id \in TxId, NEW cur, NEW result \in InvokeResult, NEW e,
         id \in indexMap, AnswerPasses(id), ProcessAnswer(id, cur, result),
         record' = [record EXCEPT ![id] = record'[id]], record'[id] # NoRecord,
         timeoutList' = timeoutList, block' = block \cup {e}, e.id = id
  PROVE  BookInv'
<1> DEFINE c == id[1]
<1>0. c \in Channel /\ id[2] \in Nat
  BY TxIdType
<1>1. /\ interchainCounter' = interchainCounter
      /\ indexMap' = indexMap
      /\ sourceInterchainCounter' = sourceInterchainCounter
      /\ inCounter' = inCounter
      /\ indexReceiptMap' = indexReceiptMap \cup {id}
      /\ id[2] = receiptCounter[c] + 1
  BY DEF ProcessAnswer, AnswerPasses
<1>2. \/ /\ receiptCounter' = receiptCounter
         /\ sourceReceiptCounter' = sourceReceiptCounter
         /\ invokeRecords' = invokeRecords
      \/ /\ receiptCounter' = [receiptCounter EXCEPT ![c] = id[2]]
         /\ sourceReceiptCounter' = [sourceReceiptCounter EXCEPT ![c] = id[2]]
         /\ IF IsLocal(c[2]) /\ c[2] \notin BxhService
            THEN invokeRecords' = [invokeRecords EXCEPT ![c][result] = @ + 1]
            ELSE invokeRecords' = invokeRecords
  BY DEF ProcessAnswer
<1>t. /\ receiptCounter \in [Channel -> Nat] /\ sourceReceiptCounter \in [Channel -> Nat]
      /\ interchainCounter \in [Channel -> Nat]
      /\ invokeRecords \in [Channel -> [InvokeResult -> Nat]]
  BY ZenonT(30) DEF BookInv, TypeOK
<1> HIDE DEF c
<1>4. CounterConsistency'
  <2>1. (indexReceiptMap \subseteq indexMap)'
    BY ZenonT(30), <1>1 DEF BookInv, CounterConsistency
  <2>2. ASSUME NEW d \in Channel PROVE sourceReceiptCounter'[d] = receiptCounter'[d]
    <3>1. sourceReceiptCounter[d] = receiptCounter[d]
      BY DEF BookInv, CounterConsistency
    <3> QED BY ZenonT(30), <1>0, <1>2, <1>t, <3>1
  <2>3. ASSUME NEW d \in Channel PROVE d[2] \in BxhService => inCounter'[d] = interchainCounter'[d]
    BY SMTT(30), <1>1 DEF BookInv, CounterConsistency
  <2>4. ASSUME NEW d \in Channel, IsLocal(d[2]), d[2] \notin BxhService
        PROVE  invokeRecords'[d]["Succeed"] + invokeRecords'[d]["Failure"] = receiptCounter'[d]
    <3>1. invokeRecords[d]["Succeed"] + invokeRecords[d]["Failure"] = receiptCounter[d]
      BY ZenonT(30), <2>4 DEF BookInv, CounterConsistency
    <3>2. CASE d # c \/ (receiptCounter' = receiptCounter /\ invokeRecords' = invokeRecords)
      BY <1>0, <1>2, <1>t, <3>1, <3>2
    <3>3. CASE /\ d = c
               /\ receiptCounter' = [receiptCounter EXCEPT ![c] = id[2]]
               /\ invokeRecords' = [invokeRecords EXCEPT ![c][result] = @ + 1]
      <4> DEFINE r == invokeRecords[c]
      <4>1. r \in [InvokeResult -> Nat] /\ r["Succeed"] + r["Failure"] = receiptCounter[c]
        BY <1>0, <1>t, <3>1, <3>3
      <4>2. receiptCounter'[d] = receiptCounter[c] + 1
        BY <1>0, <1>1, <1>t, <3>3
      <4>3. invokeRecords'[d] = [r EXCEPT ![result] = @ + 1]
        BY <1>0, <1>t, <3>3
      <4> HIDE DEF r
      <4>4. r["Succeed"] \in Nat /\ r["Failure"] \in Nat
        BY <4>1 DEF InvokeResult
      <4>5. CASE result = "Succeed"
        BY <4>1, <4>2, <4>3, <4>4, <4>5 DEF InvokeResult
      <4>6. CASE result = "Failure"
        BY <4>1, <4>2, <4>3, <4>4, <4>6 DEF InvokeResult
      <4> QED BY <4>5, <4>6 DEF InvokeResult
    <3> QED BY <1>2, <2>4, <3>2, <3>3
  <2>5. ASSUME NEW d \in Channel, Plain(d)
        PROVE  /\ receiptCounter'[d] <= interchainCounter'[d]
               /\ sourceInterchainCounter'[d] = interchainCounter'[d]
    <3>1. /\ receiptCounter[d] <= interchainCounter[d]
          /\ sourceInterchainCounter[d] = interchainCounter[d]
      BY ZenonT(30), <2>5 DEF BookInv, CounterConsistency
    <3>2. d = c => id[2] <= interchainCounter[d]
      BY ZenonT(30), <2>5 DEF BookInv, PlainTx, c
    <3> QED BY SMTT(30), <1>0, <1>1, <1>2, <1>t, <3>1, <3>2
  <2> QED BY ZenonT(30), <2>1, <2>2, <2>3, <2>4, <2>5 DEF CounterConsistency, IsLocal, Plain
<1>5. (\A i \in TxId : i \in indexMap <=> record[i] # NoRecord)'
  BY ZenonT(30), <1>1 DEF BookInv, TypeOK
<1>6. (\A f \in block : f.id \in indexMap)'
  BY ZenonT(30), <1>1 DEF BookInv
<1>7. (\A h \in 0..MaxUint64 : timeoutList[h] \subseteq indexMap)'
  BY <1>1 DEF BookInv
<1>8. (\A i \in PlainTx : i \in indexMap => i[2] <= interchainCounter[i[1]])'
  BY SMTT(30), <1>1 DEF BookInv, PlainTx, Plain, IsLocal
<1> QED BY ZenonT(30), <1>4, <1>5, <1>6, <1>7, <1>8 DEF BookInv

\* Closing a block keeps the books: only transactions with a request are filed,
\* so only those get a record from a timeout.
LEMMA BookClose ==
  ASSUME BookInv, TypeOK', CloseBlock
  PROVE  BookInv'
<1>1. UNCHANGED <<interchainCounter, receiptCounter, sourceInterchainCounter,
                  sourceReceiptCounter, indexMap, indexReceiptMap, invokeRecords,
                  inCounter>>
  BY DEF CloseBlock, counters, indices
<1>2. \A h \in 0..MaxUint64 : timeoutList'[h] \subseteq indexMap
  <2>1. \A h : Added(h) \subseteq indexMap
    BY DEF BookInv, Added
  <2> QED BY <2>1 DEF BookInv, CloseBlock, SetTimeoutList
<1>3. Number \in 0..MaxUint64
  BY SMTT(30), InterchainAssumption DEF BookInv, TypeOK, CloseBlock, Number
<1>4. \A i \in TxId : i \in indexMap <=> record'[i] # NoRecord
  <2> SUFFICES ASSUME NEW i \in TxId PROVE i \in indexMap <=> record'[i] # NoRecord
    OBVIOUS
  <2>1. CASE i \in timeoutList'[Number]
    BY <1>2, <1>3, <2>1 DEF CloseBlock, SetTimeoutRollback, NoRecord
  <2>2. CASE i \notin timeoutList'[Number]
    BY <2>2 DEF BookInv, CloseBlock, SetTimeoutRollback
  <2> QED BY <2>1, <2>2
<1>5. CounterConsistency'
  BY <1>1 DEF BookInv, CounterConsistency, Plain, IsLocal
<1>6. block' = {}
  BY DEF CloseBlock
<1> QED BY SMTT(30), <1>1, <1>2, <1>4, <1>5, <1>6 DEF BookInv, PlainTx, Plain, IsLocal

\* Every step keeps the books.
LEMMA BookStep ==
  ASSUME BookInv, [Next]_vars
  PROVE  BookInv'
<1>0. TypeOK'
  BY TypeStep DEF BookInv
<1>1. CASE \E id \in TxId : HandleRequest(id)
  BY <1>0, <1>1, BookRequest
<1>2. CASE \E id \in TxId, type \in ReceiptType : HandleReceipt(id, type)
  <2>1. PICK id \in TxId, type \in ReceiptType : HandleReceipt(id, type)
    BY <1>2
  <2>2. PICK cur \in TransactionStatus :
          /\ record' = [record EXCEPT ![id].status = cur]
          /\ ProcessAnswer(id, cur, IF type = "RECEIPT_FAILURE" THEN "Failure" ELSE "Succeed")
    BY ZenonT(30), <2>1 DEF HandleReceipt
  <2>3. /\ record' = [record EXCEPT ![id] = record'[id]]
        /\ record'[id] # NoRecord
    BY <2>2 DEF BookInv, TypeOK, NoRecord, Record, TransactionStatus
  <2>4. id \in indexMap /\ AnswerPasses(id) /\ timeoutList' = timeoutList
    BY <2>1 DEF HandleReceipt, BookInv
  <2> DEFINE e == [id |-> id, type |-> type, ret |-> AnswerRet(id[1])]
             result == IF type = "RECEIPT_FAILURE" THEN "Failure" ELSE "Succeed"
  <2>5. block' = block \cup {e} /\ e.id = id
    BY <2>1 DEF HandleReceipt
  <2>6. result \in InvokeResult /\ ProcessAnswer(id, cur, result)
    BY <2>2 DEF InvokeResult
  <2> HIDE DEF e, result
  <2> QED BY SMTT(30), <1>0, <2>3, <2>4, <2>5, <2>6, BookAnswer
<1>3. CASE \E id \in TxId, status \in NotificationStatus : HandleNotification(id, status)
  <2>1. PICK id \in TxId, status \in NotificationStatus : HandleNotification(id, status)
    BY <1>3
  <2>2. PICK cur \in TransactionStatus :
          /\ record' = [record EXCEPT ![id] = [status |-> cur, height |-> 0]]
          /\ ProcessAnswer(id, cur, "Failure")
    BY ZenonT(30), <2>1 DEF HandleNotification
  <2>3. /\ record' = [record EXCEPT ![id] = record'[id]]
        /\ record'[id] # NoRecord
    BY SMTT(30), <2>2 DEF BookInv, TypeOK, NoRecord, TransactionStatus
  <2>4. id \in indexMap /\ AnswerPasses(id) /\ timeoutList' = timeoutList
    BY ZenonT(30), <2>1 DEF HandleNotification
  <2> DEFINE e == [id |-> id, type |-> "INTERCHAIN", ret |-> AnswerRet(id[1])]
             result == "Failure"
  <2>5. block' = block \cup {e} /\ e.id = id
    BY SMTT(30), <2>1 DEF HandleNotification
  <2>6. result \in InvokeResult /\ ProcessAnswer(id, cur, result)
    BY <2>2 DEF InvokeResult
  <2> HIDE DEF e, result
  <2> QED BY SMTT(30), <1>0, <2>3, <2>4, <2>5, <2>6, BookAnswer
<1>4. CASE \E x \in Switchable : Switch(x)
  BY ZenonT(30), <1>0, <1>4 DEF BookInv, CounterConsistency, PlainTx, Plain, IsLocal, Switch,
                    counters, indices
<1>5. CASE CloseBlock
  BY <1>0, <1>5, BookClose
<1>6. CASE UNCHANGED vars
  BY ZenonT(30), <1>0, <1>6 DEF BookInv, CounterConsistency, PlainTx, Plain, IsLocal, vars,
                    counters, indices
<1> QED BY <1>1, <1>2, <1>3, <1>4, <1>5, <1>6 DEF Next

\* The books are in order initially.
LEMMA BookInit ==
  ASSUME Init
  PROVE  BookInv
<1>1. TypeOK
  BY InterchainAssumption DEF Init, TypeOK, Record
<1>2. CounterConsistency
  BY SMTT(30) DEF Init, CounterConsistency, InvokeResult
<1>3. /\ \A id \in TxId : id \in indexMap <=> record[id] # NoRecord
      /\ indexMap = {} /\ block = {}
      /\ \A h \in 0..MaxUint64 : timeoutList[h] = {}
  BY DEF Init
<1> QED BY <1>1, <1>2, <1>3 DEF BookInv

\* The counters HandleIBTP keeps at the two ends of a channel, the invocation
\* records and InterBroker's counter always agree.
THEOREM CountersAgree == Spec => []CounterConsistency
<1>1. Init => BookInv
  BY BookInit
<1>2. BookInv /\ [Next]_vars => BookInv'
  BY BookStep
<1>3. BookInv => CounterConsistency
  BY DEF BookInv
<1> QED BY <1>1, <1>2, <1>3, PTL DEF Spec
-----------------------------------------------------------------------------
(***************************************************************************)
(* One transaction of a plain channel.                                     *)
(***************************************************************************)
\* The step is one CrossTx allows for transaction id.
VerdictStep(id) ==
  /\ told[id] \subseteq told'[id]
  /\ VerdictOf(record'[id]) # VerdictOf(record[id]) =>
       <<VerdictOf(record[id]), VerdictOf(record'[id])>> \in Promise!Moves

\* A receipt the status machine accepts settles the transaction, and settles it
\* as a success exactly if it reports one and nothing was decided before.
LEMMA FsmFacts ==
  ASSUME NEW s, NEW cur, NEW type \in ReceiptType,
         <<s, receipt2EventM[type], cur>> \in Fsm
  PROVE  /\ cur \in FinalStatus
         /\ s \in {"BEGIN", "BEGIN_FAILURE", "BEGIN_ROLLBACK"}
         /\ cur = "SUCCESS" <=> type = "RECEIPT_SUCCESS"
         /\ cur = "SUCCESS" => s = "BEGIN"
BY DEF ReceiptType, receipt2EventM, Fsm, FinalStatus

\* What an IBTP about another transaction adds to the block.
LEMMA BlockGrows ==
  ASSUME NEW id, NEW e, e.id # id, block' = block \cup {e}
  PROVE  /\ block \subseteq block'
         /\ \A d \in block' : d.id = id => d \in block
<1>1. \A d \in block' : d \in block \/ d = e
  OBVIOUS
<1> QED BY <1>1

\* The types the invariant gives.
LEMMA Typed ==
  ASSUME IInv
  PROVE  /\ currentHeight \in 0..MaxHeight
         /\ ibtpTimeout \in [TxId -> TimeoutHeight]
         /\ interchainCounter \in [Channel -> Nat]
         /\ receiptCounter \in [Channel -> Nat]
         /\ record \in [TxId -> Record \cup {NoRecord}]
         /\ told \in [TxId -> SUBSET Message]
BY DEF IInv, BookInv, TypeOK

\* An IBTP about another transaction leaves this one alone.
LEMMA Aside ==
  ASSUME IInv, TypeOK', NEW id \in PlainTx,
         record'[id] = record[id], told'[id] = told[id],
         receiptCounter[id[1]] <= receiptCounter'[id[1]],
         UNCHANGED <<timeoutList, ibtpTimeout, currentHeight>>,
         block \subseteq block',
         \A e \in block' : e.id = id /\ e.type = "INTERCHAIN" => e \in block
  PROVE  PlainInv(id)' /\ VerdictStep(id)
<1>0. PlainInv(id) /\ id \in TxId /\ id[1] \in Channel /\ id[2] \in Nat
  BY TxIdType DEF IInv, PlainTx
<1>1. ListInv(id)'
  <2>1. \A h : id \in Added(h)' => id \in Added(h)
    BY DEF Added, Filed, Number, IsLocal
  <2>2. Answered(id) => Answered(id)'
    BY DEF Answered
  <2> QED BY SMTT(30), <1>0, <2>1, <2>2 DEF PlainInv, ListInv
<1>2. OpenInv(id)'
  <2>1. receiptCounter[id[1]] \in Nat /\ receiptCounter'[id[1]] \in Nat
    <3>1. receiptCounter' \in [Channel -> Nat]
      BY SMTT(30) DEF TypeOK
    <3> QED BY <1>0, <3>1, Typed
  <2>2. receiptCounter'[id[1]] < id[2] => receiptCounter[id[1]] < id[2]
    BY <1>0, <2>1
  <2> QED BY <1>0, <2>2 DEF PlainInv, OpenInv
<1>3. ToldInv(id)'
  BY SMTT(30), <1>0 DEF PlainInv, ToldInv
<1> QED BY ZenonT(30), <1>1, <1>2, <1>3 DEF PlainInv, VerdictStep

\* A request accepted on a plain channel is a new one: nothing is on record, on a
\* list, in the block or told about it.
LEMMA FreshRequest ==
  ASSUME IInv, NEW id \in PlainTx, HandleRequest(id)
  PROVE  /\ record[id] = NoRecord
         /\ told[id] = {}
         /\ \A h \in 0..MaxUint64 : id \notin timeoutList[h]
         /\ \A e \in block : e.id # id
<1>0. id \in TxId /\ Plain(id[1]) /\ id[1] \in Channel /\ id[2] \in Nat
  BY TxIdType DEF PlainTx
<1>1. id[2] = interchainCounter[id[1]] + 1
  BY ZenonT(30), <1>0, PlainFacts DEF HandleRequest
<1>2. id \notin indexMap
  <2>1. id \in indexMap => id[2] <= interchainCounter[id[1]]
    BY DEF IInv, BookInv
  <2>2. interchainCounter[id[1]] \in Nat
    BY <1>0, Typed
  <2> QED BY <1>1, <2>1, <2>2
<1>3. record[id] = NoRecord
  BY <1>0, <1>2 DEF IInv, BookInv
<1>4. told[id] = {}
  <2>1. record[id].status = "none"
    BY <1>3 DEF NoRecord
  <2>2. ToldInv(id)
    BY DEF IInv, PlainInv
  <2>3. \A m : m \notin told[id]
    BY <2>1, <2>2 DEF ToldInv
  <2> QED BY <2>3
<1> QED BY SMTT(30), <1>2, <1>3, <1>4 DEF IInv, BookInv

\* A request, seen from the transaction it begins.
LEMMA PlainRequest ==
  ASSUME IInv, TypeOK', NEW id \in PlainTx, HandleRequest(id)
  PROVE  PlainInv(id)' /\ VerdictStep(id)
<1>0. id \in TxId /\ Plain(id[1]) /\ id[1] \in Channel /\ id[2] \in Nat
  BY TxIdType DEF PlainTx
<1>1. /\ record[id] = NoRecord /\ told[id] = {}
      /\ \A h \in 0..MaxUint64 : id \notin timeoutList[h]
      /\ \A e \in block : e.id # id
  BY SMTT(30), FreshRequest
<1>2. /\ record'[id].status \in {"BEGIN", "BEGIN_FAILURE"}
      /\ record'[id].height = RecordHeight(ibtpTimeout[id])
  BY ZenonT(30), <1>0, PlainFacts, Typed DEF HandleRequest, BeginTransaction
<1>3. told'[id] \subseteq {"BEGIN_FAILURE"} /\ (record'[id].status = "BEGIN" => told'[id] = {})
  BY ZenonT(30), <1>0, <1>1, <1>2, InterchainAssumption, Typed DEF HandleRequest, Notify
<1>4. UNCHANGED <<timeoutList, ibtpTimeout, currentHeight>>
  BY ZenonT(30) DEF HandleRequest
<1>5. ListInv(id)'
  <2> SUFFICES ASSUME NEW h \in 0..MaxUint64, id \in Added(h)'
               PROVE  record'[id].height = h
    BY ZenonT(30), <1>1, <1>2, <1>4 DEF ListInv
  <2>1. /\ 0 < ibtpTimeout[id] /\ ibtpTimeout[id] < MaxUint64 - Number
        /\ h = Number + ibtpTimeout[id]
    BY SMTT(30), <1>4 DEF Added, Number
  <2>2. ibtpTimeout[id] \in Nat /\ Number \in Nat /\ MaxUint64 \in Nat
    <3>1. ibtpTimeout[id] \in TimeoutHeight /\ currentHeight \in 0..MaxHeight
      BY <1>0, Typed
    <3>2. TimeoutHeight \subseteq (-MaxUint64)..MaxUint64 /\ MaxHeight \in Nat /\ MaxUint64 \in Nat
      BY InterchainAssumption
    <3>3. ibtpTimeout[id] \in (-MaxUint64)..MaxUint64
      BY ZenonT(30), <3>1, <3>2
    <3>4. Number \in Nat
      BY <3>1, <3>2 DEF Number
    <3> QED BY <2>1, <3>2, <3>3, <3>4
  <2>3. Uint64(ibtpTimeout[id]) = ibtpTimeout[id]
    BY <2>1, <2>2, Uint64Type
  <2> QED BY <1>2, <2>1, <2>2, <2>3 DEF RecordHeight
<1>6. OpenInv(id)'
  BY SMTT(30), <1>2 DEF OpenInv, FinalStatus
<1>7. ToldInv(id)'
  BY <1>2, <1>3 DEF ToldInv
<1>8. VerdictStep(id)
  BY <1>1, <1>2 DEF VerdictStep, VerdictOf, NoRecord, Promise!Moves
<1> QED BY <1>5, <1>6, <1>7, <1>8 DEF PlainInv

\* A receipt, seen from the transaction it answers.
LEMMA PlainReceipt ==
  ASSUME IInv, TypeOK', NEW id \in PlainTx, NEW type \in ReceiptType,
         HandleReceipt(id, type)
  PROVE  PlainInv(id)' /\ VerdictStep(id)
<1>0. /\ id \in TxId /\ Plain(id[1]) /\ id[1] \in Channel /\ id[2] \in Nat
      /\ PlainInv(id)
  BY TxIdType DEF PlainTx, IInv
<1>1. PICK cur \in TransactionStatus :
        /\ <<record[id].status, receipt2EventM[type], cur>> \in Fsm
        /\ record' = [record EXCEPT ![id].status = cur]
        /\ Notify(id, record[id].status, cur, type)
        /\ ProcessAnswer(id, cur, IF type = "RECEIPT_FAILURE" THEN "Failure" ELSE "Succeed")
  BY ZenonT(30) DEF HandleReceipt
<1>2. /\ record[id] \in Record
      /\ record'[id].status = cur /\ record'[id].height = record[id].height
  <2>1. record[id] \in Record
    BY <1>0, Typed DEF HandleReceipt
  <2> QED BY <1>0, <1>1, <2>1, Typed DEF Record
<1>3. /\ cur \in FinalStatus
      /\ record[id].status \in {"BEGIN", "BEGIN_FAILURE", "BEGIN_ROLLBACK"}
      /\ cur = "SUCCESS" <=> type = "RECEIPT_SUCCESS"
      /\ cur = "SUCCESS" => record[id].status = "BEGIN"
  BY <1>1, FsmFacts
<1>4. UNCHANGED <<timeoutList, ibtpTimeout, currentHeight>>
  BY DEF HandleReceipt
<1> DEFINE e == [id |-> id, type |-> type, ret |-> "ok"]
<1>5. block' = block \cup {e} /\ e.id = id /\ e.type = type /\ e.ret = "ok"
  BY <1>0, PlainFacts DEF HandleReceipt
<1> HIDE DEF e
<1>6. ListInv(id)'
  <2>1. \A h : id \in Added(h)' => id \in Added(h)
    BY ZenonT(30), <1>4, <1>5 DEF Added, Filed, Number, IsLocal, ReceiptType
  <2>2. record'[id].status = "SUCCESS" => Answered(id)'
    BY ZenonT(30), <1>2, <1>3, <1>5 DEF Answered
  <2> QED BY ZenonT(30), <1>0, <1>2, <1>4, <2>1, <2>2 DEF PlainInv, ListInv
<1>7. OpenInv(id)'
  <2>1. receiptCounter'[id[1]] = id[2]
    BY <1>0, <1>1, <1>3, Typed DEF ProcessAnswer
  <2> QED BY <1>0, <2>1 DEF OpenInv
<1>8. told'[id] \subseteq told[id] \cup {type} /\ told[id] \subseteq told'[id]
  BY <1>0, <1>1, Typed DEF Notify
<1>9. ToldInv(id)'
  <2>1. cur \notin {"none", "BEGIN"}
    BY <1>3 DEF FinalStatus
  <2>2. ASSUME NEW m \in told[id] PROVE m = "RECEIPT_SUCCESS" <=> cur = "SUCCESS"
    <3>1. /\ record[id].status # "BEGIN"
          /\ m = "RECEIPT_SUCCESS" <=> record[id].status = "SUCCESS"
      BY SMTT(30), <1>0 DEF PlainInv, ToldInv
    <3> QED BY <1>3, <3>1
  <2> QED BY <1>2, <1>3, <1>8, <2>1, <2>2 DEF ToldInv
<1>10. VerdictStep(id)
  BY <1>2, <1>3, <1>8 DEF VerdictStep, VerdictOf, FinalStatus, Promise!Moves
<1> QED BY <1>6, <1>7, <1>9, <1>10 DEF PlainInv

\* A notification is never about a plain transaction, and leaves them all alone.
LEMMA PlainNotification ==
  ASSUME IInv, TypeOK', NEW id \in PlainTx, NEW i \in TxId, NEW status,
         HandleNotification(i, status)
  PROVE  PlainInv(id)' /\ VerdictStep(id)
<1>0. id \in TxId /\ Plain(id[1]) /\ id[1] \in Channel /\ i[1] \in Channel
  BY TxIdType DEF PlainTx
<1>1. i[1] # id[1] /\ i # id
  BY ZenonT(30), <1>0, PlainFacts DEF HandleNotification
<1>2. PICK cur :
        /\ record' = [record EXCEPT ![i] = [status |-> cur, height |-> 0]]
        /\ Notify(i, "BEGIN", cur, status)
        /\ ProcessAnswer(i, cur, "Failure")
  BY ZenonT(30) DEF HandleNotification
<1>3. record'[id] = record[id] /\ told'[id] = told[id]
  BY <1>0, <1>1, <1>2, Typed DEF Notify
<1>4. receiptCounter[id[1]] <= receiptCounter'[id[1]]
  <2>1. receiptCounter'[id[1]] = receiptCounter[id[1]]
    BY <1>0, <1>1, <1>2, Typed DEF ProcessAnswer
  <2>2. receiptCounter[id[1]] \in Nat
    BY <1>0, Typed
  <2> QED BY <2>1, <2>2
<1>5. /\ block \subseteq block'
      /\ \A e \in block' : e.id = id => e \in block
  <2> DEFINE added == [id |-> i, type |-> "INTERCHAIN", ret |-> AnswerRet(i[1])]
  <2>1. block' = block \cup {added}
    BY ZenonT(30) DEF HandleNotification
  <2>2. added.id # id
    BY <1>1
  <2> HIDE DEF added
  <2> QED BY <2>1, <2>2, BlockGrows
<1>6. UNCHANGED <<timeoutList, ibtpTimeout, currentHeight>>
  BY ZenonT(30) DEF HandleNotification
<1> QED BY SMTT(30), <1>3, <1>4, <1>5, <1>6, Aside

\* A request for another transaction.
LEMMA OtherRequest ==
  ASSUME IInv, TypeOK', NEW id \in PlainTx, NEW i \in TxId, i # id, HandleRequest(i)
  PROVE  PlainInv(id)' /\ VerdictStep(id)
<1>0. id \in TxId /\ id[1] \in Channel
  BY TxIdType DEF PlainTx
<1>1. record'[id] = record[id]
  BY ZenonT(30), <1>0, Typed DEF HandleRequest, BeginTransaction
<1>2. told'[id] = told[id]
  BY ZenonT(30), <1>0, Typed DEF HandleRequest, Notify
<1>3. receiptCounter[id[1]] <= receiptCounter'[id[1]]
  <2>1. receiptCounter' = receiptCounter
    BY ZenonT(30) DEF HandleRequest, ProcessRequest
  <2>2. receiptCounter[id[1]] \in Nat
    BY <1>0, Typed
  <2> QED BY <2>1, <2>2
<1>4. /\ block \subseteq block'
      /\ \A e \in block' : e.id = id => e \in block
  <2> DEFINE added == [id |-> i, type |-> "INTERCHAIN", ret |-> RequestRet(i[1])]
  <2>1. block' = block \cup {added}
    BY ZenonT(30) DEF HandleRequest
  <2>2. added.id # id
    OBVIOUS
  <2> HIDE DEF added
  <2> QED BY <2>1, <2>2, BlockGrows
<1>5. UNCHANGED <<timeoutList, ibtpTimeout, currentHeight>>
  BY ZenonT(30) DEF HandleRequest
<1> QED BY ZenonT(30), <1>1, <1>2, <1>3, <1>4, <1>5, Aside

\* A receipt for another transaction.
LEMMA OtherReceipt ==
  ASSUME IInv, TypeOK', NEW id \in PlainTx, NEW i \in TxId, i # id,
         NEW type \in ReceiptType, HandleReceipt(i, type)
  PROVE  PlainInv(id)' /\ VerdictStep(id)
<1>0. /\ id \in TxId /\ id[1] \in Channel /\ id[2] \in Nat
      /\ i[1] \in Channel /\ i[2] \in Nat
  BY TxIdType DEF PlainTx
<1>1. PICK cur :
        /\ record' = [record EXCEPT ![i].status = cur]
        /\ Notify(i, record[i].status, cur, type)
        /\ ProcessAnswer(i, cur, IF type = "RECEIPT_FAILURE" THEN "Failure" ELSE "Succeed")
  BY ZenonT(30) DEF HandleReceipt
<1>2. record'[id] = record[id] /\ told'[id] = told[id]
  BY <1>0, <1>1, Typed DEF Notify
<1>3. receiptCounter[id[1]] <= receiptCounter'[id[1]]
  <2>1. \/ receiptCounter' = receiptCounter
        \/ receiptCounter' = [receiptCounter EXCEPT ![i[1]] = i[2]]
    BY <1>1 DEF ProcessAnswer
  <2>2. i[2] = receiptCounter[i[1]] + 1 /\ receiptCounter \in [Channel -> Nat]
    BY Typed DEF HandleReceipt, AnswerPasses
  <2> QED BY <1>0, <2>1, <2>2
<1>4. /\ block \subseteq block'
      /\ \A e \in block' : e.id = id => e \in block
  <2> DEFINE added == [id |-> i, type |-> type, ret |-> AnswerRet(i[1])]
  <2>1. block' = block \cup {added}
    BY DEF HandleReceipt
  <2>2. added.id # id
    OBVIOUS
  <2> HIDE DEF added
  <2> QED BY <2>1, <2>2, BlockGrows
<1>5. UNCHANGED <<timeoutList, ibtpTimeout, currentHeight>>
  BY DEF HandleReceipt
<1> QED BY ZenonT(30), <1>2, <1>3, <1>4, <1>5, Aside

\* Closing a block times out no transaction that has succeeded: such a one is
\* either on no list or taken off the list of its height by its receipt.
LEMMA PlainClose ==
  ASSUME IInv, TypeOK', NEW id \in PlainTx, CloseBlock
  PROVE  PlainInv(id)' /\ VerdictStep(id)
<1>0. /\ id \in TxId /\ Plain(id[1]) /\ id[1] \in Channel /\ id[2] \in Nat
      /\ PlainInv(id)
  BY TxIdType DEF PlainTx, IInv
<1>1. Number \in 0..MaxUint64 /\ block' = {}
      /\ UNCHANGED <<ibtpTimeout, receiptCounter>>
  <2>1. currentHeight \in 0..MaxHeight /\ currentHeight < MaxHeight
    BY Typed DEF CloseBlock
  <2>2. Number \in 0..MaxUint64
    BY <2>1, InterchainAssumption DEF Number
  <2>3. block' = {} /\ UNCHANGED <<ibtpTimeout, receiptCounter>>
    BY ZenonT(30) DEF CloseBlock, counters
  <2> QED BY <2>2, <2>3
<1>2. \A h : Added(h)' = {}
  BY SMTT(30), <1>1 DEF Added
<1>3. ASSUME NEW h \in 0..MaxUint64, id \in timeoutList'[h]
      PROVE  record[id].height = h /\ record[id].status # "SUCCESS"
  <2>1. id \in timeoutList[h] \cup Added(h) /\ id \notin Removed(h)
    BY <1>3 DEF CloseBlock, SetTimeoutList
  <2>2. record[id].height = h /\ (record[id].status = "SUCCESS" => Answered(id))
    BY <1>0, <2>1 DEF PlainInv, ListInv
  <2>3. Answered(id) => id \in Removed(h)
    <3> SUFFICES ASSUME NEW e \in block, e.id = id, e.type = "RECEIPT_SUCCESS", e.ret = "ok"
                 PROVE  id \in Removed(h)
      BY DEF Answered
    <3>1. Filed(e)
      BY SMTT(30), <1>0 DEF Filed, Plain
    <3> QED BY SMTT(30), <1>0, <2>2, <3>1 DEF Removed
  <2> QED BY SMTT(30), <2>1, <2>2, <2>3
<1>4. CASE id \in timeoutList'[Number]
  <2>1. record[id].height = Number /\ record[id].status # "SUCCESS"
    BY <1>1, <1>3, <1>4
  <2>2. record'[id] = [status |-> "BEGIN_ROLLBACK", height |-> Number]
    BY ZenonT(30), <1>0, <1>4 DEF CloseBlock, SetTimeoutRollback
  <2>3. told'[id] = told[id] \cup {"TIMEOUT"}
    BY ZenonT(30), <1>0, <1>4 DEF CloseBlock, SetTimeoutRollback
  <2>4. record[id] \in Record
    <3>1. id \in indexMap
      <4>1. BookInv'
        BY BookClose DEF IInv
      <4>2. indexMap' = indexMap
        BY DEF CloseBlock, indices
      <4> QED BY <1>1, <1>4, <4>1, <4>2 DEF BookInv
    <3>2. record[id] # NoRecord
      BY <1>0, <3>1 DEF IInv, BookInv
    <3> QED BY <1>0, <3>2, Typed
  <2>5. ListInv(id)'
    BY SMTT(30), <1>1, <1>2, <1>3, <2>1, <2>2 DEF ListInv
  <2>6. OpenInv(id)'
    BY SMTT(30), <2>2 DEF OpenInv, FinalStatus
  <2>7. ToldInv(id)'
    <3>1. record'[id].status = "BEGIN_ROLLBACK"
      BY SMTT(30), <2>2
    <3>2. \A m \in told[id] : m # "RECEIPT_SUCCESS"
      BY SMTT(30), <1>0, <2>1 DEF PlainInv, ToldInv
    <3>3. \A m \in told'[id] : m # "RECEIPT_SUCCESS"
      BY SMTT(30), <2>3, <3>2
    <3> QED BY <3>1, <3>3 DEF ToldInv
  <2>8. VerdictStep(id)
    BY <2>1, <2>2, <2>3, <2>4
       DEF VerdictStep, VerdictOf, Promise!Moves, Record, TransactionStatus
  <2> QED BY <2>5, <2>6, <2>7, <2>8 DEF PlainInv
<1>5. CASE id \notin timeoutList'[Number]
  <2>1. record'[id] = record[id] /\ told'[id] = told[id]
    BY ZenonT(30), <1>0, <1>5, Typed DEF CloseBlock, SetTimeoutRollback
  <2>2. ListInv(id)'
    BY ZenonT(30), <1>2, <1>3, <2>1 DEF ListInv
  <2>3. OpenInv(id)' /\ ToldInv(id)'
    BY ZenonT(30), <1>0, <1>1, <2>1 DEF PlainInv, OpenInv, ToldInv
  <2> QED BY ZenonT(30), <2>1, <2>2, <2>3 DEF PlainInv, VerdictStep
<1> QED BY <1>4, <1>5

\* Every step, seen from one plain transaction.
LEMMA PlainStep ==
  ASSUME IInv, [Next]_vars, NEW id \in PlainTx
  PROVE  PlainInv(id)' /\ VerdictStep(id)
<1>0. TypeOK'
  BY TypeStep DEF IInv, BookInv
<1>1. ASSUME NEW i \in TxId, HandleRequest(i) PROVE PlainInv(id)' /\ VerdictStep(id)
  BY <1>0, <1>1, PlainRequest, OtherRequest
<1>2. ASSUME NEW i \in TxId, NEW type \in ReceiptType, HandleReceipt(i, type)
      PROVE PlainInv(id)' /\ VerdictStep(id)
  BY <1>0, <1>2, PlainReceipt, OtherReceipt
<1>3. ASSUME NEW i \in TxId, NEW status \in NotificationStatus, HandleNotification(i, status)
      PROVE PlainInv(id)' /\ VerdictStep(id)
  BY <1>0, <1>3, PlainNotification
<1>4. CASE CloseBlock
  BY <1>0, <1>4, PlainClose
<1>5. CASE (\E x \in Switchable : Switch(x)) \/ UNCHANGED vars
  <2>1. UNCHANGED <<record, told, receiptCounter, timeoutList, ibtpTimeout,
                    currentHeight, block>>
    BY <1>5 DEF Switch, vars, counters, indices
  <2>2. receiptCounter[id[1]] <= receiptCounter'[id[1]]
    BY <2>1, TxIdType, Typed DEF PlainTx
  <2> QED BY SMTT(30), <1>0, <2>1, <2>2, Aside
<1> QED BY <1>1, <1>2, <1>3, <1>4, <1>5 DEF Next
-----------------------------------------------------------------------------
\* The inductive invariant.
THEOREM Inductive == Spec => []IInv
<1>1. Init => IInv
  <2> SUFFICES ASSUME Init PROVE IInv
    OBVIOUS
  <2>1. BookInv
    BY BookInit
  <2>2. ASSUME NEW id \in PlainTx PROVE PlainInv(id)
    <3>1. id \in TxId /\ record[id].status = "none" /\ told[id] = {}
      BY DEF Init, PlainTx, NoRecord
    <3>2. \A h \in 0..MaxUint64 : timeoutList[h] = {} /\ Added(h) = {}
      BY DEF Init, Added
    <3> QED BY SMTT(30), <3>1, <3>2 DEF PlainInv, ListInv, OpenInv, ToldInv, FinalStatus
  <2> QED BY <2>1, <2>2 DEF IInv
<1>2. IInv /\ [Next]_vars => IInv'
  <2> SUFFICES ASSUME IInv, [Next]_vars PROVE IInv'
    OBVIOUS
  <2>1. BookInv'
    BY BookStep DEF IInv
  <2>2. \A id \in PlainTx : PlainInv(id)'
    BY PlainStep
  <2>3. PlainTx' = PlainTx
    BY DEF PlainTx, Plain, IsLocal
  <2> QED BY <2>1, <2>2, <2>3 DEF IInv
<1> QED BY <1>1, <1>2, PTL DEF Spec

\* A channel of ordered local services never gets stuck behind a transaction that
\* is settled but not counted.
THEOREM NeverWedged == Spec => []ChannelNotWedged
<1>1. IInv => ChannelNotWedged
  <2> SUFFICES ASSUME IInv, NEW id \in PlainTx, id[2] = receiptCounter[id[1]] + 1
               PROVE  record[id].status \notin FinalStatus
    BY DEF ChannelNotWedged
  <2>1. receiptCounter[id[1]] < id[2]
    BY TxIdType, Typed DEF PlainTx
  <2> QED BY SMTT(30), <2>1 DEF IInv, PlainInv, OpenInv
<1> QED BY <1>1, Inductive, PTL

\* The source of a plain transaction is never told of a success and of a failure,
\* rollback or timeout.
THEOREM ToldOneVerdict == Spec => []VerdictsAgree
<1>1. IInv => VerdictsAgree
  <2> SUFFICES ASSUME IInv, NEW id \in PlainTx, "RECEIPT_SUCCESS" \in told[id]
               PROVE  told[id] = {"RECEIPT_SUCCESS"}
    BY DEF VerdictsAgree
  <2>1. \A m \in told[id] : m = "RECEIPT_SUCCESS"
    BY DEF IInv, PlainInv, ToldInv
  <2> QED BY <2>1
<1> QED BY <1>1, Inductive, PTL

\* The hub implements CrossTx on plain channels: initial states map to initial
\* states and every step to a step of CrossTx or to a stutter.
THEOREM Implements == Spec => KeepsPromise
<1> DEFINE V == [id \in PlainTx |-> VerdictOf(record[id])]
           A == [id \in PlainTx |->
                  {IF m = "RECEIPT_SUCCESS" THEN "commit" ELSE "abort" : m \in told[id]}]
<1>1. Init => Promise!Init
  <2> SUFFICES ASSUME Init PROVE Promise!Init
    OBVIOUS
  <2>1. \A id \in PlainTx : VerdictOf(record[id]) = "none" /\ told[id] = {}
    BY DEF Init, PlainTx, NoRecord, VerdictOf
  <2>2. \A id \in PlainTx :
          {IF m = "RECEIPT_SUCCESS" THEN "commit" ELSE "abort" : m \in told[id]} = {}
    BY <2>1
  <2> QED BY <2>1, <2>2 DEF Promise!Init
<1>2. IInv /\ IInv' /\ [Next]_vars => [Promise!Next]_<<V, A>>
  <2> SUFFICES ASSUME IInv, IInv', [Next]_vars PROVE Promise!Next
    OBVIOUS
  <2>1. PlainTx' = PlainTx
    BY DEF PlainTx, Plain, IsLocal
  <2>2. V' = [id \in PlainTx |-> VerdictOf(record'[id])]
    BY <2>1 DEF VerdictOf
  <2>3. A' = [id \in PlainTx |->
               {IF m = "RECEIPT_SUCCESS" THEN "commit" ELSE "abort" : m \in told'[id]}]
    BY <2>1
  <2>4. V' \in [PlainTx -> Promise!Verdict]
    BY <2>2 DEF VerdictOf, Promise!Verdict
  <2>5. A' \in [PlainTx -> SUBSET {"commit", "abort"}]
    BY <2>3
  <2>6. ASSUME NEW id \in PlainTx
        PROVE  /\ V'[id] # V[id] => <<V[id], V'[id]>> \in Promise!Moves
               /\ A[id] \subseteq A'[id]
               /\ A'[id] \subseteq A[id] \cup {V'[id]}
    <3>1. VerdictStep(id)
      BY PlainStep
    <3>2. V'[id] # V[id] => <<V[id], V'[id]>> \in Promise!Moves
      BY <2>2, <3>1 DEF VerdictStep
    <3>3. A[id] \subseteq A'[id]
      BY SMTT(30), <2>3, <3>1 DEF VerdictStep
    <3>4. A'[id] \subseteq {V'[id]}
      <4>1. ToldInv(id)'
        BY <2>1 DEF IInv, PlainInv
      <4>2. ASSUME NEW m \in told'[id]
            PROVE  VerdictOf(record'[id]) =
                     IF m = "RECEIPT_SUCCESS" THEN "commit" ELSE "abort"
        BY <4>1 DEF ToldInv, VerdictOf
      <4> QED BY SMTT(30), <2>2, <2>3, <4>2
    <3> QED BY ZenonT(30), <3>2, <3>3, <3>4
  <2> QED BY ZenonT(30), <2>4, <2>5, <2>6 DEF Promise!Next
<1> QED BY <1>1, <1>2, Inductive, PTL DEF Spec, KeepsPromise, Promise!Spec
=============================================================================
