------------------------------- MODULE MultiTx -------------------------------
(***************************************************************************)
(* One-to-many transactions: a source sends one request (a child) to each  *)
(* destination of a group, and the group commits if every child succeeds   *)
(* and is rolled back otherwise.  The module models HandleIBTP for IBTPs   *)
(* with a Group, the part of the TransactionManager contract that handles  *)
(* them (BeginMultiTXs, changeMultiTxStatus and the contract's own timeout *)
(* lists) and what the executor does to them when it closes a block.       *)
(*                                                                         *)
(* All services are ordered services of application chains of this hub.    *)
(* An IBTP that fails a check changes nothing and is a stuttering step.    *)
(***************************************************************************)
EXTENDS Integers, FiniteSets, Sequences, TxFsm

CONSTANTS
  Group,          \* the global identities (genGlobalTxID)
  Channel,        \* the pairs <<from, to>> that exchange IBTPs
  Children,       \* Children[g]: the identities <<channel, index>> of g's IBTPs
  TimeoutHeight,  \* the values the field IBTP.TimeoutHeight, an int64, takes
  Switchable,     \* destinations that governance may freeze and activate
  NotifySrc,      \* pb.StatusChange.NotifyFlags: changes told to the source
  NotifyDst,      \* and to the destination
  MaxUint64,      \* the height that never comes
  MaxHeight       \* bound: no block above this height is closed

TxId == UNION {Children[g] : g \in Group}

GroupOf(id) == CHOOSE g \in Group : id \in Children[g]

ASSUME MultiTxAssumption ==
  /\ \A g \in Group : /\ IsFiniteSet(Children[g])
                      /\ Children[g] \subseteq Channel \X (Nat \ {0})
                      \* As they are finite, their number tells whether all are there.
                      /\ \A S \in SUBSET Children[g] :
                           Cardinality(S) = Cardinality(Children[g]) => S = Children[g]
  /\ \A g, h \in Group : g # h => Children[g] \cap Children[h] = {}
  /\ TimeoutHeight \subseteq (-MaxUint64)..MaxUint64
  /\ MaxUint64 \in Nat /\ MaxHeight \in Nat /\ MaxHeight < MaxUint64
  /\ "" \notin Group
  /\ \A prev \in TransactionStatus \cup {"none"} : <<prev, "BEGIN">> \notin NotifySrc

\* A group without an entry under GlobalTxInfoKey.
NoInfo == [GlobalState |-> "none", ChildTxInfo |-> <<>>, Height |-> 0]

\* A height without an entry under TimeoutKey.
NoList == <<>>

VARIABLES
  currentHeight,            \* height of the last closed block
  groupTimeout,             \* the TimeoutHeight each group was sent with
  down,                     \* unavailable destinations
  interchainCounter,        \* Interchain(from).InterchainCounter[to]
  receiptCounter,           \* Interchain(from).ReceiptCounter[to]
  sourceInterchainCounter,  \* Interchain(to).SourceInterchainCounter[from]
  sourceReceiptCounter,     \* Interchain(to).SourceReceiptCounter[from]
  indexMap,                 \* children with a request on the ledger
  indexReceiptMap,          \* children with a receipt on the ledger
  invoked,                  \* invocations recorded by RecordInvokeService
  txInfo,                   \* the TransactionInfo of each group
  timeoutList,              \* lists by height, split at the commas
  succeeded,                \* history: children whose success was accepted
  toldSrc,                  \* history: what the source was told of each child
  toldDst                   \* history: <<destination told, child to undo>>

counters == <<interchainCounter, receiptCounter, sourceInterchainCounter,
              sourceReceiptCounter, indexMap, indexReceiptMap, invoked>>
vars     == <<currentHeight, groupTimeout, down, counters, txInfo, timeoutList,
              succeeded, toldSrc, toldDst>>

Info(g) == [GlobalState : TransactionStatus,
            ChildTxInfo : UNION {[S -> TransactionStatus] : S \in SUBSET Children[g]},
            Height      : 0..MaxUint64]

TypeOK ==
  /\ currentHeight \in 0..MaxHeight
  /\ groupTimeout \in [Group -> TimeoutHeight]
  /\ down \subseteq Switchable
  /\ interchainCounter \in [Channel -> Nat]
  /\ receiptCounter \in [Channel -> Nat]
  /\ sourceInterchainCounter \in [Channel -> Nat]
  /\ sourceReceiptCounter \in [Channel -> Nat]
  /\ indexMap \subseteq TxId
  /\ indexReceiptMap \subseteq TxId
  /\ invoked \in [Channel -> Nat]
  /\ DOMAIN txInfo = Group
  /\ \A g \in Group : txInfo[g] \in Info(g) \cup {NoInfo}
  /\ timeoutList \in [0..MaxUint64 -> Seq(Group \cup {""})]
  /\ succeeded \subseteq TxId
  /\ toldSrc \in [TxId -> SUBSET (TransactionStatus \cup {"TIMEOUT"})]
  /\ toldDst \subseteq {c[2] : c \in Channel} \X TxId

Init ==
  /\ currentHeight = 0
  /\ groupTimeout \in [Group -> TimeoutHeight]
  /\ down = {}
  /\ interchainCounter = [c \in Channel |-> 0]
  /\ receiptCounter = [c \in Channel |-> 0]
  /\ sourceInterchainCounter = [c \in Channel |-> 0]
  /\ sourceReceiptCounter = [c \in Channel |-> 0]
  /\ indexMap = {}
  /\ indexReceiptMap = {}
  /\ invoked = [c \in Channel |-> 0]
  /\ txInfo = [g \in Group |-> NoInfo]
  /\ timeoutList = [h \in 0..MaxUint64 |-> NoList]
  /\ succeeded = {}
  /\ toldSrc = [id \in TxId |-> {}]
  /\ toldDst = {}
-----------------------------------------------------------------------------
(***************************************************************************)
(* Helpers.                                                                *)
(***************************************************************************)
Number == currentHeight + 1

\* The conversion uint64(t) of an int64, modulo MaxUint64 + 1.
Uint64(t) == IF t < 0 THEN t + MaxUint64 + 1 ELSE t

\* The height BeginMultiTXs records for a TimeoutHeight of t, which
\* beginTransaction has made unsigned.
ExpiryHeight(t) ==
  IF Uint64(t) = 0 \/ Uint64(t) >= MaxUint64 - Number
  THEN MaxUint64 ELSE Number + Uint64(t)

\* addToTimeoutList: the identity is written after a comma whenever the entry
\* exists, be it the empty string.
AddToTimeoutList(list, g) == Append(list, g)

\* The list without its i-th element.
RemoveAt(list, i) == SubSeq(list, 1, i - 1) \o SubSeq(list, i + 1, Len(list))

\* Mutant of RemoveFromTimeoutList: the shortened list is not written back.
RemoveFromTimeoutListUnsaved(list, g) == list

\* removeFromTimeoutList: an emptied list is stored as the empty string.
RemoveFromTimeoutList(list, g) ==
  IF \E i \in 1..Len(list) : list[i] = g
  THEN LET rest == RemoveAt(list, CHOOSE i \in 1..Len(list) : list[i] = g)
       IN  IF rest = <<>> THEN <<"">> ELSE rest
  ELSE list

\* getTimeoutList: nothing if the first element is the empty string.
GetTimeoutList(list) ==
  IF list = NoList \/ Head(list) = "" THEN {} ELSE {list[i] : i \in DOMAIN list}

\* Mutant of IsMultiTxFinished: the number of children is not compared.
IsMultiTxFinishedUncounted(status, children, g) ==
  \A id \in DOMAIN children : children[id] = status

\* isMultiTxFinished; ChildTxCount is the size of IBTP.Group.
IsMultiTxFinished(status, children, g) ==
  /\ \A id \in DOMAIN children : children[id] = status
  /\ Cardinality(DOMAIN children) = Cardinality(Children[g])
-----------------------------------------------------------------------------
(***************************************************************************)
(* notifySrcDst and addToMultiTxNotifyMap: the IBTP at hand is in the      *)
(* interchain counter of the chains to be told; the lists src and dst of   *)
(* other children are in the block's multi-transaction map.  All of dst is *)
(* filed under the destination of its first element.  The lists are kept   *)
(* as sets: the code fills them in the order of a Go map.                  *)
(***************************************************************************)
NotifySrcDst(id, prev, cur, src, dst, isFailChild) ==
  LET tellSrc == <<prev, cur>> \in NotifySrc
      tellDst == <<prev, cur>> \in NotifyDst
  IN  /\ toldSrc' = IF tellSrc
                    THEN [i \in TxId |-> IF i \in src \cup {id}
                                         THEN toldSrc[i] \cup {cur} ELSE toldSrc[i]]
                    ELSE toldSrc
      /\ \E first \in IF dst = {} THEN {id} ELSE dst :
           toldDst' = IF tellDst
             THEN toldDst
                  \cup {<<first[1][2], i>> : i \in dst}
                  \cup {<<id[1][2], i>> :
                          i \in IF isFailChild \/ cur = "BEGIN" THEN {} ELSE {id}}
             ELSE toldDst

\* BeginMultiTXs for the first child of a group.
BeginFirst(g, id, isFailed) ==
  LET status == IF isFailed THEN "BEGIN_FAILURE" ELSE "BEGIN"
      height == ExpiryHeight(groupTimeout[g])
  IN  /\ txInfo[g] = NoInfo
      /\ txInfo' = [txInfo EXCEPT ![g] =
           [GlobalState |-> status, ChildTxInfo |-> [i \in {id} |-> status],
            Height |-> height]]
      /\ timeoutList' = IF isFailed THEN timeoutList
           ELSE [timeoutList EXCEPT ![height] = AddToTimeoutList(@, g)]
      /\ NotifySrcDst(id, "none", status, {}, {}, FALSE)

\* BeginMultiTXs for a further child: it takes the state of a group that is
\* already given up, or fails the group if its destination is unavailable.
BeginFurther(g, id, isFailed) ==
  LET info     == txInfo[g]
      known    == DOMAIN info.ChildTxInfo
      fails    == info.GlobalState = "BEGIN" /\ isFailed
      status   == IF fails THEN "BEGIN_FAILURE" ELSE info.GlobalState
      children == [i \in known \cup {id} |->
                     IF fails \/ i = id THEN status ELSE info.ChildTxInfo[i]]
  IN  /\ info # NoInfo /\ id \notin known
      /\ txInfo' = [txInfo EXCEPT ![g].GlobalState = status,
                                  ![g].ChildTxInfo = children]
      /\ timeoutList' = IF fails
           THEN [timeoutList EXCEPT ![info.Height] = RemoveFromTimeoutList(@, g)]
           ELSE timeoutList
      /\ NotifySrcDst(id, "none", status,
                      IF fails THEN known ELSE {},
                      {i \in known : fails /\ info.ChildTxInfo[i] = "SUCCESS"},
                      FALSE)

\* HandleIBTP for a request of a group.
HandleRequest(id) ==
  LET c == id[1]
      g == GroupOf(id)
  IN  /\ id[2] = interchainCounter[c] + 1
      /\ \/ BeginFirst(g, id, c[2] \in down)
         \/ BeginFurther(g, id, c[2] \in down)
      /\ interchainCounter' = [interchainCounter EXCEPT ![c] = @ + 1]
      /\ sourceInterchainCounter' = [sourceInterchainCounter EXCEPT ![c] = id[2]]
      /\ indexMap' = indexMap \cup {id}
      /\ UNCHANGED <<currentHeight, groupTimeout, down, receiptCounter,
                     sourceReceiptCounter, indexReceiptMap, invoked, succeeded>>

\* changeMultiTxStatus for the first failure of a group.
FailGroup(g, id, type) ==
  LET info == txInfo[g]
  IN  /\ info.GlobalState = "BEGIN" /\ type = "RECEIPT_FAILURE"
      /\ txInfo' = [txInfo EXCEPT
           ![g].GlobalState = "BEGIN_FAILURE",
           ![g].ChildTxInfo = [i \in DOMAIN info.ChildTxInfo |->
                                 IF i = id THEN "FAILURE" ELSE "BEGIN_FAILURE"]]
      /\ timeoutList' = [timeoutList EXCEPT ![info.Height] = RemoveFromTimeoutList(@, g)]

\* changeMultiTxStatus otherwise: the child moves along the status machine, and
\* the group with it once all of its children are in the same state.
MoveChild(g, id, type) ==
  LET info == txInfo[g]
  IN  /\ ~(info.GlobalState = "BEGIN" /\ type = "RECEIPT_FAILURE")
      /\ \E cur \in TransactionStatus :
           LET children == [info.ChildTxInfo EXCEPT ![id] = cur]
           IN  /\ <<info.ChildTxInfo[id], receipt2EventM[type], cur>> \in Fsm
               /\ IF IsMultiTxFinished(cur, children, g)
                  THEN /\ \E global \in TransactionStatus :
                            /\ <<info.GlobalState, receipt2EventM[type], global>> \in Fsm
                            /\ txInfo' = [txInfo EXCEPT ![g].GlobalState = global,
                                                        ![g].ChildTxInfo = children]
                       /\ timeoutList' = [timeoutList EXCEPT
                            ![info.Height] = RemoveFromTimeoutList(@, g)]
                  ELSE /\ txInfo' = [txInfo EXCEPT ![g].ChildTxInfo = children]
                       /\ UNCHANGED timeoutList

\* ProcessIBTP for a receipt: the counters of every child move at once, when the
\* group reaches a final state (handleMultiIbtpInterchain).
ProcessAnswer(g, id) ==
  LET counted == {i \in DOMAIN txInfo[g].ChildTxInfo :
                    txInfo'[g].GlobalState \in FinalStatus}
      IndexOn(c) == (CHOOSE i \in counted : i[1] = c)[2]
  IN  /\ receiptCounter' = [c \in Channel |->
           IF \E i \in counted : i[1] = c THEN IndexOn(c) ELSE receiptCounter[c]]
      /\ sourceReceiptCounter' = [c \in Channel |->
           IF \E i \in counted : i[1] = c THEN IndexOn(c) ELSE sourceReceiptCounter[c]]
      /\ invoked' = [c \in Channel |->
           IF \E i \in counted : i[1] = c THEN invoked[c] + 1 ELSE invoked[c]]
      /\ indexReceiptMap' = indexReceiptMap \cup {id}
      /\ UNCHANGED <<interchainCounter, sourceInterchainCounter, indexMap>>

\* Mutant of AnswerPasses: the index is not checked.
AnswerPassesAnyIndex(id) == TRUE

\* checkIBTP for a receipt.
AnswerPasses(id) == id[2] = receiptCounter[id[1]] + 1

\* HandleIBTP for a receipt of a group.  Report reads the states of the other
\* children after changeMultiTxStatus has overwritten them.
HandleReceipt(id, type) ==
  LET g      == GroupOf(id)
      others == DOMAIN txInfo[g].ChildTxInfo \ {id}
      prev   == txInfo[g].GlobalState
      cur    == txInfo'[g].GlobalState
      fails  == prev = "BEGIN" /\ cur = "BEGIN_FAILURE" /\ others # {}
  IN  /\ AnswerPasses(id)
      /\ id \in DOMAIN txInfo[g].ChildTxInfo
      /\ FailGroup(g, id, type) \/ MoveChild(g, id, type)
      /\ NotifySrcDst(id, prev, cur, others,
                      {i \in others : fails /\ txInfo'[g].ChildTxInfo[i] = "SUCCESS"},
                      fails)
      /\ ProcessAnswer(g, id)
      /\ succeeded' = IF type = "RECEIPT_SUCCESS" THEN succeeded \cup {id} ELSE succeeded
      /\ UNCHANGED <<currentHeight, groupTimeout, down>>

\* Governance freezes or activates a destination.
Switch(s) ==
  /\ down' = IF s \in down THEN down \ {s} ELSE down \cup {s}
  /\ UNCHANGED <<currentHeight, groupTimeout, counters, txInfo, timeoutList,
                 succeeded, toldSrc, toldDst>>

\* The executor closes the block: getTimeoutIBTPsMap tells the source of every
\* child of a group on the block's list, and the destination of those with a
\* final state; then setGlobalTxStatus gives the group up.
CloseBlock ==
  LET due   == GetTimeoutList(timeoutList[Number])
      ids   == UNION {DOMAIN txInfo[g].ChildTxInfo : g \in Group \cap due}
  IN  /\ currentHeight < MaxHeight
      /\ currentHeight' = Number
      /\ txInfo' = [g \in Group |->
           IF g \in due
           THEN [GlobalState |-> "BEGIN_ROLLBACK",
                 ChildTxInfo |-> [i \in DOMAIN txInfo[g].ChildTxInfo |-> "BEGIN_ROLLBACK"],
                 Height      |-> txInfo[g].Height]
           ELSE txInfo[g]]
      /\ toldSrc' = [i \in TxId |->
           IF i \in ids THEN toldSrc[i] \cup {"TIMEOUT"} ELSE toldSrc[i]]
      /\ toldDst' = toldDst \cup
           {<<i[1][2], i>> : i \in {j \in ids :
              txInfo[GroupOf(j)].ChildTxInfo[j] \in FinalStatus}}
      /\ UNCHANGED <<groupTimeout, down, counters, timeoutList, succeeded>>
-----------------------------------------------------------------------------
Next ==
  \/ \E id \in TxId : HandleRequest(id)
  \/ \E id \in TxId, type \in ReceiptType : HandleReceipt(id, type)
  \/ \E s \in Switchable : Switch(s)
  \/ CloseBlock

Spec == Init /\ [][Next]_vars
-----------------------------------------------------------------------------
(***************************************************************************)
(* Properties.                                                             *)
(***************************************************************************)
\* The state of a group and the states of its children fit together: a group
\* commits only if every child of it was sent and succeeded, is settled as failed
\* or rolled back only if every child is, and no child of a group that was given
\* up counts as a success.  BeginMultiTXs, changeMultiTxStatus and
\* setGlobalTxStatus each write both, while children are still arriving.
StatusesFit ==
  \A g \in Group : txInfo[g] # NoInfo =>
    LET info   == txInfo[g]
        states == {info.ChildTxInfo[id] : id \in DOMAIN info.ChildTxInfo}
    IN  CASE info.GlobalState = "BEGIN"          -> states \subseteq {"BEGIN", "SUCCESS"}
          [] info.GlobalState = "BEGIN_FAILURE"  -> states \subseteq {"BEGIN_FAILURE", "FAILURE"}
          [] info.GlobalState = "BEGIN_ROLLBACK" -> states \subseteq {"BEGIN_ROLLBACK", "ROLLBACK"}
          [] OTHER -> /\ DOMAIN info.ChildTxInfo = Children[g]
                      /\ states \subseteq {info.GlobalState}

\* The books of both ends agree and every counted receipt is one invocation, so no
\* counter is moved back or over a transaction, though handleMultiIbtpInterchain
\* moves the counters of all children of a group and only the last receipt was
\* checked against them.
GroupCountersAgree ==
  /\ indexReceiptMap \subseteq indexMap
  /\ \A c \in Channel :
       /\ sourceReceiptCounter[c] = receiptCounter[c]
       /\ sourceInterchainCounter[c] = interchainCounter[c]
       /\ invoked[c] = receiptCounter[c]
       /\ receiptCounter[c] <= interchainCounter[c]

\* The verdict a group's state stands for.
VerdictOf(state) ==
  CASE state = "none"    -> "none"
    [] state = "BEGIN"   -> "open"
    [] state = "SUCCESS" -> "commit"
    [] OTHER             -> "abort"

Promise == INSTANCE CrossTx WITH
  Tx        <- Group,
  verdict   <- [g \in Group |-> VerdictOf(txInfo[g].GlobalState)],
  announced <- [g \in Group |->
                  {IF s = "SUCCESS" THEN "commit" ELSE "abort" :
                     s \in UNION {toldSrc[id] : id \in Children[g]}}]

\* The hub keeps the promise of CrossTx for every group: one verdict for all
\* children, never revised, and the source is told nothing else of any child.
KeepsGroupPromise == Promise!Spec

\* A destination that has executed a child of a group that is given up is told to
\* undo it (Report: "wrapper child ibtp which status is success to notify dest
\* chain rollback").
SuccessUndone ==
  \A g \in Group : txInfo[g].GlobalState \notin {"none", "BEGIN", "SUCCESS"} =>
     \A id \in Children[g] \cap succeeded : <<id[1][2], id>> \in toldDst
=============================================================================
