---------------------------- MODULE MultiTxProofs ----------------------------
(***************************************************************************)
(* Proofs about MultiTx, for every set of groups, children, channels and   *)
(* heights.                                                                *)
(***************************************************************************)
EXTENDS MultiTx, Integers, TLAPS

\* The identity of a child: its group, its channel and its index.
LEMMA ChildFacts ==
  ASSUME NEW id \in TxId
  PROVE  /\ GroupOf(id) \in Group /\ id \in Children[GroupOf(id)]
         /\ id[1] \in Channel /\ id[2] \in Nat \ {0} /\ id = <<id[1], id[2]>>
<1>1. \E g \in Group : id \in Children[g]
  BY DEF TxId
<1>2. GroupOf(id) \in Group /\ id \in Children[GroupOf(id)]
  BY <1>1 DEF GroupOf
<1>3. id \in Channel \X (Nat \ {0})
  BY ZenonT(30), <1>2, MultiTxAssumption
<1> QED BY <1>2, <1>3

\* A child is of one group only.
LEMMA OneGroupOnly ==
  ASSUME NEW g \in Group, NEW id \in Children[g]
  PROVE  id \in TxId /\ GroupOf(id) = g
<1>1. id \in TxId
  BY SMTT(30) DEF TxId
<1>2. GroupOf(id) \in Group /\ id \in Children[GroupOf(id)]
  BY <1>1, ChildFacts
<1> QED BY ZenonT(30), <1>1, <1>2, MultiTxAssumption

\* The bounds on heights.
LEMMA HeightFacts ==
  MaxUint64 \in Nat /\ MaxHeight \in Nat /\ MaxHeight < MaxUint64
BY ZenonT(30), MultiTxAssumption

\* The height of the last block.
LEMMA NowFacts ==
  ASSUME TypeOK
  PROVE  currentHeight \in Nat /\ currentHeight <= MaxHeight /\ currentHeight < MaxUint64
<1>1. currentHeight \in 0..MaxHeight
  BY ZenonT(30) DEF TypeOK
<1> QED BY <1>1, HeightFacts

\* What the type of a group's entry says of its fields.
LEMMA InfoFacts ==
  ASSUME TypeOK, NEW g \in Group
  PROVE  /\ txInfo[g] = NoInfo \/ txInfo[g] \in Info(g)
         /\ txInfo[g].GlobalState \in TransactionStatus \cup {"none"}
         /\ txInfo[g] = NoInfo <=> txInfo[g].GlobalState = "none"
         /\ DOMAIN txInfo[g].ChildTxInfo \subseteq Children[g]
         /\ txInfo[g].ChildTxInfo \in [DOMAIN txInfo[g].ChildTxInfo -> TransactionStatus]
         /\ txInfo[g].Height \in 0..MaxUint64
<1>1. CASE txInfo[g] = NoInfo
  <2>1. DOMAIN <<>> = {} /\ <<>> \in [{} -> TransactionStatus]
    BY SMTT(30)
  <2>2. NoInfo.GlobalState = "none" /\ NoInfo.ChildTxInfo = <<>> /\ NoInfo.Height = 0
    BY DEF NoInfo
  <2>3. 0 \in 0..MaxUint64
    BY HeightFacts
  <2> QED BY <1>1, <2>1, <2>2, <2>3
<1>2. CASE txInfo[g] \in Info(g)
  BY <1>2 DEF NoInfo, Info, TransactionStatus
<1> QED BY ZenonT(30), <1>1, <1>2 DEF TypeOK

\* The height of a group lies ahead, and is one of the heights there are.
LEMMA ExpiryAhead ==
  ASSUME TypeOK, NEW g \in Group
  PROVE  ExpiryHeight(groupTimeout[g]) \in (currentHeight + 1)..MaxUint64
<1>0. groupTimeout[g] \in (-MaxUint64)..MaxUint64
  <2>1. groupTimeout \in [Group -> TimeoutHeight]
    BY ZenonT(30) DEF TypeOK
  <2>2. TimeoutHeight \subseteq (-MaxUint64)..MaxUint64
    BY ZenonT(30), MultiTxAssumption
  <2> QED BY <2>1, <2>2
<1>1. currentHeight \in 0..MaxHeight
  BY ZenonT(30) DEF TypeOK
<1>2. \A t \in (-MaxUint64)..MaxUint64 :
        Uint64(t) \in 0..MaxUint64 /\ ExpiryHeight(t) \in (currentHeight + 1)..MaxUint64
  BY <1>1, HeightFacts DEF ExpiryHeight, Uint64, Number
<1> QED BY <1>0, <1>2

-----------------------------------------------------------------------------
(***************************************************************************)
(* The timeout lists as sequences.                                         *)
(***************************************************************************)

Entry == Group \cup {""}

\* A list has a length, and its places are numbered from 1.
LEMMA Counted ==
  ASSUME NEW S, NEW list \in Seq(S)
  PROVE  Len(list) \in Nat /\ DOMAIN list = 1..Len(list)
  BY SMTT(30)

\* What stands in a list.
LEMMA Held ==
  ASSUME NEW S, NEW list \in Seq(S), NEW k \in 1..Len(list)
  PROVE  list[k] \in S
  BY SMTT(30)

\* The empty list.
LEMMA EmptyList ==
  ASSUME NEW S
  PROVE  <<>> \in Seq(S) /\ Len(<<>>) = 0
  BY SMTT(30)

\* A list with one more place.
LEMMA Appended ==
  ASSUME NEW S, NEW list \in Seq(S), NEW e \in S
  PROVE  /\ Append(list, e) \in Seq(S) /\ Len(Append(list, e)) = Len(list) + 1
         /\ \A k \in 1..Len(list) : Append(list, e)[k] = list[k]
         /\ Append(list, e)[Len(list) + 1] = e
  BY SMTT(30)

\* Two lists one after the other.
LEMMA Joined ==
  ASSUME NEW S, NEW front \in Seq(S), NEW back \in Seq(S)
  PROVE  /\ front \o back \in Seq(S) /\ Len(front \o back) = Len(front) + Len(back)
         /\ \A k \in 1..(Len(front) + Len(back)) :
              (front \o back)[k] = IF k <= Len(front) THEN front[k] ELSE back[k - Len(front)]
  BY SMTT(30)

\* A part of a list, which may be empty.
LEMMA Parted ==
  ASSUME NEW S, NEW list, NEW a \in Int, NEW b \in Int, \A k \in a..b : list[k] \in S
  PROVE  /\ SubSeq(list, a, b) \in Seq(S)
         /\ Len(SubSeq(list, a, b)) = IF a <= b THEN b - a + 1 ELSE 0
         /\ \A k \in 1..(b - a + 1) : SubSeq(list, a, b)[k] = list[a + k - 1]
  BY SMTT(30)

\* What is left of a sequence when one place is cut out of it.
LEMMA RemoveAtFacts ==
  ASSUME NEW list \in Seq(Entry), NEW i \in 1..Len(list)
  PROVE  /\ RemoveAt(list, i) \in Seq(Entry)
         /\ Len(RemoveAt(list, i)) = Len(list) - 1
         /\ \A k \in 1..(Len(list) - 1) :
              RemoveAt(list, i)[k] = list[IF k < i THEN k ELSE k + 1]
<1> DEFINE n == Len(list)
           s1 == SubSeq(list, 1, i - 1)
           s2 == SubSeq(list, i + 1, n)
<1>1. n \in Nat /\ i \in Int /\ 1 <= i /\ i <= n /\ \A k \in 1..n : list[k] \in Entry
  BY SMTT(30), Counted, Held
<1>2. RemoveAt(list, i) = s1 \o s2
  BY DEF RemoveAt
<1> HIDE DEF n
<1>3. /\ s1 \in Seq(Entry) /\ Len(s1) = i - 1
      /\ \A k \in 1..(i - 1) : s1[k] = list[k]
  <2>1. \A k \in 1..(i - 1) : list[k] \in Entry
    BY SMTT(30), <1>1
  <2>2. 1 \in Int /\ i - 1 \in Int
    BY <1>1
  <2>3. /\ s1 \in Seq(Entry) /\ Len(s1) = (IF 1 <= i - 1 THEN (i - 1) - 1 + 1 ELSE 0)
        /\ \A k \in 1..((i - 1) - 1 + 1) : s1[k] = list[1 + k - 1]
    BY <2>1, <2>2, Parted
  <2> HIDE DEF s1
  <2>4. Len(s1) = i - 1
    BY SMTT(30), <1>1, <2>3
  <2>5. ASSUME NEW k \in 1..(i - 1) PROVE s1[k] = list[k]
    <3>1. k \in 1..((i - 1) - 1 + 1) /\ 1 + k - 1 = k
      BY <1>1
    <3> QED BY <3>1, <2>3
  <2> QED BY <2>3, <2>4, <2>5
<1>4. /\ s2 \in Seq(Entry) /\ Len(s2) = n - i
      /\ \A k \in 1..(n - i) : s2[k] = list[i + k]
  <2>1. \A k \in (i + 1)..n : list[k] \in Entry
    BY SMTT(30), <1>1
  <2>2. i + 1 \in Int /\ n \in Int
    BY <1>1
  <2>3. /\ s2 \in Seq(Entry) /\ Len(s2) = (IF i + 1 <= n THEN n - (i + 1) + 1 ELSE 0)
        /\ \A k \in 1..(n - (i + 1) + 1) : s2[k] = list[(i + 1) + k - 1]
    BY <2>1, <2>2, Parted
  <2> HIDE DEF s2
  <2>4. Len(s2) = n - i
    BY SMTT(30), <1>1, <2>3
  <2>5. ASSUME NEW k \in 1..(n - i) PROVE s2[k] = list[i + k]
    <3>1. k \in 1..(n - (i + 1) + 1) /\ (i + 1) + k - 1 = i + k
      BY SMTT(30), <1>1
    <3> QED BY SMTT(30), <3>1, <2>3
  <2> QED BY <2>3, <2>4, <2>5
<1> HIDE DEF s1, s2
<1>5. /\ s1 \o s2 \in Seq(Entry) /\ Len(s1 \o s2) = Len(s1) + Len(s2)
      /\ \A k \in 1..(Len(s1) + Len(s2)) :
           (s1 \o s2)[k] = IF k <= Len(s1) THEN s1[k] ELSE s2[k - Len(s1)]
  BY ZenonT(30), <1>3, <1>4, Joined
<1>6. Len(s1) + Len(s2) = n - 1
  BY SMTT(30), <1>1, <1>3, <1>4
<1>7. ASSUME NEW k \in 1..(n - 1)
      PROVE  (s1 \o s2)[k] = list[IF k < i THEN k ELSE k + 1]
  <2>1. (s1 \o s2)[k] = IF k <= i - 1 THEN s1[k] ELSE s2[k - (i - 1)]
    BY SMTT(30), <1>3, <1>5, <1>6
  <2>2. CASE k < i
    <3>1. k \in 1..(i - 1) /\ k <= i - 1
      BY SMTT(30), <2>2, <1>1
    <3> QED BY SMTT(30), <2>1, <3>1, <2>2, <1>3
  <2>3. CASE ~(k < i)
    <3>1. /\ k - (i - 1) \in 1..(n - i) /\ ~(k <= i - 1)
          /\ i + (k - (i - 1)) = k + 1
      BY SMTT(30), <2>3, <1>1
    <3> QED BY SMTT(30), <2>1, <3>1, <2>3, <1>4
  <2> QED BY ZenonT(30), <2>2, <2>3
<1> QED BY ZenonT(30), <1>2, <1>5, <1>6, <1>7 DEF n

\* The list an emptied list is stored as.
LEMMA EmptiedList ==
  /\ <<"">> \in Seq(Entry) /\ Len(<<"">>) = 1 /\ <<"">>[1] = ""
<1>1. "" \in Entry
  BY DEF Entry
<1>2. \A x \in Entry : <<x>> \in Seq(Entry) /\ Len(<<x>>) = 1 /\ <<x>>[1] = x
  OBVIOUS
<1> QED BY ZenonT(30), <1>1, <1>2

\* What is left of a list: none of g, and the other entries as far apart as before.
LeftOver(list, g, r) ==
  /\ r \in Seq(Entry)
  /\ \A k \in 1..Len(r) : r[k] # g
  /\ \A k, l \in 1..Len(r) : r[k] # "" /\ r[l] # "" =>
       \E a, b \in 1..Len(list) : list[a] = r[k] /\ list[b] = r[l] /\ (a = b => k = l)

\* Removing an identity that is listed at most once leaves none of it, and keeps
\* the other entries apart.
LEMMA RemoveFacts ==
  ASSUME NEW list \in Seq(Entry), NEW g \in Group,
         \A k, l \in 1..Len(list) : list[k] = g /\ list[l] = g => k = l
  PROVE  LeftOver(list, g, RemoveFromTimeoutList(list, g))
<1> DEFINE r == RemoveFromTimeoutList(list, g)
<1>0. "" # g
  BY ZenonT(30), MultiTxAssumption
<1>1. CASE \E i \in 1..Len(list) : list[i] = g
  <2> DEFINE i == CHOOSE i \in 1..Len(list) : list[i] = g
             s == RemoveAt(list, i)
             old(k) == IF k < i THEN k ELSE k + 1
  <2>1. i \in 1..Len(list) /\ list[i] = g
    BY <1>1
  <2>2. r = IF s = <<>> THEN <<"">> ELSE s
    BY ZenonT(30), <1>1 DEF RemoveFromTimeoutList
  <2> HIDE DEF i
  <2>3. /\ s \in Seq(Entry) /\ Len(s) = Len(list) - 1
        /\ \A k \in 1..Len(s) : s[k] = list[old(k)] /\ old(k) \in 1..Len(list) /\ old(k) # i
    <3>1. /\ s \in Seq(Entry) /\ Len(s) = Len(list) - 1
          /\ \A k \in 1..(Len(list) - 1) : s[k] = list[old(k)]
      BY ZenonT(30), <2>1, RemoveAtFacts
    <3>2. Len(list) \in Nat
      BY Counted
    <3> HIDE DEF s
    <3>3. \A k \in 1..(Len(list) - 1) : old(k) \in 1..Len(list) /\ old(k) # i
      BY <2>1, <3>2
    <3> QED BY <3>1, <3>3
  <2>4. \A k, l \in 1..Len(s) : old(k) = old(l) => k = l
    BY <2>3, <2>1
  <2> HIDE DEF s, old
  <2>5. CASE s = <<>>
    <3>1. r = <<"">>
      BY ZenonT(30), <2>5, <2>2
    <3>2. \A k \in 1..1 : k = 1
      OBVIOUS
    <3> QED BY ZenonT(30), <3>1, <3>2, EmptiedList, <1>0 DEF LeftOver
  <2>6. CASE s # <<>>
    <3>1. r = s
      BY <2>6, <2>2
    <3>2. \A k \in 1..Len(s) : s[k] # g
      BY <2>1, <2>3
    <3>3. ASSUME NEW k \in 1..Len(s), NEW l \in 1..Len(s)
          PROVE  \E a, b \in 1..Len(list) : list[a] = s[k] /\ list[b] = s[l] /\ (a = b => k = l)
      <4>1. old(k) \in 1..Len(list) /\ old(l) \in 1..Len(list)
        BY SMTT(30), <2>3
      <4>2. list[old(k)] = s[k] /\ list[old(l)] = s[l] /\ (old(k) = old(l) => k = l)
        BY <2>3, <2>4
      <4> QED BY SMTT(30), <4>1, <4>2
    <3>4. LeftOver(list, g, s)
      BY ZenonT(30), <3>2, <3>3, <2>3 DEF LeftOver
    <3> QED BY <3>1, <3>4
  <2> QED BY <2>5, <2>6
<1>2. CASE ~\E i \in 1..Len(list) : list[i] = g
  <2>1. r = list
    BY <1>2 DEF RemoveFromTimeoutList
  <2>2. LeftOver(list, g, list)
    BY ZenonT(30), <1>2 DEF LeftOver
  <2> QED BY SMTT(30), <2>1, <2>2
<1> QED BY <1>1, <1>2

\* Its type, whatever it removes.
LEMMA RemoveType ==
  ASSUME NEW list \in Seq(Entry), NEW g \in Group
  PROVE  RemoveFromTimeoutList(list, g) \in Seq(Entry)
<1> DEFINE i == CHOOSE i \in 1..Len(list) : list[i] = g
<1>1. CASE \E k \in 1..Len(list) : list[k] = g
  <2>1. i \in 1..Len(list)
    BY SMTT(30), <1>1
  <2>2. <<"">> \in Seq(Entry)
    BY ZenonT(30), EmptiedList
  <2> HIDE DEF i
  <2>3. RemoveAt(list, i) \in Seq(Entry)
    BY <2>1, RemoveAtFacts
  <2> QED BY ZenonT(30), <1>1, <2>2, <2>3 DEF RemoveFromTimeoutList, i
<1>2. CASE ~\E k \in 1..Len(list) : list[k] = g
  BY SMTT(30), <1>2 DEF RemoveFromTimeoutList
<1> QED BY <1>1, <1>2

-----------------------------------------------------------------------------
(***************************************************************************)
(* What the ends are told.                                                 *)
(***************************************************************************)

\* The children of a group are transactions.
LEMMA SomeChildren ==
  ASSUME NEW g \in Group, NEW S, S \subseteq Children[g]
  PROVE  S \subseteq TxId
  BY DEF TxId

\* What a notification writes keeps its type.
LEMMA NotifyType ==
  ASSUME TypeOK, NEW g \in Group, NEW id \in Children[g], NEW prev, NEW cur \in TransactionStatus,
         NEW src, src \subseteq Children[g], NEW dst, dst \subseteq Children[g], NEW fail,
         NotifySrcDst(id, prev, cur, src, dst, fail)
  PROVE  /\ toldSrc' \in [TxId -> SUBSET (TransactionStatus \cup {"TIMEOUT"})]
         /\ toldDst' \subseteq {c[2] : c \in Channel} \X TxId
<1>0. id \in TxId /\ GroupOf(id) = g /\ src \subseteq TxId /\ dst \subseteq TxId
  BY SMTT(30), OneGroupOnly DEF TxId
<1>1. toldSrc' \in [TxId -> SUBSET (TransactionStatus \cup {"TIMEOUT"})]
  BY ZenonT(30) DEF TypeOK, NotifySrcDst
<1>2. toldDst' \subseteq {c[2] : c \in Channel} \X TxId
  <2> DEFINE D == {c[2] : c \in Channel}
  <2>1. \A i \in TxId : i[1][2] \in D
    BY SMTT(30), ChildFacts
  <2>2. toldDst \subseteq D \X TxId
    BY ZenonT(30) DEF TypeOK
  <2>3. PICK first \in IF dst = {} THEN {id} ELSE dst :
          \/ toldDst' = toldDst
          \/ toldDst' = toldDst \cup {<<first[1][2], i>> : i \in dst}
                  \cup {<<id[1][2], i>> : i \in IF fail \/ cur = "BEGIN" THEN {} ELSE {id}}
    BY DEF NotifySrcDst
  <2>4. first \in TxId
    BY <2>3, <1>0
  <2>5. first[1][2] \in D /\ id[1][2] \in D
    BY SMTT(30), <2>1, <2>4, <1>0
  <2> HIDE DEF D
  <2>6. /\ {<<first[1][2], i>> : i \in dst} \subseteq D \X TxId
        /\ {<<id[1][2], i>> : i \in IF fail \/ cur = "BEGIN" THEN {} ELSE {id}} \subseteq D \X TxId
    BY SMTT(30), <2>5, <1>0
  <2> QED BY <2>2, <2>3, <2>6 DEF D
<1> QED BY <1>1, <1>2

-----------------------------------------------------------------------------
(***************************************************************************)
(* What each handler does to the entry of its group.                       *)
(***************************************************************************)

\* Only the entry of g changes, to one with this state, these children and this height.
Becomes(g, state, children, height) ==
  /\ DOMAIN txInfo' = Group
  /\ \A x \in Group : x # g => txInfo'[x] = txInfo[x]
  /\ txInfo'[g] = [GlobalState |-> state, ChildTxInfo |-> children, Height |-> height]

\* An entry of the right type.
LEMMA InfoMember ==
  ASSUME NEW g \in Group, NEW state \in TransactionStatus, NEW S, S \subseteq Children[g],
         NEW children \in [S -> TransactionStatus], NEW height \in 0..MaxUint64
  PROVE  [GlobalState |-> state, ChildTxInfo |-> children, Height |-> height] \in Info(g)
BY SMTT(30) DEF Info

\* The nested updates of the handlers.
LEMMA UpdateFacts ==
  ASSUME TypeOK, NEW g \in Group, NEW state, NEW children
  PROVE  /\ txInfo' = [txInfo EXCEPT ![g].GlobalState = state, ![g].ChildTxInfo = children]
              => Becomes(g, state, children, txInfo[g].Height)
         /\ txInfo' = [txInfo EXCEPT ![g].ChildTxInfo = children]
              => Becomes(g, txInfo[g].GlobalState, children, txInfo[g].Height)
<1>1. DOMAIN txInfo = Group
  BY ZenonT(30) DEF TypeOK
<1>2. PICK s, c, h : txInfo[g] = [GlobalState |-> s, ChildTxInfo |-> c, Height |-> h]
  <2>1. txInfo[g] = NoInfo \/ txInfo[g] \in Info(g)
    BY InfoFacts
  <2> QED BY ZenonT(30), <2>1 DEF NoInfo, Info
<1> QED BY <1>1, <1>2 DEF Becomes

\* The first request of a group makes its entry.
LEMMA FirstFacts ==
  ASSUME TypeOK, NEW g \in Group, NEW id \in Children[g], NEW isFailed \in BOOLEAN,
         BeginFirst(g, id, isFailed)
  PROVE  \E state \in {"BEGIN", "BEGIN_FAILURE"} : \E height \in (currentHeight + 1)..MaxUint64 :
           /\ txInfo[g] = NoInfo
           /\ Becomes(g, state, [i \in {id} |-> state], height)
           /\ timeoutList' = IF state = "BEGIN"
                THEN [timeoutList EXCEPT ![height] = Append(@, g)] ELSE timeoutList
           /\ NotifySrcDst(id, "none", state, {}, {}, FALSE)
<1> DEFINE state == IF isFailed THEN "BEGIN_FAILURE" ELSE "BEGIN"
           height == ExpiryHeight(groupTimeout[g])
<1>1. height \in (currentHeight + 1)..MaxUint64
  BY SMTT(30), ExpiryAhead
<1>2. /\ txInfo[g] = NoInfo
      /\ txInfo' = [txInfo EXCEPT ![g] =
           [GlobalState |-> state, ChildTxInfo |-> [i \in {id} |-> state], Height |-> height]]
      /\ timeoutList' = IF isFailed THEN timeoutList
           ELSE [timeoutList EXCEPT ![height] = Append(@, g)]
      /\ NotifySrcDst(id, "none", state, {}, {}, FALSE)
  BY ZenonT(30) DEF BeginFirst, AddToTimeoutList
<1>3. DOMAIN txInfo = Group
  BY ZenonT(30) DEF TypeOK
<1> HIDE DEF height
<1>4. Becomes(g, state, [i \in {id} |-> state], height)
  BY SMTT(30), <1>2, <1>3 DEF Becomes
<1>5. state \in {"BEGIN", "BEGIN_FAILURE"} /\ (state = "BEGIN" <=> ~isFailed)
  BY SMTT(30)
<1> QED BY ZenonT(30), <1>1, <1>2, <1>4, <1>5

\* A further request joins the group, and may fail it.
LEMMA FurtherFacts ==
  ASSUME TypeOK, NEW g \in Group, NEW id \in Children[g], NEW isFailed \in BOOLEAN,
         BeginFurther(g, id, isFailed)
  PROVE  LET info == txInfo[g]
             known == DOMAIN info.ChildTxInfo
         IN /\ info # NoInfo /\ id \notin known
            /\ \/ /\ info.GlobalState = "BEGIN"
                  /\ Becomes(g, "BEGIN_FAILURE", [i \in known \cup {id} |-> "BEGIN_FAILURE"], info.Height)
                  /\ timeoutList' = [timeoutList EXCEPT ![info.Height] = RemoveFromTimeoutList(@, g)]
                  /\ \E dst \in SUBSET known :
                       NotifySrcDst(id, "none", "BEGIN_FAILURE", known, dst, FALSE)
               \/ /\ Becomes(g, info.GlobalState,
                       [i \in known \cup {id} |-> IF i = id THEN info.GlobalState ELSE info.ChildTxInfo[i]],
                       info.Height)
                  /\ timeoutList' = timeoutList
                  /\ NotifySrcDst(id, "none", info.GlobalState, {}, {}, FALSE)
<1> DEFINE info == txInfo[g]
           known == DOMAIN info.ChildTxInfo
<1>1. info # NoInfo /\ id \notin known
  BY SMTT(30) DEF BeginFurther
<1>2. CASE info.GlobalState = "BEGIN" /\ isFailed
  <2> DEFINE dst == {i \in known : info.ChildTxInfo[i] = "SUCCESS"}
             children == [i \in known \cup {id} |-> "BEGIN_FAILURE"]
  <2>1. txInfo' = [txInfo EXCEPT ![g].GlobalState = "BEGIN_FAILURE", ![g].ChildTxInfo = children]
    BY SMTT(30), <1>2 DEF BeginFurther
  <2>2. timeoutList' = [timeoutList EXCEPT ![info.Height] = RemoveFromTimeoutList(@, g)]
    BY SMTT(30), <1>2 DEF BeginFurther
  <2>3. NotifySrcDst(id, "none", "BEGIN_FAILURE", known, dst, FALSE)
    <3>1. {i \in known : info.GlobalState = "BEGIN" /\ isFailed /\ info.ChildTxInfo[i] = "SUCCESS"} = dst
      BY SMTT(30), <1>2
    <3> QED BY ZenonT(30), <1>2, <3>1 DEF BeginFurther
  <2>4. dst \in SUBSET known
    OBVIOUS
  <2> HIDE DEF dst
  <2>5. Becomes(g, "BEGIN_FAILURE", children, info.Height)
    BY ZenonT(30), <2>1, UpdateFacts
  <2> QED BY ZenonT(30), <1>1, <1>2, <2>2, <2>3, <2>4, <2>5
<1>3. CASE ~(info.GlobalState = "BEGIN" /\ isFailed)
  <2> DEFINE children == [i \in known \cup {id} |-> IF i = id THEN info.GlobalState ELSE info.ChildTxInfo[i]]
  <2>1. txInfo' = [txInfo EXCEPT ![g].GlobalState = info.GlobalState, ![g].ChildTxInfo = children]
    BY ZenonT(30), <1>3 DEF BeginFurther
  <2>2. timeoutList' = timeoutList
    BY SMTT(30), <1>3 DEF BeginFurther
  <2>3. NotifySrcDst(id, "none", info.GlobalState, {}, {}, FALSE)
    <3>1. {i \in known : info.GlobalState = "BEGIN" /\ isFailed /\ info.ChildTxInfo[i] = "SUCCESS"} = {}
      BY SMTT(30), <1>3
    <3> QED BY ZenonT(30), <1>3, <3>1 DEF BeginFurther
  <2>4. Becomes(g, info.GlobalState, children, info.Height)
    BY SMTT(30), <2>1, UpdateFacts
  <2> QED BY ZenonT(30), <1>1, <2>2, <2>3, <2>4
<1> QED BY ZenonT(30), <1>2, <1>3

\* StatusesFit for one entry, child by child.
Fit(info, g) ==
  LET known == DOMAIN info.ChildTxInfo IN
  /\ info.GlobalState = "BEGIN" =>
       \A i \in known : info.ChildTxInfo[i] \in {"BEGIN", "SUCCESS"}
  /\ info.GlobalState = "BEGIN_FAILURE" =>
       \A i \in known : info.ChildTxInfo[i] \in {"BEGIN_FAILURE", "FAILURE"}
  /\ info.GlobalState = "BEGIN_ROLLBACK" =>
       \A i \in known : info.ChildTxInfo[i] \in {"BEGIN_ROLLBACK", "ROLLBACK"}
  /\ info.GlobalState \in FinalStatus =>
       known = Children[g] /\ \A i \in known : info.ChildTxInfo[i] = info.GlobalState

AllFit == \A g \in Group : txInfo[g] # NoInfo => Fit(txInfo[g], g)

\* For well typed states the two say the same.
LEMMA FitMeans ==
  ASSUME TypeOK
  PROVE  StatusesFit <=> AllFit
<1>1. ASSUME NEW g \in Group, txInfo[g] # NoInfo
      PROVE  txInfo[g].GlobalState \in TransactionStatus
  BY SMTT(30), <1>1, InfoFacts
<1>2. ASSUME NEW info, NEW g, info.GlobalState \in TransactionStatus
      PROVE  (LET states == {info.ChildTxInfo[id] : id \in DOMAIN info.ChildTxInfo}
              IN CASE info.GlobalState = "BEGIN"          -> states \subseteq {"BEGIN", "SUCCESS"}
                   [] info.GlobalState = "BEGIN_FAILURE"  -> states \subseteq {"BEGIN_FAILURE", "FAILURE"}
                   [] info.GlobalState = "BEGIN_ROLLBACK" -> states \subseteq {"BEGIN_ROLLBACK", "ROLLBACK"}
                   [] OTHER -> /\ DOMAIN info.ChildTxInfo = Children[g]
                               /\ states \subseteq {info.GlobalState}) <=> Fit(info, g)
  <2>1. CASE info.GlobalState = "BEGIN"
    BY SMTT(30), <2>1 DEF Fit, FinalStatus
  <2>2. CASE info.GlobalState = "BEGIN_FAILURE"
    BY SMTT(30), <2>2 DEF Fit, FinalStatus
  <2>3. CASE info.GlobalState = "BEGIN_ROLLBACK"
    BY <2>3 DEF Fit, FinalStatus
  <2>4. CASE info.GlobalState \in FinalStatus
    BY SMTT(30), <2>4 DEF Fit, FinalStatus
  <2> QED BY SMTT(30), <1>2, <2>1, <2>2, <2>3, <2>4 DEF TransactionStatus, FinalStatus
<1> QED BY ZenonT(30), <1>1, <1>2 DEF StatusesFit, AllFit

\* The moves of the status machine a receipt can make.
LEMMA ReceiptMoves ==
  ASSUME NEW from, NEW type \in ReceiptType, NEW to, <<from, receipt2EventM[type], to>> \in Fsm
  PROVE  /\ from \notin FinalStatus /\ to \in FinalStatus
         /\ from = "BEGIN" => to = "SUCCESS" \/ (to = "FAILURE" /\ type = "RECEIPT_FAILURE")
         /\ from = "BEGIN_FAILURE" => to = "FAILURE"
         /\ from = "BEGIN_ROLLBACK" => to = "ROLLBACK"
         /\ from \in {"BEGIN", "BEGIN_FAILURE", "BEGIN_ROLLBACK"}
<1>1. receipt2EventM[type] \in {"success", "failure", "rollback"}
       /\ (receipt2EventM[type] = "failure" => type = "RECEIPT_FAILURE")
  BY DEF receipt2EventM, ReceiptType
<1> QED BY <1>1 DEF Fsm, FinalStatus

\* A receipt fails the group, settles it, or moves one of its children.
LEMMA ReceiptFacts ==
  ASSUME TypeOK, AllFit, NEW g \in Group, NEW id \in Children[g], NEW type \in ReceiptType,
         id \in DOMAIN txInfo[g].ChildTxInfo, FailGroup(g, id, type) \/ MoveChild(g, id, type)
  PROVE  LET info == txInfo[g]
             known == DOMAIN info.ChildTxInfo
             Removed == timeoutList' = [timeoutList EXCEPT ![info.Height] = RemoveFromTimeoutList(@, g)]
         IN \/ /\ info.GlobalState = "BEGIN" /\ Removed
               /\ Becomes(g, "BEGIN_FAILURE",
                    [i \in known |-> IF i = id THEN "FAILURE" ELSE "BEGIN_FAILURE"], info.Height)
            \/ \E cur \in FinalStatus :
                 LET children == [info.ChildTxInfo EXCEPT ![id] = cur] IN
                 /\ info.GlobalState \notin FinalStatus
                 /\ info.GlobalState = "BEGIN" <=> cur = "SUCCESS"
                 /\ known = Children[g] /\ \A i \in known : children[i] = cur
                 /\ Becomes(g, cur, children, info.Height) /\ Removed
            \/ \E cur \in FinalStatus :
                 LET children == [info.ChildTxInfo EXCEPT ![id] = cur] IN
                 /\ Becomes(g, info.GlobalState, children, info.Height)
                 /\ info.GlobalState \notin FinalStatus
                 /\ info.GlobalState = "BEGIN" => cur = "SUCCESS"
                 /\ info.GlobalState = "BEGIN_FAILURE" => cur = "FAILURE"
                 /\ info.GlobalState = "BEGIN_ROLLBACK" => cur = "ROLLBACK"
                 /\ timeoutList' = timeoutList
<1> DEFINE info == txInfo[g]
           known == DOMAIN info.ChildTxInfo
           Removed == timeoutList' = [timeoutList EXCEPT ![info.Height] = RemoveFromTimeoutList(@, g)]
<1>1. CASE FailGroup(g, id, type)
  BY ZenonT(30), <1>1, UpdateFacts DEF FailGroup
<1>2. CASE MoveChild(g, id, type)
  <2>0. info # NoInfo /\ info.GlobalState \in TransactionStatus
    <3>1. NoInfo.ChildTxInfo = <<>> /\ DOMAIN <<>> = {}
      BY SMTT(30) DEF NoInfo
    <3> QED BY SMTT(30), <3>1, InfoFacts
  <2>1. PICK cur \in TransactionStatus :
          LET children == [info.ChildTxInfo EXCEPT ![id] = cur]
          IN  /\ <<info.ChildTxInfo[id], receipt2EventM[type], cur>> \in Fsm
              /\ IF IsMultiTxFinished(cur, children, g)
                 THEN /\ \E global \in TransactionStatus :
                           /\ <<info.GlobalState, receipt2EventM[type], global>> \in Fsm
                           /\ txInfo' = [txInfo EXCEPT ![g].GlobalState = global,
                                                       ![g].ChildTxInfo = children]
                      /\ Removed
                 ELSE /\ txInfo' = [txInfo EXCEPT ![g].ChildTxInfo = children]
                      /\ UNCHANGED timeoutList
    BY ZenonT(30), <1>2 DEF MoveChild
  <2> DEFINE children == [info.ChildTxInfo EXCEPT ![id] = cur]
  <2>2. ~(info.GlobalState = "BEGIN" /\ type = "RECEIPT_FAILURE")
    BY SMTT(30), <1>2 DEF MoveChild
  <2>3. Fit(info, g)
    BY SMTT(30), <2>0 DEF AllFit
  <2>4. /\ info.ChildTxInfo[id] \notin FinalStatus /\ cur \in FinalStatus
        /\ info.ChildTxInfo[id] = "BEGIN" => cur = "SUCCESS" \/ (cur = "FAILURE" /\ type = "RECEIPT_FAILURE")
        /\ info.ChildTxInfo[id] = "BEGIN_FAILURE" => cur = "FAILURE"
        /\ info.ChildTxInfo[id] = "BEGIN_ROLLBACK" => cur = "ROLLBACK"
    BY SMTT(30), <2>1, ReceiptMoves
  <2>5. /\ info.GlobalState \notin FinalStatus
        /\ info.GlobalState = "BEGIN" => cur = "SUCCESS"
        /\ info.GlobalState = "BEGIN_FAILURE" => cur = "FAILURE"
        /\ info.GlobalState = "BEGIN_ROLLBACK" => cur = "ROLLBACK"
    BY SMTT(30), <2>2, <2>3, <2>4 DEF Fit, FinalStatus
  <2>6. CASE IsMultiTxFinished(cur, children, g)
    <3>1. PICK global \in TransactionStatus :
            /\ <<info.GlobalState, receipt2EventM[type], global>> \in Fsm
            /\ txInfo' = [txInfo EXCEPT ![g].GlobalState = global, ![g].ChildTxInfo = children]
      BY SMTT(30), <2>1, <2>6
    <3>2. /\ info.GlobalState = "BEGIN" => global = "SUCCESS" \/ (global = "FAILURE" /\ type = "RECEIPT_FAILURE")
          /\ info.GlobalState = "BEGIN_FAILURE" => global = "FAILURE"
          /\ info.GlobalState = "BEGIN_ROLLBACK" => global = "ROLLBACK"
          /\ info.GlobalState \in {"BEGIN", "BEGIN_FAILURE", "BEGIN_ROLLBACK"}
      BY SMTT(30), <3>1, ReceiptMoves
    <3>3. global = cur /\ (info.GlobalState = "BEGIN" <=> cur = "SUCCESS")
      BY SMTT(30), <2>2, <2>5, <3>2
    <3>4. Becomes(g, cur, children, info.Height)
      BY ZenonT(30), <3>1, <3>3, UpdateFacts
    <3>5. DOMAIN children = known
      BY SMTT(30)
    <3>6. /\ \A i \in known : children[i] = cur
          /\ Cardinality(known) = Cardinality(Children[g])
      BY <2>6, <3>5 DEF IsMultiTxFinished
    <3>7. known = Children[g]
      <4>1. known \subseteq Children[g]
        BY SMTT(30), InfoFacts
      <4>2. \A S \in SUBSET Children[g] : Cardinality(S) = Cardinality(Children[g]) => S = Children[g]
        BY ZenonT(30), MultiTxAssumption
      <4> HIDE DEF known
      <4> QED BY ZenonT(30), <3>6, <4>1, <4>2
    <3>8. Removed
      BY SMTT(30), <2>1, <2>6
    <3> HIDE DEF children, Removed
    <3>9. /\ info.GlobalState \notin FinalStatus /\ cur \in FinalStatus
          /\ info.GlobalState = "BEGIN" <=> cur = "SUCCESS"
          /\ known = Children[g] /\ \A i \in known : children[i] = cur
          /\ Becomes(g, cur, children, info.Height) /\ Removed
      BY SMTT(30), <2>4, <2>5, <3>3, <3>4, <3>6, <3>7, <3>8
    <3> QED BY SMTT(30), <3>9 DEF children, Removed
  <2>7. CASE ~IsMultiTxFinished(cur, children, g)
    <3>1. txInfo' = [txInfo EXCEPT ![g].ChildTxInfo = children] /\ timeoutList' = timeoutList
      BY SMTT(30), <2>1, <2>7
    <3>2. Becomes(g, info.GlobalState, children, info.Height)
      BY ZenonT(30), <3>1, UpdateFacts
    <3> QED BY SMTT(30), <2>4, <2>5, <3>1, <3>2
  <2> QED BY ZenonT(30), <2>6, <2>7
<1> QED BY ZenonT(30), <1>1, <1>2

-----------------------------------------------------------------------------
(***************************************************************************)
(* Types.                                                                  *)
(***************************************************************************)

\* A change of one entry keeps the type of all.
LEMMA EntryType ==
  ASSUME TypeOK, NEW g \in Group, NEW state \in TransactionStatus, NEW S, S \subseteq Children[g],
         NEW children \in [S -> TransactionStatus], NEW height \in 0..MaxUint64,
         Becomes(g, state, children, height)
  PROVE  DOMAIN txInfo' = Group /\ \A x \in Group : txInfo'[x] \in Info(x) \cup {NoInfo}
<1>1. txInfo'[g] \in Info(g)
  BY SMTT(30), InfoMember DEF Becomes
<1>2. \A x \in Group : txInfo[x] \in Info(x) \cup {NoInfo}
  BY ZenonT(30) DEF TypeOK
<1> QED BY SMTT(30), <1>1, <1>2 DEF Becomes

\* So do the changes of a list.
LEMMA ListType ==
  ASSUME TypeOK, NEW g \in Group, NEW h \in 0..MaxUint64,
         \/ timeoutList' = timeoutList
         \/ timeoutList' = [timeoutList EXCEPT ![h] = RemoveFromTimeoutList(@, g)]
         \/ timeoutList' = [timeoutList EXCEPT ![h] = Append(@, g)]
  PROVE  timeoutList' \in [0..MaxUint64 -> Seq(Entry)]
<1>1. timeoutList \in [0..MaxUint64 -> Seq(Entry)]
  BY ZenonT(30) DEF TypeOK, Entry
<1>2. RemoveFromTimeoutList(timeoutList[h], g) \in Seq(Entry)
  BY <1>1, RemoveType
<1>3. Append(timeoutList[h], g) \in Seq(Entry)
  BY ZenonT(30), <1>1, Appended DEF Entry
<1> QED BY ZenonT(30), <1>1, <1>2, <1>3

\* A request keeps the types.
LEMMA RequestType ==
  ASSUME TypeOK, NEW id \in TxId, HandleRequest(id)
  PROVE  TypeOK'
<1> DEFINE g == GroupOf(id)
<1>0. /\ g \in Group /\ id \in Children[g] /\ id[1] \in Channel /\ id[2] \in Nat
      /\ (id[1][2] \in down) \in BOOLEAN
  BY SMTT(30), ChildFacts
<1>1. /\ interchainCounter' \in [Channel -> Nat]
      /\ sourceInterchainCounter' \in [Channel -> Nat]
      /\ indexMap' \subseteq TxId
  BY ZenonT(30), <1>0 DEF TypeOK, HandleRequest
<1>2. BeginFirst(g, id, id[1][2] \in down) \/ BeginFurther(g, id, id[1][2] \in down)
  BY SMTT(30) DEF HandleRequest
<1> HIDE DEF g
<1> DEFINE Fine == /\ DOMAIN txInfo' = Group
                   /\ \A x \in Group : txInfo'[x] \in Info(x) \cup {NoInfo}
                   /\ timeoutList' \in [0..MaxUint64 -> Seq(Entry)]
                   /\ toldSrc' \in [TxId -> SUBSET (TransactionStatus \cup {"TIMEOUT"})]
                   /\ toldDst' \subseteq {c[2] : c \in Channel} \X TxId
<1>3. ASSUME BeginFirst(g, id, id[1][2] \in down) PROVE Fine
  <2>1. PICK state \in {"BEGIN", "BEGIN_FAILURE"}, height \in (currentHeight + 1)..MaxUint64 :
           /\ Becomes(g, state, [i \in {id} |-> state], height)
           /\ timeoutList' = IF state = "BEGIN"
                THEN [timeoutList EXCEPT ![height] = Append(@, g)] ELSE timeoutList
           /\ NotifySrcDst(id, "none", state, {}, {}, FALSE)
    BY ZenonT(30), <1>0, <1>3, FirstFacts
  <2>2. height \in 0..MaxUint64 /\ state \in TransactionStatus
    BY SMTT(30), HeightFacts, NowFacts DEF TransactionStatus
  <2>3. [i \in {id} |-> state] \in [{id} -> TransactionStatus] /\ {id} \subseteq Children[g]
    BY SMTT(30), <1>0, <2>2
  <2>4. DOMAIN txInfo' = Group /\ \A x \in Group : txInfo'[x] \in Info(x) \cup {NoInfo}
    BY ZenonT(30), <1>0, <2>1, <2>2, <2>3, EntryType
  <2>5. timeoutList' \in [0..MaxUint64 -> Seq(Entry)]
    BY ZenonT(30), <1>0, <2>1, <2>2, ListType
  <2>6. /\ toldSrc' \in [TxId -> SUBSET (TransactionStatus \cup {"TIMEOUT"})]
        /\ toldDst' \subseteq {c[2] : c \in Channel} \X TxId
    BY ZenonT(30), <1>0, <2>1, <2>2, NotifyType
  <2> QED BY <2>4, <2>5, <2>6
<1>4. ASSUME BeginFurther(g, id, id[1][2] \in down) PROVE Fine
  <2> DEFINE info == txInfo[g]
             known == DOMAIN info.ChildTxInfo
  <2>1. /\ known \subseteq Children[g] /\ known \cup {id} \subseteq Children[g]
        /\ info.ChildTxInfo \in [known -> TransactionStatus] /\ info.Height \in 0..MaxUint64
    BY SMTT(30), <1>0, InfoFacts
  <2>2. /\ info # NoInfo
        /\ \/ /\ Becomes(g, "BEGIN_FAILURE", [i \in known \cup {id} |-> "BEGIN_FAILURE"], info.Height)
              /\ timeoutList' = [timeoutList EXCEPT ![info.Height] = RemoveFromTimeoutList(@, g)]
              /\ \E dst \in SUBSET known :
                   NotifySrcDst(id, "none", "BEGIN_FAILURE", known, dst, FALSE)
           \/ /\ Becomes(g, info.GlobalState,
                   [i \in known \cup {id} |-> IF i = id THEN info.GlobalState ELSE info.ChildTxInfo[i]],
                   info.Height)
              /\ timeoutList' = timeoutList
              /\ NotifySrcDst(id, "none", info.GlobalState, {}, {}, FALSE)
    BY ZenonT(30), <1>0, <1>4, FurtherFacts
  <2>3. info.GlobalState \in TransactionStatus /\ "BEGIN_FAILURE" \in TransactionStatus
    BY SMTT(30), <1>0, <2>2, InfoFacts DEF TransactionStatus
  <2> HIDE DEF info, known
  <2>4. /\ [i \in known \cup {id} |-> "BEGIN_FAILURE"] \in [known \cup {id} -> TransactionStatus]
        /\ [i \in known \cup {id} |-> IF i = id THEN info.GlobalState ELSE info.ChildTxInfo[i]]
              \in [known \cup {id} -> TransactionStatus]
    BY SMTT(30), <2>1, <2>3
  <2>5. DOMAIN txInfo' = Group /\ \A x \in Group : txInfo'[x] \in Info(x) \cup {NoInfo}
    BY ZenonT(30), <1>0, <2>1, <2>2, <2>3, <2>4, EntryType
  <2>6. timeoutList' \in [0..MaxUint64 -> Seq(Entry)]
    BY ZenonT(30), <1>0, <2>1, <2>2, ListType
  <2>7. /\ toldSrc' \in [TxId -> SUBSET (TransactionStatus \cup {"TIMEOUT"})]
        /\ toldDst' \subseteq {c[2] : c \in Channel} \X TxId
    <3>1. CASE NotifySrcDst(id, "none", info.GlobalState, {}, {}, FALSE)
      BY ZenonT(30), <1>0, <2>3, <3>1, NotifyType
    <3>2. CASE \E dst \in SUBSET known : NotifySrcDst(id, "none", "BEGIN_FAILURE", known, dst, FALSE)
      <4>1. PICK dst \in SUBSET known : NotifySrcDst(id, "none", "BEGIN_FAILURE", known, dst, FALSE)
        BY ZenonT(30), <3>2
      <4>2. dst \subseteq Children[g]
        BY <2>1
      <4> QED BY ZenonT(30), <1>0, <2>1, <2>3, <4>1, <4>2, NotifyType
    <3> QED BY ZenonT(30), <2>2, <3>1, <3>2
  <2> QED BY SMTT(30), <2>5, <2>6, <2>7
<1>5. Fine
  BY SMTT(30), <1>2, <1>3, <1>4
<1>6. /\ currentHeight' = currentHeight /\ groupTimeout' = groupTimeout /\ down' = down
      /\ receiptCounter' = receiptCounter /\ sourceReceiptCounter' = sourceReceiptCounter
      /\ indexReceiptMap' = indexReceiptMap /\ invoked' = invoked /\ succeeded' = succeeded
  BY SMTT(30) DEF HandleRequest
<1> QED BY ZenonT(30), <1>1, <1>5, <1>6 DEF TypeOK, Entry

\* The entry after a receipt.
LEMMA ReceiptEntry ==
  ASSUME TypeOK, AllFit, NEW g \in Group, NEW id \in Children[g], NEW type \in ReceiptType,
         id \in DOMAIN txInfo[g].ChildTxInfo, FailGroup(g, id, type) \/ MoveChild(g, id, type)
  PROVE  /\ \E state \in TransactionStatus :
              \E children \in [DOMAIN txInfo[g].ChildTxInfo -> TransactionStatus] :
                Becomes(g, state, children, txInfo[g].Height)
         /\ \/ timeoutList' = timeoutList
            \/ timeoutList' = [timeoutList EXCEPT ![txInfo[g].Height] = RemoveFromTimeoutList(@, g)]
<1> DEFINE info == txInfo[g]
           known == DOMAIN info.ChildTxInfo
<1>1. /\ info.ChildTxInfo \in [known -> TransactionStatus]
      /\ info.GlobalState \in TransactionStatus
  <2>1. NoInfo.ChildTxInfo = <<>> /\ DOMAIN <<>> = {}
    BY DEF NoInfo
  <2> QED BY SMTT(30), <2>1, InfoFacts
<1>2. FinalStatus \subseteq TransactionStatus
      /\ "FAILURE" \in TransactionStatus /\ "BEGIN_FAILURE" \in TransactionStatus
  BY DEF FinalStatus, TransactionStatus
<1>3. \A cur \in FinalStatus : [info.ChildTxInfo EXCEPT ![id] = cur] \in [known -> TransactionStatus]
  BY <1>1, <1>2
<1>4. [i \in known |-> IF i = id THEN "FAILURE" ELSE "BEGIN_FAILURE"] \in [known -> TransactionStatus]
  BY SMTT(30), <1>2
<1>5. \/ /\ Becomes(g, "BEGIN_FAILURE",
              [i \in known |-> IF i = id THEN "FAILURE" ELSE "BEGIN_FAILURE"], info.Height)
         /\ timeoutList' = [timeoutList EXCEPT ![info.Height] = RemoveFromTimeoutList(@, g)]
      \/ \E cur \in FinalStatus :
           /\ Becomes(g, cur, [info.ChildTxInfo EXCEPT ![id] = cur], info.Height)
           /\ timeoutList' = [timeoutList EXCEPT ![info.Height] = RemoveFromTimeoutList(@, g)]
      \/ \E cur \in FinalStatus :
           /\ Becomes(g, info.GlobalState, [info.ChildTxInfo EXCEPT ![id] = cur], info.Height)
           /\ timeoutList' = timeoutList
  BY ZenonT(30), ReceiptFacts
<1> HIDE DEF info, known
<1>6. \E state \in TransactionStatus : \E children \in [known -> TransactionStatus] :
        Becomes(g, state, children, info.Height)
  BY ZenonT(30), <1>1, <1>2, <1>3, <1>4, <1>5
<1>7. \/ timeoutList' = timeoutList
      \/ timeoutList' = [timeoutList EXCEPT ![info.Height] = RemoveFromTimeoutList(@, g)]
  BY ZenonT(30), <1>5
<1> QED BY SMTT(30), <1>6, <1>7 DEF info, known

\* The counters after a receipt.
LEMMA AnswerType ==
  ASSUME TypeOK, NEW g \in Group, NEW id \in Children[g], ProcessAnswer(g, id)
  PROVE  /\ receiptCounter' \in [Channel -> Nat]
         /\ sourceReceiptCounter' \in [Channel -> Nat]
         /\ invoked' \in [Channel -> Nat]
         /\ indexReceiptMap' \subseteq TxId
         /\ UNCHANGED <<interchainCounter, sourceInterchainCounter, indexMap>>
<1> DEFINE counted == {i \in DOMAIN txInfo[g].ChildTxInfo : txInfo'[g].GlobalState \in FinalStatus}
           IndexOn(c) == (CHOOSE i \in counted : i[1] = c)[2]
<1>1. counted \subseteq TxId
  BY ZenonT(30), InfoFacts, SomeChildren
<1> HIDE DEF counted
<1>2. ASSUME NEW c \in Channel, \E i \in counted : i[1] = c
      PROVE  IndexOn(c) \in Nat
  BY SMTT(30), <1>1, <1>2, ChildFacts
<1>3. receiptCounter' = [c \in Channel |->
        IF \E i \in counted : i[1] = c THEN IndexOn(c) ELSE receiptCounter[c]]
  BY SMTT(30) DEF ProcessAnswer, counted
<1>4. sourceReceiptCounter' = [c \in Channel |->
        IF \E i \in counted : i[1] = c THEN IndexOn(c) ELSE sourceReceiptCounter[c]]
  BY DEF ProcessAnswer, counted
<1>5. invoked' = [c \in Channel |->
        IF \E i \in counted : i[1] = c THEN invoked[c] + 1 ELSE invoked[c]]
  BY DEF ProcessAnswer, counted
<1>6. /\ receiptCounter \in [Channel -> Nat] /\ sourceReceiptCounter \in [Channel -> Nat]
      /\ invoked \in [Channel -> Nat] /\ indexReceiptMap \subseteq TxId /\ id \in TxId
  BY ZenonT(30), OneGroupOnly DEF TypeOK
<1> HIDE DEF IndexOn
<1>7. indexReceiptMap' \subseteq TxId /\ UNCHANGED <<interchainCounter, sourceInterchainCounter, indexMap>>
  BY SMTT(30), <1>6 DEF ProcessAnswer
<1> QED BY SMTT(30), <1>2, <1>3, <1>4, <1>5, <1>6, <1>7

\* A receipt keeps the types.
LEMMA ReceiptKeepsType ==
  ASSUME TypeOK, AllFit, NEW id \in TxId, NEW type \in ReceiptType, HandleReceipt(id, type)
  PROVE  TypeOK'
<1> DEFINE g == GroupOf(id)
           info == txInfo[g]
           known == DOMAIN info.ChildTxInfo
<1>0. g \in Group /\ id \in Children[g]
  BY SMTT(30), ChildFacts
<1>1. id \in known /\ (FailGroup(g, id, type) \/ MoveChild(g, id, type)) /\ ProcessAnswer(g, id)
  BY SMTT(30) DEF HandleReceipt
<1>2. PICK src, dst, fail : /\ src \subseteq known /\ dst \subseteq known
          /\ NotifySrcDst(id, info.GlobalState, txInfo'[g].GlobalState, src, dst, fail)
  BY SMTT(30) DEF HandleReceipt
<1>3. known \subseteq Children[g] /\ info.Height \in 0..MaxUint64
  BY SMTT(30), <1>0, InfoFacts
<1> HIDE DEF g
<1>4. PICK state \in TransactionStatus, children \in [known -> TransactionStatus] :
        Becomes(g, state, children, info.Height)
  BY ZenonT(30), <1>0, <1>1, ReceiptEntry
<1>5. DOMAIN txInfo' = Group /\ \A x \in Group : txInfo'[x] \in Info(x) \cup {NoInfo}
  BY SMTT(30), <1>0, <1>3, <1>4, EntryType
<1>6. timeoutList' \in [0..MaxUint64 -> Seq(Entry)]
  <2>1. \/ timeoutList' = timeoutList
        \/ timeoutList' = [timeoutList EXCEPT ![info.Height] = RemoveFromTimeoutList(@, g)]
    BY SMTT(30), <1>0, <1>1, ReceiptEntry
  <2> QED BY SMTT(30), <1>0, <1>3, <2>1, ListType
<1>7. txInfo'[g].GlobalState \in TransactionStatus
  BY SMTT(30), <1>4 DEF Becomes
<1>8. /\ toldSrc' \in [TxId -> SUBSET (TransactionStatus \cup {"TIMEOUT"})]
      /\ toldDst' \subseteq {c[2] : c \in Channel} \X TxId
  <2>1. src \subseteq Children[g] /\ dst \subseteq Children[g]
    BY SMTT(30), <1>2, <1>3
  <2> HIDE DEF info, known
  <2> QED BY ZenonT(30), <1>0, <1>2, <1>7, <2>1, NotifyType
<1>9. /\ receiptCounter' \in [Channel -> Nat] /\ sourceReceiptCounter' \in [Channel -> Nat]
      /\ invoked' \in [Channel -> Nat] /\ indexReceiptMap' \subseteq TxId
      /\ UNCHANGED <<interchainCounter, sourceInterchainCounter, indexMap>>
  BY SMTT(30), <1>0, <1>1, AnswerType
<1>10. succeeded' \subseteq TxId /\ UNCHANGED <<currentHeight, groupTimeout, down>>
  BY ZenonT(30) DEF HandleReceipt, TypeOK
<1> QED BY ZenonT(30), <1>5, <1>6, <1>8, <1>9, <1>10 DEF TypeOK, Entry

\* The groups on the list of the block that is closed, and what they become.
Due == GetTimeoutList(timeoutList[Number])

Overdue(info) ==
  [GlobalState |-> "BEGIN_ROLLBACK",
   ChildTxInfo |-> [i \in DOMAIN info.ChildTxInfo |-> "BEGIN_ROLLBACK"],
   Height      |-> info.Height]

\* The fields of such an entry.
LEMMA OverdueFacts ==
  ASSUME NEW info
  PROVE  /\ Overdue(info).GlobalState = "BEGIN_ROLLBACK" /\ Overdue(info).Height = info.Height
         /\ DOMAIN Overdue(info).ChildTxInfo = DOMAIN info.ChildTxInfo
         /\ \A i \in DOMAIN info.ChildTxInfo : Overdue(info).ChildTxInfo[i] = "BEGIN_ROLLBACK"
BY DEF Overdue

\* Closing a block gives up the groups that are due and touches no other.
LEMMA CloseFacts ==
  ASSUME TypeOK, CloseBlock
  PROVE  /\ DOMAIN txInfo' = Group
         /\ \A g \in Group : txInfo'[g] = IF g \in Due THEN Overdue(txInfo[g]) ELSE txInfo[g]
         /\ currentHeight' = currentHeight + 1 /\ currentHeight' \in 0..MaxHeight
         /\ UNCHANGED <<groupTimeout, down, counters, timeoutList, succeeded>>
<1>1. txInfo' = [g \in Group |-> IF g \in Due THEN Overdue(txInfo[g]) ELSE txInfo[g]]
  BY SMTT(30) DEF CloseBlock, Due, Overdue
<1>2. currentHeight < MaxHeight /\ currentHeight' = currentHeight + 1
  BY SMTT(30) DEF CloseBlock, Number
<1>3. currentHeight' \in 0..MaxHeight
  BY <1>2, NowFacts, HeightFacts
<1>4. UNCHANGED <<groupTimeout, down, counters, timeoutList, succeeded>>
  BY SMTT(30) DEF CloseBlock
<1> QED BY <1>1, <1>2, <1>3, <1>4

\* Closing a block keeps the types.
LEMMA CloseKeepsType ==
  ASSUME TypeOK, CloseBlock
  PROVE  TypeOK'
<1> DEFINE ids == UNION {DOMAIN txInfo[g].ChildTxInfo : g \in Group \cap Due}
           D == {c[2] : c \in Channel}
<1>1. \A g \in Group : txInfo'[g] \in Info(g) \cup {NoInfo}
  <2> SUFFICES ASSUME NEW g \in Group PROVE txInfo'[g] \in Info(g) \cup {NoInfo}
    BY SMTT(30)
  <2> DEFINE known == DOMAIN txInfo[g].ChildTxInfo
  <2>1. known \subseteq Children[g] /\ txInfo[g].Height \in 0..MaxUint64
    BY InfoFacts
  <2>2. "BEGIN_ROLLBACK" \in TransactionStatus
    BY DEF TransactionStatus
  <2>3. [i \in known |-> "BEGIN_ROLLBACK"] \in [known -> TransactionStatus]
    BY <2>2
  <2>4. Overdue(txInfo[g]) \in Info(g)
    BY SMTT(30), <2>1, <2>2, <2>3, InfoMember DEF Overdue
  <2>5. txInfo[g] \in Info(g) \cup {NoInfo}
    BY ZenonT(30) DEF TypeOK
  <2> QED BY SMTT(30), <2>4, <2>5, CloseFacts
<1>4. ids \subseteq TxId
  <2>1. \A g \in Group : DOMAIN txInfo[g].ChildTxInfo \subseteq TxId
    BY SMTT(30), InfoFacts, SomeChildren
  <2> QED BY <2>1
<1>5. toldSrc' \in [TxId -> SUBSET (TransactionStatus \cup {"TIMEOUT"})]
  <2>1. toldSrc' = [i \in TxId |-> IF i \in ids THEN toldSrc[i] \cup {"TIMEOUT"} ELSE toldSrc[i]]
    BY SMTT(30) DEF CloseBlock, Due
  <2>2. toldSrc \in [TxId -> SUBSET (TransactionStatus \cup {"TIMEOUT"})]
    BY ZenonT(30) DEF TypeOK
  <2> HIDE DEF ids
  <2> QED BY SMTT(30), <2>1, <2>2
<1>6. toldDst' \subseteq D \X TxId
  <2>1. PICK S : S \subseteq ids /\ toldDst' = toldDst \cup {<<i[1][2], i>> : i \in S}
    <3>1. toldDst' = toldDst \cup {<<i[1][2], i>> :
             i \in {j \in ids : txInfo[GroupOf(j)].ChildTxInfo[j] \in FinalStatus}}
      BY SMTT(30) DEF CloseBlock, Due
    <3> HIDE DEF ids
    <3> QED BY ZenonT(30), <3>1
  <2>2. \A i \in TxId : i[1][2] \in D
    BY ChildFacts
  <2>3. toldDst \subseteq D \X TxId
    BY ZenonT(30) DEF TypeOK
  <2> HIDE DEF D, ids
  <2> QED BY <1>4, <2>1, <2>2, <2>3
<1> HIDE DEF ids
<1> QED BY ZenonT(30), <1>1, <1>5, <1>6, CloseFacts DEF TypeOK, counters

\* Every step keeps the types.
LEMMA TypeStep ==
  ASSUME TypeOK, AllFit, [Next]_vars
  PROVE  TypeOK'
<1>1. CASE \E id \in TxId : HandleRequest(id)
  BY SMTT(30), <1>1, RequestType
<1>2. CASE \E id \in TxId, type \in ReceiptType : HandleReceipt(id, type)
  BY SMTT(30), <1>2, ReceiptKeepsType
<1>3. CASE \E s \in Switchable : Switch(s)
  BY ZenonT(30), <1>3 DEF Switch, TypeOK, counters
<1>4. CASE CloseBlock
  BY <1>4, CloseKeepsType
<1>5. CASE UNCHANGED vars
  BY ZenonT(30), <1>5 DEF vars, counters, TypeOK
<1> QED BY <1>1, <1>2, <1>3, <1>4, <1>5 DEF Next

-----------------------------------------------------------------------------
(***************************************************************************)
(* The states of groups and children fit together.                         *)
(***************************************************************************)

\* It is enough that the entry that changes fits.
LEMMA EntryFits ==
  ASSUME AllFit, NEW g \in Group, NEW state, NEW children, NEW height,
         Becomes(g, state, children, height),
         Fit([GlobalState |-> state, ChildTxInfo |-> children, Height |-> height], g)
  PROVE  AllFit'
<1>1. \A x \in Group : x # g => txInfo'[x] = txInfo[x]
  BY ZenonT(30) DEF Becomes
<1>2. Fit(txInfo'[g], g)
  BY SMTT(30) DEF Becomes
<1>3. \A x \in Group : txInfo'[x] # NoInfo => Fit(txInfo'[x], x)
  BY SMTT(30), <1>1, <1>2 DEF AllFit
<1> QED BY ZenonT(30), <1>3 DEF AllFit, Fit

\* A request keeps it: a final group has all of its children, so none can join it.
LEMMA RequestFits ==
  ASSUME TypeOK, AllFit, NEW id \in TxId, HandleRequest(id)
  PROVE  AllFit'
<1> DEFINE g == GroupOf(id)
           info == txInfo[g]
           known == DOMAIN info.ChildTxInfo
<1>0. g \in Group /\ id \in Children[g] /\ (id[1][2] \in down) \in BOOLEAN
  BY SMTT(30), ChildFacts
<1>1. BeginFirst(g, id, id[1][2] \in down) \/ BeginFurther(g, id, id[1][2] \in down)
  BY SMTT(30) DEF HandleRequest
<1> HIDE DEF g
<1>2. CASE BeginFirst(g, id, id[1][2] \in down)
  <2>1. PICK state \in {"BEGIN", "BEGIN_FAILURE"}, height \in (currentHeight + 1)..MaxUint64 :
           Becomes(g, state, [i \in {id} |-> state], height)
    BY ZenonT(30), <1>0, <1>2, FirstFacts
  <2>2. Fit([GlobalState |-> state, ChildTxInfo |-> [i \in {id} |-> state], Height |-> height], g)
    BY ZenonT(30), <2>1 DEF Fit, FinalStatus
  <2> QED BY SMTT(30), <1>0, <2>1, <2>2, EntryFits
<1>3. CASE BeginFurther(g, id, id[1][2] \in down)
  <2> DEFINE failed == [i \in known \cup {id} |-> "BEGIN_FAILURE"]
             joined == [i \in known \cup {id} |-> IF i = id THEN info.GlobalState ELSE info.ChildTxInfo[i]]
  <2>1. /\ info # NoInfo /\ id \notin known
        /\ \/ Becomes(g, "BEGIN_FAILURE", failed, info.Height)
           \/ Becomes(g, info.GlobalState, joined, info.Height)
    BY ZenonT(30), <1>0, <1>3, FurtherFacts
  <2>2. Fit(info, g)
    BY ZenonT(30), <1>0, <2>1 DEF AllFit
  <2>3. Fit([GlobalState |-> "BEGIN_FAILURE", ChildTxInfo |-> failed, Height |-> info.Height], g)
    BY SMTT(30) DEF Fit, FinalStatus
  <2>4. Fit([GlobalState |-> info.GlobalState, ChildTxInfo |-> joined, Height |-> info.Height], g)
    <3> HIDE DEF info
    <3>1. info.GlobalState \notin FinalStatus
      BY SMTT(30), <1>0, <2>1, <2>2 DEF Fit
    <3>2. DOMAIN joined = known \cup {id} /\ joined[id] = info.GlobalState
      BY SMTT(30)
    <3>3. \A i \in known : i # id => joined[i] = info.ChildTxInfo[i]
      OBVIOUS
    <3> HIDE DEF joined
    <3> QED BY ZenonT(30), <2>2, <3>1, <3>2, <3>3 DEF Fit
  <2> HIDE DEF failed, joined
  <2> QED BY ZenonT(30), <1>0, <2>1, <2>3, <2>4, EntryFits
<1> QED BY SMTT(30), <1>1, <1>2, <1>3

\* A receipt keeps it.
LEMMA ReceiptFits ==
  ASSUME TypeOK, AllFit, NEW id \in TxId, NEW type \in ReceiptType, HandleReceipt(id, type)
  PROVE  AllFit'
<1> DEFINE g == GroupOf(id)
           info == txInfo[g]
           known == DOMAIN info.ChildTxInfo
           moved(cur) == [info.ChildTxInfo EXCEPT ![id] = cur]
           failed == [i \in known |-> IF i = id THEN "FAILURE" ELSE "BEGIN_FAILURE"]
<1>0. g \in Group /\ id \in Children[g]
  BY SMTT(30), ChildFacts
<1>1. id \in known /\ (FailGroup(g, id, type) \/ MoveChild(g, id, type))
  BY ZenonT(30) DEF HandleReceipt
<1> HIDE DEF g
<1>2. \/ Becomes(g, "BEGIN_FAILURE", failed, info.Height)
      \/ \E cur \in FinalStatus :
           /\ known = Children[g] /\ \A i \in known : moved(cur)[i] = cur
           /\ Becomes(g, cur, moved(cur), info.Height)
      \/ \E cur \in FinalStatus :
           /\ Becomes(g, info.GlobalState, moved(cur), info.Height)
           /\ info.GlobalState \notin FinalStatus
           /\ info.GlobalState = "BEGIN" => cur = "SUCCESS"
           /\ info.GlobalState = "BEGIN_FAILURE" => cur = "FAILURE"
           /\ info.GlobalState = "BEGIN_ROLLBACK" => cur = "ROLLBACK"
  BY ZenonT(30), <1>0, <1>1, ReceiptFacts
<1>3. info # NoInfo
  <2>1. NoInfo.ChildTxInfo = <<>> /\ DOMAIN <<>> = {}
    BY SMTT(30) DEF NoInfo
  <2> QED BY SMTT(30), <1>1, <2>1
<1>4. Fit(info, g)
  BY SMTT(30), <1>0, <1>3 DEF AllFit
<1> HIDE DEF info
<1>5. CASE Becomes(g, "BEGIN_FAILURE", failed, info.Height)
  <2>1. Fit([GlobalState |-> "BEGIN_FAILURE", ChildTxInfo |-> failed, Height |-> info.Height], g)
    BY SMTT(30) DEF Fit, FinalStatus
  <2> HIDE DEF failed
  <2> QED BY SMTT(30), <1>0, <1>5, <2>1, EntryFits
<1>6. ASSUME NEW cur \in FinalStatus, known = Children[g], \A i \in known : moved(cur)[i] = cur,
             Becomes(g, cur, moved(cur), info.Height)
      PROVE  AllFit'
  <2>1. DOMAIN moved(cur) = known
    BY SMTT(30)
  <2> HIDE DEF moved
  <2>2. Fit([GlobalState |-> cur, ChildTxInfo |-> moved(cur), Height |-> info.Height], g)
    BY ZenonT(30), <1>6, <2>1 DEF Fit, FinalStatus
  <2> QED BY ZenonT(30), <1>0, <1>6, <2>2, EntryFits
<1>7. ASSUME NEW cur \in FinalStatus, Becomes(g, info.GlobalState, moved(cur), info.Height),
             info.GlobalState \notin FinalStatus,
             info.GlobalState = "BEGIN" => cur = "SUCCESS",
             info.GlobalState = "BEGIN_FAILURE" => cur = "FAILURE",
             info.GlobalState = "BEGIN_ROLLBACK" => cur = "ROLLBACK"
      PROVE  AllFit'
  <2>1. DOMAIN moved(cur) = known
    BY SMTT(30)
  <2>2. \A i \in known : moved(cur)[i] = IF i = id THEN cur ELSE info.ChildTxInfo[i]
    BY SMTT(30)
  <2> HIDE DEF moved
  <2>3. Fit([GlobalState |-> info.GlobalState, ChildTxInfo |-> moved(cur), Height |-> info.Height], g)
    BY ZenonT(30), <1>4, <1>7, <2>1, <2>2 DEF Fit
  <2> QED BY SMTT(30), <1>0, <1>7, <2>3, EntryFits
<1> HIDE DEF failed, moved
<1> QED BY SMTT(30), <1>2, <1>5, <1>6, <1>7

\* Every step keeps it.
LEMMA FitStep ==
  ASSUME TypeOK, AllFit, [Next]_vars
  PROVE  AllFit'
<1>1. CASE \E id \in TxId : HandleRequest(id)
  BY SMTT(30), <1>1, RequestFits
<1>2. CASE \E id \in TxId, type \in ReceiptType : HandleReceipt(id, type)
  BY SMTT(30), <1>2, ReceiptFits
<1>3. CASE UNCHANGED txInfo
  BY SMTT(30), <1>3 DEF AllFit, Fit
<1>4. CASE CloseBlock
  <2>1. \A g \in Group : txInfo'[g] = IF g \in Due THEN Overdue(txInfo[g]) ELSE txInfo[g]
    BY SMTT(30), <1>4, CloseFacts
  <2>2. \A g \in Group : Fit(Overdue(txInfo[g]), g)
    BY SMTT(30) DEF Fit, Overdue, FinalStatus
  <2>3. \A g \in Group : txInfo'[g] # NoInfo => Fit(txInfo'[g], g)
    BY SMTT(30), <2>1, <2>2 DEF AllFit
  <2> QED BY SMTT(30), <2>3 DEF AllFit, Fit
<1> QED BY SMTT(30), <1>1, <1>2, <1>3, <1>4 DEF Next, Switch, vars

\* Both hold at the start.
LEMMA InitTypeFit ==
  ASSUME Init
  PROVE  TypeOK /\ AllFit
<1>1. NoList \in Seq(Group \cup {""}) /\ <<>> \in Seq(TxId)
  BY SMTT(30), EmptyList DEF NoList
<1>2. 0 \in 0..MaxHeight
  BY SMTT(30), HeightFacts
<1> HIDE DEF NoList
<1>3. TypeOK
  BY ZenonT(30), <1>1, <1>2 DEF Init, TypeOK
<1>4. AllFit
  BY SMTT(30) DEF Init, AllFit
<1> QED BY SMTT(30), <1>3, <1>4

\* In every behaviour the types are right and every entry fits.
LEMMA TypeFit == Spec => [](TypeOK /\ AllFit)
<1>1. Init => TypeOK /\ AllFit
  BY SMTT(30), InitTypeFit
<1>2. TypeOK /\ AllFit /\ [Next]_vars => (TypeOK /\ AllFit)'
  BY SMTT(30), TypeStep, FitStep
<1> QED BY <1>1, <1>2, PTL DEF Spec

\* The types of MultiTx, for any groups, channels and heights.
THEOREM GroupTypeCorrect == Spec => []TypeOK
BY TypeFit, PTL

\* A group and its children are always in states that fit: it commits only when
\* every child was sent and succeeded, and so on (BeginMultiTXs,
\* changeMultiTxStatus, setGlobalTxStatus).
THEOREM StatusesAlwaysFit == Spec => []StatusesFit
<1>1. TypeOK /\ AllFit => StatusesFit
  BY SMTT(30), FitMeans
<1> QED BY <1>1, TypeFit, PTL

-----------------------------------------------------------------------------
(***************************************************************************)
(* The books.  The receipts of a group are counted all at once, when the   *)
(* last of them settles it, and only the last one's index was compared     *)
(* with the counter at that moment.  The counters stay right because of    *)
(* AnsweredInTurn: a child answered while its group is open waits at the   *)
(* place the counter will move to, whatever else happens on its channel.   *)
(***************************************************************************)

\* The children an entry lists have their requests on the ledger, and are counted.
KnownSent ==
  \A g \in Group : \A i \in DOMAIN txInfo[g].ChildTxInfo :
     i \in indexMap /\ i[2] <= interchainCounter[i[1]]

AnsweredInTurn ==
  \A g \in Group : txInfo[g].GlobalState \notin FinalStatus =>
    \A i \in DOMAIN txInfo[g].ChildTxInfo :
       txInfo[g].ChildTxInfo[i] \in FinalStatus => i[2] = receiptCounter[i[1]] + 1

Books == GroupCountersAgree /\ KnownSent /\ AnsweredInTurn

\* A request leaves its group open, and no child it did not find answered is.
LEMMA RequestEntry ==
  ASSUME TypeOK, AllFit, NEW id \in TxId, HandleRequest(id)
  PROVE  LET g == GroupOf(id)
             known == DOMAIN txInfo[g].ChildTxInfo
         IN \E state \in TransactionStatus \ FinalStatus : \E children : \E height :
              /\ Becomes(g, state, children, height)
              /\ txInfo[g].GlobalState \notin FinalStatus
              /\ DOMAIN children \subseteq known \cup {id}
              /\ \A i \in DOMAIN children : children[i] \in FinalStatus =>
                   i \in known /\ txInfo[g].ChildTxInfo[i] \in FinalStatus
<1> DEFINE g == GroupOf(id)
           info == txInfo[g]
           known == DOMAIN info.ChildTxInfo
           Open(state, children) ==
             /\ info.GlobalState \notin FinalStatus
             /\ DOMAIN children \subseteq known \cup {id}
             /\ \A i \in DOMAIN children : children[i] \in FinalStatus =>
                  i \in known /\ info.ChildTxInfo[i] \in FinalStatus
<1>0. g \in Group /\ id \in Children[g] /\ (id[1][2] \in down) \in BOOLEAN
  BY SMTT(30), ChildFacts
<1>1. BeginFirst(g, id, id[1][2] \in down) \/ BeginFurther(g, id, id[1][2] \in down)
  BY DEF HandleRequest
<1>2. /\ "BEGIN" \in TransactionStatus \ FinalStatus
      /\ "BEGIN_FAILURE" \in TransactionStatus \ FinalStatus
  BY DEF TransactionStatus, FinalStatus
<1> HIDE DEF g
<1>3. CASE BeginFirst(g, id, id[1][2] \in down)
  <2>1. PICK state \in {"BEGIN", "BEGIN_FAILURE"}, height \in (currentHeight + 1)..MaxUint64 :
           info = NoInfo /\ Becomes(g, state, [i \in {id} |-> state], height)
    BY ZenonT(30), <1>0, <1>3, FirstFacts
  <2>2. NoInfo.GlobalState \notin FinalStatus
    BY SMTT(30) DEF NoInfo, FinalStatus
  <2>3. state \in TransactionStatus \ FinalStatus
    BY <1>2
  <2>4. Open(state, [i \in {id} |-> state])
    BY SMTT(30), <2>1, <2>2, <2>3
  <2> HIDE DEF info
  <2> QED BY SMTT(30), <2>1, <2>3, <2>4 DEF g, info
<1>4. CASE BeginFurther(g, id, id[1][2] \in down)
  <2> DEFINE failed == [i \in known \cup {id} |-> "BEGIN_FAILURE"]
             joined == [i \in known \cup {id} |-> IF i = id THEN info.GlobalState ELSE info.ChildTxInfo[i]]
  <2>1. /\ info # NoInfo /\ id \notin known
        /\ \/ Becomes(g, "BEGIN_FAILURE", failed, info.Height)
           \/ Becomes(g, info.GlobalState, joined, info.Height)
    BY ZenonT(30), <1>0, <1>4, FurtherFacts
  <2>2. Fit(info, g) /\ info.GlobalState \in TransactionStatus
    BY ZenonT(30), <1>0, <2>1, InfoFacts DEF AllFit
  <2> HIDE DEF info
  <2>3. info.GlobalState \notin FinalStatus
    BY SMTT(30), <1>0, <2>1, <2>2 DEF Fit
  <2>4. Open("BEGIN_FAILURE", failed)
    BY SMTT(30), <1>2, <2>3
  <2>5. Open(info.GlobalState, joined)
    BY SMTT(30), <2>1, <2>3
  <2> HIDE DEF failed, joined
  <2> QED BY ZenonT(30), <1>2, <2>1, <2>2, <2>3, <2>4, <2>5 DEF g, info
<1> QED BY ZenonT(30), <1>1, <1>3, <1>4

\* The books after a request.
LEMMA RequestBooks ==
  ASSUME TypeOK, AllFit, Books, NEW id \in TxId, HandleRequest(id)
  PROVE  Books'
<1> DEFINE g == GroupOf(id)
           known == DOMAIN txInfo[g].ChildTxInfo
<1>0. g \in Group /\ id[1] \in Channel /\ id[2] \in Nat
  BY SMTT(30), ChildFacts
<1>1. /\ id[2] = interchainCounter[id[1]] + 1
      /\ interchainCounter' = [interchainCounter EXCEPT ![id[1]] = @ + 1]
      /\ sourceInterchainCounter' = [sourceInterchainCounter EXCEPT ![id[1]] = id[2]]
      /\ indexMap' = indexMap \cup {id}
      /\ UNCHANGED <<receiptCounter, sourceReceiptCounter, indexReceiptMap, invoked>>
  BY SMTT(30) DEF HandleRequest
<1>2. /\ interchainCounter \in [Channel -> Nat] /\ sourceInterchainCounter \in [Channel -> Nat]
      /\ receiptCounter \in [Channel -> Nat]
  BY ZenonT(30) DEF TypeOK
<1>3. PICK state \in TransactionStatus \ FinalStatus : \E children, height :
        /\ Becomes(g, state, children, height)
        /\ txInfo[g].GlobalState \notin FinalStatus
        /\ DOMAIN children \subseteq known \cup {id}
        /\ \A i \in DOMAIN children : children[i] \in FinalStatus =>
             i \in known /\ txInfo[g].ChildTxInfo[i] \in FinalStatus
  BY ZenonT(30), RequestEntry
<1> HIDE DEF g
<1>4. GroupCountersAgree'
  <2>1. \A c \in Channel : receiptCounter[c] <= interchainCounter'[c]
    BY SMTT(30), <1>0, <1>1, <1>2 DEF Books, GroupCountersAgree
  <2>2. \A c \in Channel : sourceInterchainCounter'[c] = interchainCounter'[c]
    BY SMTT(30), <1>0, <1>1, <1>2 DEF Books, GroupCountersAgree
  <2> QED BY SMTT(30), <1>1, <2>1, <2>2 DEF Books, GroupCountersAgree
<1>5. KnownSent'
  <2>1. \A x \in Group : DOMAIN txInfo'[x].ChildTxInfo \subseteq DOMAIN txInfo[x].ChildTxInfo \cup {id}
    BY SMTT(30), <1>3 DEF Becomes
  <2>2. ASSUME NEW x \in Group, NEW i \in DOMAIN txInfo[x].ChildTxInfo
        PROVE  i \in indexMap' /\ i[2] <= interchainCounter'[i[1]]
    <3>1. i \in indexMap /\ i[2] <= interchainCounter[i[1]]
      BY SMTT(30) DEF Books, KnownSent
    <3>2. i \in TxId
      BY ZenonT(30), <3>1 DEF TypeOK
    <3>3. i[1] \in Channel /\ i[2] \in Nat
      BY SMTT(30), <3>2, ChildFacts
    <3> QED BY SMTT(30), <1>0, <1>1, <1>2, <3>1, <3>3
  <2>3. id \in indexMap' /\ id[2] <= interchainCounter'[id[1]]
    BY SMTT(30), <1>0, <1>1, <1>2
  <2> QED BY SMTT(30), <2>1, <2>2, <2>3 DEF KnownSent
<1>6. AnsweredInTurn'
  BY SMTT(30), <1>1, <1>3 DEF Becomes, Books, AnsweredInTurn
<1> QED BY SMTT(30), <1>4, <1>5, <1>6 DEF Books

\* What a receipt does to the counters: nothing while its group stays open, and one
\* step on the channel of every child when it settles the group.
LEMMA AnswerCounters ==
  ASSUME TypeOK, NEW g \in Group, NEW id \in Children[g], ProcessAnswer(g, id)
  PROVE  LET known == DOMAIN txInfo[g].ChildTxInfo
             Moves(c) == /\ receiptCounter'[c] = receiptCounter[c] + 1
                         /\ sourceReceiptCounter'[c] = receiptCounter[c] + 1
                         /\ invoked'[c] = invoked[c] + 1
             Stays(c) == /\ receiptCounter'[c] = receiptCounter[c]
                         /\ sourceReceiptCounter'[c] = sourceReceiptCounter[c]
                         /\ invoked'[c] = invoked[c]
         IN /\ txInfo'[g].GlobalState \notin FinalStatus => \A c \in Channel : Stays(c)
            /\ /\ txInfo'[g].GlobalState \in FinalStatus
               /\ \A i \in known : i[2] = receiptCounter[i[1]] + 1
               => \A c \in Channel :
                    /\ (\E i \in known : i[1] = c) => Moves(c)
                    /\ ~(\E i \in known : i[1] = c) => Stays(c)
<1> DEFINE known == DOMAIN txInfo[g].ChildTxInfo
           counted == {i \in known : txInfo'[g].GlobalState \in FinalStatus}
           IndexOn(c) == (CHOOSE i \in counted : i[1] = c)[2]
<1>1. \A c \in Channel :
        /\ receiptCounter'[c] = IF \E i \in counted : i[1] = c THEN IndexOn(c) ELSE receiptCounter[c]
        /\ sourceReceiptCounter'[c] =
             IF \E i \in counted : i[1] = c THEN IndexOn(c) ELSE sourceReceiptCounter[c]
        /\ invoked'[c] = IF \E i \in counted : i[1] = c THEN invoked[c] + 1 ELSE invoked[c]
  BY SMTT(30) DEF ProcessAnswer
<1>2. ASSUME txInfo'[g].GlobalState \notin FinalStatus
      PROVE  counted = {}
  BY <1>2
<1>3. ASSUME txInfo'[g].GlobalState \in FinalStatus
      PROVE  counted = known
  BY <1>3
<1>4. ASSUME counted = known, \A i \in known : i[2] = receiptCounter[i[1]] + 1,
             NEW c \in Channel, \E i \in known : i[1] = c
      PROVE  IndexOn(c) = receiptCounter[c] + 1
  BY SMTT(30), <1>4
<1> HIDE DEF counted, known, IndexOn
<1> QED BY ZenonT(30), <1>1, <1>2, <1>3, <1>4 DEF known

\* The books after a receipt that leaves its group open.
LEMMA OpenReceiptBooks ==
  ASSUME TypeOK, AllFit, Books, NEW id \in TxId, NEW type \in ReceiptType, HandleReceipt(id, type),
         NEW state, NEW children, NEW height, Becomes(GroupOf(id), state, children, height),
         txInfo[GroupOf(id)].GlobalState \notin FinalStatus, state \notin FinalStatus,
         DOMAIN children = DOMAIN txInfo[GroupOf(id)].ChildTxInfo,
         \A i \in DOMAIN children : children[i] \in FinalStatus =>
            i = id \/ txInfo[GroupOf(id)].ChildTxInfo[i] \in FinalStatus
  PROVE  Books'
<1> DEFINE g == GroupOf(id)
<1>0. g \in Group /\ id \in Children[g]
  BY SMTT(30), ChildFacts
<1>1. /\ id[2] = receiptCounter[id[1]] + 1 /\ id \in DOMAIN txInfo[g].ChildTxInfo
      /\ ProcessAnswer(g, id)
  BY ZenonT(30) DEF HandleReceipt, AnswerPasses
<1>2. /\ UNCHANGED <<interchainCounter, sourceInterchainCounter, indexMap>>
      /\ indexReceiptMap' = indexReceiptMap \cup {id}
  BY ZenonT(30), <1>1 DEF ProcessAnswer
<1>3. txInfo'[g].GlobalState = state /\ txInfo'[g].ChildTxInfo = children
  BY SMTT(30) DEF Becomes
<1>4. \A c \in Channel : /\ receiptCounter'[c] = receiptCounter[c]
                         /\ sourceReceiptCounter'[c] = sourceReceiptCounter[c]
                         /\ invoked'[c] = invoked[c]
  BY ZenonT(30), <1>0, <1>1, <1>3, AnswerCounters
<1>5. id \in indexMap
  BY ZenonT(30), <1>0, <1>1 DEF Books, KnownSent
<1>6. GroupCountersAgree'
  <2>1. GroupCountersAgree
    BY ZenonT(30) DEF Books
  <2>2. indexReceiptMap' \subseteq indexMap'
    BY ZenonT(30), <1>2, <1>5, <2>1 DEF GroupCountersAgree
  <2>3. \A c \in Channel : /\ interchainCounter'[c] = interchainCounter[c]
                          /\ sourceInterchainCounter'[c] = sourceInterchainCounter[c]
    BY ZenonT(30), <1>2
  <2> QED BY ZenonT(30), <1>4, <2>1, <2>2, <2>3 DEF GroupCountersAgree
<1> HIDE DEF g
<1>7. \A x \in Group : DOMAIN txInfo'[x].ChildTxInfo = DOMAIN txInfo[x].ChildTxInfo
  BY SMTT(30), <1>3 DEF Becomes, g
<1>8. KnownSent'
  BY ZenonT(30), <1>2, <1>7 DEF Books, KnownSent
<1>9. \A x \in Group : \A i \in DOMAIN txInfo[x].ChildTxInfo : i[1] \in Channel
  <2>1. \A x \in Group : DOMAIN txInfo[x].ChildTxInfo \subseteq TxId
    BY ZenonT(30), InfoFacts, SomeChildren
  <2> QED BY SMTT(30), <2>1, ChildFacts
<1>10. AnsweredInTurn'
  <2> SUFFICES ASSUME NEW x \in Group, txInfo'[x].GlobalState \notin FinalStatus,
                      NEW i \in DOMAIN txInfo[x].ChildTxInfo, txInfo'[x].ChildTxInfo[i] \in FinalStatus
               PROVE  i[2] = receiptCounter'[i[1]] + 1
    BY ZenonT(30), <1>7 DEF AnsweredInTurn
  <2>1. i[2] = receiptCounter[i[1]] + 1
    <3>1. CASE x = g
      BY ZenonT(30), <3>1, <1>1, <1>3 DEF Books, AnsweredInTurn, g
    <3>2. CASE x # g
      BY ZenonT(30), <3>2 DEF Becomes, Books, AnsweredInTurn, g
    <3> QED BY ZenonT(30), <3>1, <3>2
  <2> QED BY SMTT(30), <2>1, <1>4, <1>9
<1> QED BY SMTT(30), <1>6, <1>8, <1>10 DEF Books

\* The books after the receipt that settles a group: every child of it stands right
\* behind the counter of its channel, so the counters make one step each, and a
\* child of another group that waits for its turn is not on those channels.
LEMMA SettlingBooks ==
  ASSUME TypeOK, AllFit, Books, NEW id \in TxId, NEW type \in ReceiptType, HandleReceipt(id, type),
         NEW cur \in FinalStatus, NEW children, NEW height,
         Becomes(GroupOf(id), cur, children, height),
         txInfo[GroupOf(id)].GlobalState \notin FinalStatus,
         DOMAIN children = DOMAIN txInfo[GroupOf(id)].ChildTxInfo,
         \A i \in DOMAIN children : i = id \/ txInfo[GroupOf(id)].ChildTxInfo[i] \in FinalStatus
  PROVE  Books'
<1> DEFINE g == GroupOf(id)
           known == DOMAIN txInfo[g].ChildTxInfo
<1>0. g \in Group /\ id \in Children[g] /\ known \subseteq Children[g]
  BY SMTT(30), ChildFacts, InfoFacts
<1>1. /\ id[2] = receiptCounter[id[1]] + 1 /\ id \in known
      /\ ProcessAnswer(g, id)
  BY ZenonT(30) DEF HandleReceipt, AnswerPasses
<1>2. /\ UNCHANGED <<interchainCounter, sourceInterchainCounter, indexMap>>
      /\ indexReceiptMap' = indexReceiptMap \cup {id}
  BY ZenonT(30), <1>1 DEF ProcessAnswer
<1>3. txInfo'[g].GlobalState = cur /\ txInfo'[g].ChildTxInfo = children
  BY SMTT(30) DEF Becomes
<1>4. \A i \in known : i[2] = receiptCounter[i[1]] + 1
  BY ZenonT(30), <1>0, <1>1 DEF Books, AnsweredInTurn
<1>5. \A c \in Channel :
        /\ (\E i \in known : i[1] = c) =>
             /\ receiptCounter'[c] = receiptCounter[c] + 1
             /\ sourceReceiptCounter'[c] = receiptCounter[c] + 1
             /\ invoked'[c] = invoked[c] + 1
        /\ ~(\E i \in known : i[1] = c) =>
             /\ receiptCounter'[c] = receiptCounter[c]
             /\ sourceReceiptCounter'[c] = sourceReceiptCounter[c]
             /\ invoked'[c] = invoked[c]
  BY ZenonT(30), <1>0, <1>1, <1>3, <1>4, AnswerCounters
<1> HIDE DEF g
<1>6. GroupCountersAgree'
  <2>1. indexReceiptMap' \subseteq indexMap'
    BY ZenonT(30), <1>0, <1>1, <1>2 DEF Books, GroupCountersAgree, KnownSent
  <2>2. ASSUME NEW c \in Channel
        PROVE  /\ sourceReceiptCounter'[c] = receiptCounter'[c]
               /\ invoked'[c] = receiptCounter'[c]
               /\ receiptCounter'[c] <= interchainCounter[c]
    <3>1. /\ sourceReceiptCounter[c] = receiptCounter[c] /\ invoked[c] = receiptCounter[c]
          /\ receiptCounter[c] <= interchainCounter[c]
      BY ZenonT(30) DEF Books, GroupCountersAgree
    <3>2. \A i \in known : i[2] <= interchainCounter[i[1]]
      BY ZenonT(30), <1>0 DEF Books, KnownSent
    <3>3. CASE \E i \in known : i[1] = c
      <4>1. receiptCounter[c] + 1 <= interchainCounter[c]
        BY ZenonT(30), <3>2, <3>3, <1>4
      <4> QED BY ZenonT(30), <3>1, <3>3, <4>1, <1>5
    <3>4. CASE ~\E i \in known : i[1] = c
      BY ZenonT(30), <3>1, <3>4, <1>5
    <3> QED BY ZenonT(30), <3>3, <3>4
  <2> QED BY ZenonT(30), <1>2, <2>1, <2>2 DEF Books, GroupCountersAgree
<1>7. \A x \in Group : DOMAIN txInfo'[x].ChildTxInfo = DOMAIN txInfo[x].ChildTxInfo
  BY ZenonT(30), <1>3 DEF Becomes, g
<1>8. KnownSent'
  BY ZenonT(30), <1>2, <1>7 DEF Books, KnownSent
<1>9. AnsweredInTurn'
  <2> SUFFICES ASSUME NEW x \in Group, txInfo'[x].GlobalState \notin FinalStatus,
                      NEW i \in DOMAIN txInfo[x].ChildTxInfo, txInfo'[x].ChildTxInfo[i] \in FinalStatus
               PROVE  i[2] = receiptCounter'[i[1]] + 1
    BY SMTT(30), <1>7 DEF AnsweredInTurn
  <2>1. x # g
    BY ZenonT(30), <1>3
  <2>2. i[2] = receiptCounter[i[1]] + 1
    BY ZenonT(30), <2>1 DEF Becomes, Books, AnsweredInTurn, g
  <2>3. i \in Children[x] /\ i \in TxId
    BY ZenonT(30), InfoFacts, OneGroupOnly
  <2>4. i[1] \in Channel /\ i = <<i[1], i[2]>>
    BY ZenonT(30), <2>3, ChildFacts
  <2>5. ~\E j \in known : j[1] = i[1]
    <3> SUFFICES ASSUME NEW j \in known, j[1] = i[1] PROVE FALSE
      BY ZenonT(30)
    <3>1. j \in TxId /\ j \in Children[g]
      BY ZenonT(30), <1>0, OneGroupOnly
    <3>2. j = <<j[1], j[2]>>
      BY ZenonT(30), <3>1, ChildFacts
    <3>3. j[2] = i[2]
      BY ZenonT(30), <1>4, <2>2
    <3>4. j = i
      BY SMTT(30), <2>4, <3>2, <3>3
    <3>5. GroupOf(i) = g /\ GroupOf(i) = x
      BY ZenonT(30), <1>0, <2>3, <3>1, <3>4, OneGroupOnly
    <3> QED BY SMTT(30), <2>1, <3>5
  <2> QED BY ZenonT(30), <1>5, <2>2, <2>4, <2>5
<1> QED BY SMTT(30), <1>6, <1>8, <1>9 DEF Books

\* The books after a receipt.
LEMMA ReceiptBooks ==
  ASSUME TypeOK, AllFit, Books, NEW id \in TxId, NEW type \in ReceiptType, HandleReceipt(id, type)
  PROVE  Books'
<1> DEFINE g == GroupOf(id)
           info == txInfo[g]
           known == DOMAIN info.ChildTxInfo
           moved(cur) == [info.ChildTxInfo EXCEPT ![id] = cur]
           failed == [i \in known |-> IF i = id THEN "FAILURE" ELSE "BEGIN_FAILURE"]
<1>0. g \in Group /\ id \in Children[g]
  BY SMTT(30), ChildFacts
<1>1. id \in known /\ (FailGroup(g, id, type) \/ MoveChild(g, id, type))
  BY ZenonT(30) DEF HandleReceipt
<1>2. \/ info.GlobalState = "BEGIN" /\ Becomes(g, "BEGIN_FAILURE", failed, info.Height)
      \/ \E cur \in FinalStatus :
           /\ info.GlobalState \notin FinalStatus
           /\ \A i \in known : moved(cur)[i] = cur
           /\ Becomes(g, cur, moved(cur), info.Height)
      \/ \E cur \in FinalStatus :
           /\ Becomes(g, info.GlobalState, moved(cur), info.Height)
           /\ info.GlobalState \notin FinalStatus
  BY ZenonT(30), <1>0, <1>1, ReceiptFacts
<1>3. CASE info.GlobalState = "BEGIN" /\ Becomes(g, "BEGIN_FAILURE", failed, info.Height)
  <2>1. "BEGIN" \notin FinalStatus /\ "BEGIN_FAILURE" \notin FinalStatus
    BY SMTT(30) DEF FinalStatus
  <2>2. DOMAIN failed = known /\ \A i \in known : failed[i] \in FinalStatus => i = id
    BY <2>1
  <2> HIDE DEF failed
  <2> QED BY ZenonT(30), <1>3, <2>1, <2>2, OpenReceiptBooks
<1>4. ASSUME NEW cur \in FinalStatus, info.GlobalState \notin FinalStatus,
             \A i \in known : moved(cur)[i] = cur, Becomes(g, cur, moved(cur), info.Height)
      PROVE  Books'
  <2>1. DOMAIN moved(cur) = known /\ \A i \in known : i # id => moved(cur)[i] = info.ChildTxInfo[i]
    BY SMTT(30)
  <2> HIDE DEF moved
  <2>2. \A i \in known : i = id \/ info.ChildTxInfo[i] \in FinalStatus
    BY ZenonT(30), <1>4, <2>1
  <2> QED BY ZenonT(30), <1>4, <2>1, <2>2, SettlingBooks
<1>5. ASSUME NEW cur \in FinalStatus, info.GlobalState \notin FinalStatus,
             Becomes(g, info.GlobalState, moved(cur), info.Height)
      PROVE  Books'
  <2>1. DOMAIN moved(cur) = known /\ \A i \in known : i # id => moved(cur)[i] = info.ChildTxInfo[i]
    BY SMTT(30)
  <2> HIDE DEF moved
  <2>2. \A i \in known : moved(cur)[i] \in FinalStatus => i = id \/ info.ChildTxInfo[i] \in FinalStatus
    BY ZenonT(30), <2>1
  <2> QED BY ZenonT(30), <1>5, <2>1, <2>2, OpenReceiptBooks
<1> HIDE DEF g, info, moved, failed
<1> QED BY ZenonT(30), <1>2, <1>3, <1>4, <1>5

\* Every step keeps the books.
LEMMA BooksStep ==
  ASSUME TypeOK, AllFit, Books, [Next]_vars
  PROVE  Books'
<1>1. CASE \E id \in TxId : HandleRequest(id)
  BY SMTT(30), <1>1, RequestBooks
<1>2. CASE \E id \in TxId, type \in ReceiptType : HandleReceipt(id, type)
  BY SMTT(30), <1>2, ReceiptBooks
<1>3. CASE UNCHANGED <<txInfo, counters>>
  BY SMTT(30), <1>3 DEF Books, GroupCountersAgree, KnownSent, AnsweredInTurn, counters
<1>4. CASE CloseBlock
  <2>1. /\ \A g \in Group : txInfo'[g] = IF g \in Due THEN Overdue(txInfo[g]) ELSE txInfo[g]
        /\ UNCHANGED counters
    BY SMTT(30), <1>4, CloseFacts
  <2>2. GroupCountersAgree'
    BY SMTT(30), <2>1 DEF Books, GroupCountersAgree, counters
  <2>3. \A g \in Group : DOMAIN txInfo'[g].ChildTxInfo = DOMAIN txInfo[g].ChildTxInfo
    BY SMTT(30), <2>1, OverdueFacts
  <2>4. KnownSent'
    BY SMTT(30), <2>1, <2>3 DEF Books, KnownSent, counters
  <2>5. \A g \in Group : \A i \in DOMAIN txInfo[g].ChildTxInfo :
           g \in Due => txInfo'[g].ChildTxInfo[i] \notin FinalStatus
    BY SMTT(30), <2>1, OverdueFacts DEF FinalStatus
  <2>6. AnsweredInTurn'
    BY SMTT(30), <2>1, <2>3, <2>5 DEF Books, AnsweredInTurn, counters
  <2> QED BY <2>2, <2>4, <2>6 DEF Books
<1> QED BY SMTT(30), <1>1, <1>2, <1>3, <1>4 DEF Next, Switch, vars

\* The books of both ends of every channel agree, and a counter of receipts moves by
\* one invocation at a time, though the receipts of a group are counted together
\* (handleMultiIbtpInterchain).
THEOREM GroupBooks == Spec => []GroupCountersAgree
<1>1. Init => Books
  <2>1. ASSUME Init PROVE KnownSent /\ AnsweredInTurn
    <3>1. NoInfo.ChildTxInfo = <<>> /\ DOMAIN <<>> = {}
      BY SMTT(30) DEF NoInfo
    <3>2. \A g \in Group : txInfo[g] = NoInfo
      BY <2>1 DEF Init
    <3> QED BY SMTT(30), <3>1, <3>2 DEF KnownSent, AnsweredInTurn
  <2>2. ASSUME Init PROVE GroupCountersAgree
    <3>1. \A c \in Channel :
            /\ interchainCounter[c] = 0 /\ receiptCounter[c] = 0 /\ invoked[c] = 0
            /\ sourceInterchainCounter[c] = 0 /\ sourceReceiptCounter[c] = 0
      BY SMTT(30), <2>2 DEF Init
    <3>2. indexReceiptMap \subseteq indexMap
      BY SMTT(30), <2>2 DEF Init
    <3> QED BY SMTT(30), <3>1, <3>2 DEF GroupCountersAgree
  <2> QED BY SMTT(30), <2>1, <2>2 DEF Books
<1>2. TypeOK /\ AllFit /\ Books /\ [Next]_vars => Books'
  BY BooksStep
<1>3. Books => GroupCountersAgree
  BY DEF Books
<1> QED BY <1>1, <1>2, <1>3, TypeFit, PTL DEF Spec

=============================================================================
