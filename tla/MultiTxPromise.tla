--------------------------- MODULE MultiTxPromise ---------------------------
(***************************************************************************)
(* MultiTx implements CrossTx, for every set of groups, children, channels *)
(* and heights.                                                            *)
(***************************************************************************)
EXTENDS MultiTxProofs

-----------------------------------------------------------------------------
(***************************************************************************)
(* The timeout lists of the blocks to come name open groups only, each of  *)
(* them once and at its own height: a group leaves its list when it leaves *)
(* BEGIN.  Without this, the end of a block would take back a verdict.     *)
(***************************************************************************)
Listed(list, h) ==
  \A k \in 1..Len(list) : list[k] # "" =>
    /\ txInfo[list[k]].GlobalState = "BEGIN" /\ txInfo[list[k]].Height = h
    /\ \A l \in 1..Len(list) : list[l] = list[k] => l = k

OnTime == \A h \in 0..MaxUint64 : currentHeight < h => Listed(timeoutList[h], h)

\* The changes of the lists.
TakenOff(g) == timeoutList' = [timeoutList EXCEPT ![txInfo[g].Height] = RemoveFromTimeoutList(@, g)]

PutOn(g, height) == timeoutList' = [timeoutList EXCEPT ![height] = Append(@, g)]

\* The lists are sequences of groups and empty strings.
LEMMA ListFacts ==
  ASSUME TypeOK, NEW h \in 0..MaxUint64
  PROVE  /\ timeoutList[h] \in Seq(Entry)
         /\ \A k \in 1..Len(timeoutList[h]) : timeoutList[h][k] # "" => timeoutList[h][k] \in Group
<1>1. timeoutList[h] \in Seq(Entry)
  BY ZenonT(30) DEF TypeOK, Entry
<1>2. \A k \in 1..Len(timeoutList[h]) : timeoutList[h][k] \in Entry
  BY <1>1, Held
<1> QED BY ZenonT(30), <1>1, <1>2 DEF Entry

\* What has to be shown of a step.
LEMMA OnTimeNext ==
  ASSUME \A h \in 0..MaxUint64 : currentHeight' < h =>
           \A k \in 1..Len(timeoutList'[h]) : timeoutList'[h][k] # "" =>
             /\ txInfo'[timeoutList'[h][k]].GlobalState = "BEGIN"
             /\ txInfo'[timeoutList'[h][k]].Height = h
             /\ \A l \in 1..Len(timeoutList'[h]) : timeoutList'[h][l] = timeoutList'[h][k] => l = k
  PROVE  OnTime'
BY ZenonT(30) DEF OnTime, Listed

\* A group that stays as it was, or that is on no list, changes nothing.
LEMMA StaysOnTime ==
  ASSUME TypeOK, OnTime, NEW g \in Group, NEW state, NEW children, NEW height,
         Becomes(g, state, children, height), timeoutList' = timeoutList,
         currentHeight' = currentHeight,
         \/ state = txInfo[g].GlobalState /\ height = txInfo[g].Height
         \/ txInfo[g].GlobalState # "BEGIN"
  PROVE  OnTime'
<1>1. ASSUME NEW h \in 0..MaxUint64, currentHeight < h
      PROVE  \A k \in 1..Len(timeoutList[h]) : timeoutList[h][k] # "" =>
               /\ txInfo'[timeoutList[h][k]].GlobalState = "BEGIN"
               /\ txInfo'[timeoutList[h][k]].Height = h
               /\ \A l \in 1..Len(timeoutList[h]) : timeoutList[h][l] = timeoutList[h][k] => l = k
  <2> DEFINE list == timeoutList[h]
  <2>1. Listed(list, h) /\ \A k \in 1..Len(list) : list[k] # "" => list[k] \in Group
    BY ZenonT(30), <1>1, ListFacts DEF OnTime
  <2> HIDE DEF list
  <2>2. \A x \in Group : x # g => txInfo'[x] = txInfo[x]
    BY SMTT(30) DEF Becomes
  <2>3. txInfo'[g].GlobalState = state /\ txInfo'[g].Height = height
    BY SMTT(30) DEF Becomes
  <2>4. \A x \in Group : txInfo[x].GlobalState = "BEGIN" =>
          txInfo'[x].GlobalState = txInfo[x].GlobalState /\ txInfo'[x].Height = txInfo[x].Height
    BY SMTT(30), <2>2, <2>3
  <2>5. \A k \in 1..Len(list) : list[k] # "" => list[k] \in Group /\ txInfo[list[k]].GlobalState = "BEGIN"
    BY ZenonT(30), <2>1 DEF Listed
  <2>6. \A k \in 1..Len(list) : list[k] # "" =>
          /\ txInfo'[list[k]].GlobalState = txInfo[list[k]].GlobalState
          /\ txInfo'[list[k]].Height = txInfo[list[k]].Height
    BY ZenonT(30), <2>4, <2>5
  <2>7. \A k \in 1..Len(list) : list[k] # "" =>
          /\ txInfo'[list[k]].GlobalState = "BEGIN" /\ txInfo'[list[k]].Height = h
          /\ \A l \in 1..Len(list) : list[l] = list[k] => l = k
    BY ZenonT(30), <2>1, <2>6 DEF Listed
  <2> QED BY ZenonT(30), <2>7 DEF list
<1> QED BY ZenonT(30), <1>1, OnTimeNext

\* A group that leaves BEGIN is taken off its list.
LEMMA LeavesInTime ==
  ASSUME TypeOK, OnTime, NEW g \in Group, NEW state, NEW children,
         Becomes(g, state, children, txInfo[g].Height), currentHeight' = currentHeight, TakenOff(g)
  PROVE  OnTime'
<1>0. txInfo[g].Height \in 0..MaxUint64 /\ timeoutList \in [0..MaxUint64 -> Seq(Entry)]
  BY ZenonT(30), InfoFacts DEF TypeOK, Entry
<1>1. \A x \in Group : x # g => txInfo'[x] = txInfo[x]
  BY SMTT(30) DEF Becomes
<1>2. "" # g
  BY ZenonT(30), MultiTxAssumption
<1>3. ASSUME NEW h \in 0..MaxUint64, currentHeight < h
      PROVE  \A k \in 1..Len(timeoutList'[h]) : timeoutList'[h][k] # "" =>
               /\ txInfo'[timeoutList'[h][k]].GlobalState = "BEGIN"
               /\ txInfo'[timeoutList'[h][k]].Height = h
               /\ \A l \in 1..Len(timeoutList'[h]) :
                    timeoutList'[h][l] = timeoutList'[h][k] => l = k
  <2> DEFINE old == timeoutList[h]
             new == timeoutList'[h]
  <2>1. old \in Seq(Entry) /\ \A j \in 1..Len(old) : old[j] # "" => old[j] \in Group
    BY ZenonT(30), ListFacts
  <2>2. Listed(old, h)
    BY SMTT(30), <1>3 DEF OnTime
  <2>3. h # txInfo[g].Height => new = old
    BY SMTT(30), <1>0 DEF TakenOff
  <2>4. h = txInfo[g].Height => new = RemoveFromTimeoutList(old, g)
    BY SMTT(30), <1>0 DEF TakenOff
  <2> HIDE DEF old, new
  <2>5. CASE h # txInfo[g].Height
    <3>1. \A j \in 1..Len(old) : old[j] # "" => old[j] \in Group /\ old[j] # g
      BY ZenonT(30), <2>1, <2>2, <2>5 DEF Listed
    <3>2. \A k \in 1..Len(old) : old[k] # "" =>
            /\ txInfo'[old[k]].GlobalState = txInfo[old[k]].GlobalState
            /\ txInfo'[old[k]].Height = txInfo[old[k]].Height
      BY ZenonT(30), <3>1, <1>1
    <3>3. \A k \in 1..Len(old) : old[k] # "" =>
            /\ txInfo'[old[k]].GlobalState = "BEGIN" /\ txInfo'[old[k]].Height = h
            /\ \A l \in 1..Len(old) : old[l] = old[k] => l = k
      BY ZenonT(30), <2>2, <3>2 DEF Listed
    <3> QED BY ZenonT(30), <2>3, <2>5, <3>3 DEF new
  <2>6. CASE h = txInfo[g].Height
    <3>1. \A i, j \in 1..Len(old) : old[i] = g /\ old[j] = g => i = j
      BY ZenonT(30), <1>2, <2>2 DEF Listed
    <3>2. LeftOver(old, g, new)
      BY ZenonT(30), <2>1, <2>4, <2>6, <3>1, RemoveFacts
    <3> SUFFICES ASSUME NEW k \in 1..Len(new), new[k] # ""
                 PROVE  /\ txInfo'[new[k]].GlobalState = "BEGIN" /\ txInfo'[new[k]].Height = h
                        /\ \A l \in 1..Len(new) : new[l] = new[k] => l = k
      BY ZenonT(30) DEF new
    <3>3. ASSUME NEW l \in 1..Len(new), new[l] = new[k]
          PROVE  l = k
      <4>1. PICK a \in 1..Len(old), b \in 1..Len(old) :
              old[a] = new[k] /\ old[b] = new[l] /\ (a = b => k = l)
        BY ZenonT(30), <3>2, <3>3 DEF LeftOver
      <4>2. a = b
        BY ZenonT(30), <4>1, <3>3, <2>2 DEF Listed
      <4> QED BY ZenonT(30), <4>1, <4>2
    <3>4. new[k] # g /\ \E a \in 1..Len(old) : old[a] = new[k]
      BY ZenonT(30), <3>2 DEF LeftOver
    <3>5. new[k] \in Group /\ txInfo[new[k]].GlobalState = "BEGIN" /\ txInfo[new[k]].Height = h
      BY ZenonT(30), <3>4, <2>1, <2>2 DEF Listed
    <3>6. txInfo'[new[k]] = txInfo[new[k]]
      BY ZenonT(30), <3>4, <3>5, <1>1
    <3> QED BY ZenonT(30), <3>3, <3>5, <3>6
  <2> QED BY ZenonT(30), <2>5, <2>6
<1> QED BY ZenonT(30), <1>3, OnTimeNext

\* The positions of a list that is longer by one.
LEMMA OneMore ==
  ASSUME NEW m \in Nat, NEW n, n = m + 1
  PROVE  \A l \in 1..n : l # m + 1 => l \in 1..m
BY SMTT(30)

\* A group that begins is put on the list of its height.
LEMMA EntersInTime ==
  ASSUME TypeOK, OnTime, NEW g \in Group, NEW children, NEW height \in 0..MaxUint64,
         txInfo[g] = NoInfo, Becomes(g, "BEGIN", children, height),
         currentHeight' = currentHeight, PutOn(g, height)
  PROVE  OnTime'
<1>0. timeoutList \in [0..MaxUint64 -> Seq(Entry)] /\ g \in Entry
  BY ZenonT(30) DEF TypeOK, Entry
<1>1. \A x \in Group : x # g => txInfo'[x] = txInfo[x]
  BY SMTT(30) DEF Becomes
<1>2. "" # g /\ txInfo[g].GlobalState # "BEGIN"
  <2>1. "" # g
    BY ZenonT(30), MultiTxAssumption
  <2>2. NoInfo.GlobalState = "none"
    BY SMTT(30) DEF NoInfo
  <2> QED BY ZenonT(30), <2>1, <2>2
<1>3. txInfo'[g].GlobalState = "BEGIN" /\ txInfo'[g].Height = height
  BY SMTT(30) DEF Becomes
<1>4. ASSUME NEW h \in 0..MaxUint64, currentHeight < h
      PROVE  \A k \in 1..Len(timeoutList'[h]) : timeoutList'[h][k] # "" =>
               /\ txInfo'[timeoutList'[h][k]].GlobalState = "BEGIN"
               /\ txInfo'[timeoutList'[h][k]].Height = h
               /\ \A l \in 1..Len(timeoutList'[h]) :
                    timeoutList'[h][l] = timeoutList'[h][k] => l = k
  <2> DEFINE old == timeoutList[h]
             new == timeoutList'[h]
  <2>1. old \in Seq(Entry) /\ \A j \in 1..Len(old) : old[j] # "" => old[j] \in Group
    BY ZenonT(30), ListFacts
  <2>2. Listed(old, h)
    BY SMTT(30), <1>4 DEF OnTime
  <2>3. h # height => new = old
    BY SMTT(30), <1>0 DEF PutOn
  <2>4. h = height => new = Append(old, g)
    BY SMTT(30), <1>0 DEF PutOn
  <2>5. Len(old) \in Nat
    BY ZenonT(30), <2>1, Counted
  <2> HIDE DEF old, new
  <2>6. \A k \in 1..Len(old) : old[k] # g
    BY ZenonT(30), <1>2, <2>2 DEF Listed
  <2>7. \A k \in 1..Len(old) : old[k] # "" =>
          /\ txInfo'[old[k]].GlobalState = txInfo[old[k]].GlobalState
          /\ txInfo'[old[k]].Height = txInfo[old[k]].Height
    BY ZenonT(30), <1>1, <2>1, <2>6
  <2>8. \A k \in 1..Len(old) : old[k] # "" =>
          /\ txInfo'[old[k]].GlobalState = "BEGIN" /\ txInfo'[old[k]].Height = h
          /\ \A l \in 1..Len(old) : old[l] = old[k] => l = k
    BY ZenonT(30), <2>2, <2>7 DEF Listed
  <2>9. CASE h # height
    BY ZenonT(30), <2>3, <2>8, <2>9 DEF new
  <2>10. CASE h = height
    <3>1. new = Append(old, g)
      BY SMTT(30), <2>4, <2>10
    <3>2. /\ Len(new) = Len(old) + 1 /\ new[Len(old) + 1] = g
          /\ \A i \in 1..Len(old) : new[i] = old[i]
      <4>1. old \in Seq(Entry) /\ g \in Entry
        BY ZenonT(30), <1>0, <2>1
      <4>2. /\ Len(Append(old, g)) = Len(old) + 1 /\ Append(old, g)[Len(old) + 1] = g
            /\ \A i \in 1..Len(old) : Append(old, g)[i] = old[i]
        BY SMTT(30), <4>1, Appended
      <4> QED BY SMTT(30), <3>1, <4>2
    <3> SUFFICES ASSUME NEW k \in 1..Len(new), new[k] # ""
                 PROVE  /\ txInfo'[new[k]].GlobalState = "BEGIN" /\ txInfo'[new[k]].Height = h
                        /\ \A l \in 1..Len(new) : new[l] = new[k] => l = k
      BY ZenonT(30) DEF new
    <3>3. \A l \in 1..Len(new) : l # Len(old) + 1 => l \in 1..Len(old)
      BY ZenonT(30), <2>5, <3>2, OneMore
    <3>4. CASE k = Len(old) + 1
      <4>1. new[k] = g
        BY ZenonT(30), <3>2, <3>4
      <4>2. \A l \in 1..Len(new) : l # k => new[l] # g
        BY ZenonT(30), <2>6, <3>2, <3>3, <3>4
      <4> QED BY ZenonT(30), <1>3, <2>10, <4>1, <4>2
    <3>5. CASE k # Len(old) + 1
      <4>1. k \in 1..Len(old) /\ new[k] = old[k] /\ new[k] # g
        BY ZenonT(30), <2>6, <3>2, <3>3, <3>5
      <4>2. \A l \in 1..Len(new) : new[l] = new[k] => l \in 1..Len(old) /\ old[l] = old[k]
        BY ZenonT(30), <3>2, <3>3, <4>1
      <4> QED BY ZenonT(30), <2>8, <4>1, <4>2
    <3> QED BY ZenonT(30), <3>4, <3>5
  <2> QED BY ZenonT(30), <2>9, <2>10
<1> QED BY ZenonT(30), <1>4, OnTimeNext

\* The groups that are due are open.
LEMMA DueIsOpen ==
  ASSUME TypeOK, OnTime, CloseBlock, NEW g \in Group, g \in Due
  PROVE  txInfo[g].GlobalState = "BEGIN" /\ txInfo[g].Height = currentHeight + 1
<1>1. Number \in 0..MaxUint64 /\ currentHeight < Number /\ Number = currentHeight + 1
  BY SMTT(30), NowFacts, HeightFacts DEF Number
<1>2. Listed(timeoutList[Number], Number) /\ timeoutList[Number] \in Seq(Entry)
  BY ZenonT(30), <1>1, ListFacts DEF OnTime
<1> DEFINE list == timeoutList[Number]
<1>3. g \in {list[i] : i \in DOMAIN list} /\ g # ""
  BY ZenonT(30), MultiTxAssumption DEF Due, GetTimeoutList
<1> HIDE DEF list
<1>4. \E k \in 1..Len(list) : list[k] = g
  <2>1. DOMAIN list = 1..Len(list)
    BY SMTT(30), <1>2, Counted DEF list
  <2> QED BY ZenonT(30), <1>3, <2>1
<1>5. txInfo[g].GlobalState = "BEGIN" /\ txInfo[g].Height = Number
  BY ZenonT(30), <1>2, <1>3, <1>4 DEF Listed, list
<1> QED BY SMTT(30), <1>1, <1>5

\* At the end of a block the groups on later lists are left alone.
LEMMA ClosesInTime ==
  ASSUME TypeOK, OnTime, CloseBlock
  PROVE  OnTime'
<1>0. /\ \A g \in Group : txInfo'[g] = IF g \in Due THEN Overdue(txInfo[g]) ELSE txInfo[g]
      /\ currentHeight' = currentHeight + 1 /\ timeoutList' = timeoutList
  BY SMTT(30), CloseFacts
<1>1. ASSUME NEW h \in 0..MaxUint64, currentHeight' < h
      PROVE  \A k \in 1..Len(timeoutList[h]) : timeoutList[h][k] # "" =>
               /\ txInfo'[timeoutList[h][k]].GlobalState = "BEGIN"
               /\ txInfo'[timeoutList[h][k]].Height = h
               /\ \A l \in 1..Len(timeoutList[h]) : timeoutList[h][l] = timeoutList[h][k] => l = k
  <2> DEFINE list == timeoutList[h]
  <2>0. currentHeight < h /\ h # currentHeight + 1
    BY SMTT(30), <1>0, <1>1, NowFacts
  <2>1. Listed(list, h) /\ \A k \in 1..Len(list) : list[k] # "" => list[k] \in Group
    BY ZenonT(30), <2>0, ListFacts DEF OnTime
  <2> HIDE DEF list
  <2>2. \A x \in Group : txInfo[x].Height = h => x \notin Due
    BY SMTT(30), <2>0, DueIsOpen
  <2>3. \A k \in 1..Len(list) : list[k] # "" => list[k] \in Group /\ txInfo[list[k]].Height = h
    BY ZenonT(30), <2>1 DEF Listed
  <2>4. \A k \in 1..Len(list) : list[k] # "" =>
          /\ txInfo'[list[k]].GlobalState = txInfo[list[k]].GlobalState
          /\ txInfo'[list[k]].Height = txInfo[list[k]].Height
    BY ZenonT(30), <1>0, <2>2, <2>3
  <2>5. \A k \in 1..Len(list) : list[k] # "" =>
          /\ txInfo'[list[k]].GlobalState = "BEGIN" /\ txInfo'[list[k]].Height = h
          /\ \A l \in 1..Len(list) : list[l] = list[k] => l = k
    BY ZenonT(30), <2>1, <2>4 DEF Listed
  <2> QED BY ZenonT(30), <2>5 DEF list
<1>2. timeoutList' = timeoutList
  BY SMTT(30), <1>0
<1> QED BY ZenonT(30), <1>1, <1>2, OnTimeNext

-----------------------------------------------------------------------------
(***************************************************************************)
(* What a step does to the verdict on a group and to what the source is    *)
(* told of its children.                                                   *)
(***************************************************************************)
Undecided == {"none", "BEGIN"}

\* How the state of a group may change: once it is settled or given up, it neither
\* becomes a success nor stops being one.
Advances(old, new) ==
  \/ old = new
  \/ old = "none" /\ new \in {"BEGIN", "BEGIN_FAILURE"}
  \/ old = "BEGIN" /\ new \in {"SUCCESS", "BEGIN_FAILURE", "BEGIN_ROLLBACK"}
  \/ old \notin Undecided \cup {"SUCCESS"} /\ new \notin Undecided \cup {"SUCCESS"}

\* The message that a state stands for: a success is a commit, any other an abort.
Meaning(s) == IF s = "SUCCESS" THEN "commit" ELSE "abort"

\* The source is told nothing of a child of g but the verdict that g has then.
Tells(g) ==
  \A i \in Children[g] :
    /\ toldSrc[i] \subseteq toldSrc'[i]
    /\ \A s \in toldSrc'[i] :
         s \in toldSrc[i] \/ VerdictOf(txInfo'[g].GlobalState) = Meaning(s)

GroupStep(g) == Advances(txInfo[g].GlobalState, txInfo'[g].GlobalState) /\ Tells(g)

\* The verdict, state by state.
LEMMA VerdictFacts ==
  ASSUME NEW s
  PROVE  /\ s = "none" => VerdictOf(s) = "none"
         /\ s = "BEGIN" => VerdictOf(s) = "open"
         /\ s \notin Undecided => VerdictOf(s) = Meaning(s)
<1>1. CASE s = "none"
  BY SMTT(30), <1>1 DEF VerdictOf, Undecided
<1>2. CASE s = "BEGIN"
  BY SMTT(30), <1>2 DEF VerdictOf, Undecided
<1>3. CASE s = "SUCCESS"
  BY SMTT(30), <1>3 DEF VerdictOf, Undecided, Meaning
<1>4. CASE s \notin Undecided \cup {"SUCCESS"}
  BY SMTT(30), <1>4 DEF VerdictOf, Undecided, Meaning
<1> QED BY SMTT(30), <1>1, <1>2, <1>3, <1>4 DEF Undecided

\* Nothing is told but the state cur, of children of g.
OnlySaid(g, cur) ==
  \A x \in Group : \A i \in Children[x] :
    /\ toldSrc[i] \subseteq toldSrc'[i]
    /\ \A s \in toldSrc'[i] : s \in toldSrc[i] \/ (x = g /\ s = cur /\ cur # "BEGIN")

\* notifySrcDst tells the new state of the group, and never that it is open.
LEMMA NotifySaid ==
  ASSUME TypeOK, NEW g \in Group, NEW id \in Children[g], NEW prev \in TransactionStatus \cup {"none"},
         NEW cur, NEW src, src \subseteq Children[g], NEW dst, NEW isFailChild,
         NotifySrcDst(id, prev, cur, src, dst, isFailChild)
  PROVE  OnlySaid(g, cur)
<1> SUFFICES ASSUME NEW x \in Group, NEW i \in Children[x]
             PROVE  /\ toldSrc[i] \subseteq toldSrc'[i]
                    /\ \A s \in toldSrc'[i] : s \in toldSrc[i] \/ (x = g /\ s = cur /\ cur # "BEGIN")
  BY SMTT(30) DEF OnlySaid
<1>1. i \in TxId
  BY SMTT(30), OneGroupOnly
<1>2. CASE <<prev, cur>> \in NotifySrc
  <2>1. cur # "BEGIN"
    BY ZenonT(30), <1>2, MultiTxAssumption
  <2>2. toldSrc' = [j \in TxId |-> IF j \in src \cup {id} THEN toldSrc[j] \cup {cur} ELSE toldSrc[j]]
    BY SMTT(30), <1>2 DEF NotifySrcDst
  <2>3. i \in src \cup {id} => x = g
    BY SMTT(30), OneGroupOnly
  <2> QED BY SMTT(30), <1>1, <2>1, <2>2, <2>3
<1>3. CASE <<prev, cur>> \notin NotifySrc
  BY SMTT(30), <1>3 DEF NotifySrcDst
<1> QED BY SMTT(30), <1>2, <1>3

\* A handler that moves one group and tells of it.
LEMMA OneGroupMoves ==
  ASSUME TypeOK, NEW g \in Group, NEW id \in Children[g], NEW prev \in TransactionStatus \cup {"none"},
         NEW cur \in TransactionStatus, NEW src, src \subseteq Children[g], NEW dst, NEW isFailChild,
         NotifySrcDst(id, prev, cur, src, dst, isFailChild),
         NEW children, NEW height, Becomes(g, cur, children, height),
         Advances(txInfo[g].GlobalState, cur)
  PROVE  \A x \in Group : GroupStep(x)
<1> SUFFICES ASSUME NEW x \in Group PROVE GroupStep(x)
  BY SMTT(30)
<1>1. txInfo'[g].GlobalState = cur /\ (x # g => txInfo'[x] = txInfo[x])
  BY SMTT(30) DEF Becomes
<1>2. Advances(txInfo[x].GlobalState, txInfo'[x].GlobalState)
  BY SMTT(30), <1>1 DEF Advances
<1>3. cur # "BEGIN" => VerdictOf(cur) = Meaning(cur)
  <2>1. cur # "none"
    BY SMTT(30) DEF TransactionStatus
  <2> QED BY SMTT(30), <2>1, VerdictFacts DEF Undecided
<1>4. \A i \in Children[x] :
        /\ toldSrc[i] \subseteq toldSrc'[i]
        /\ \A s \in toldSrc'[i] : s \in toldSrc[i] \/ (x = g /\ s = cur /\ cur # "BEGIN")
  <2>1. OnlySaid(g, cur)
    BY SMTT(30), NotifySaid
  <2> QED BY SMTT(30), <2>1 DEF OnlySaid
<1>5. ASSUME NEW i \in Children[x], NEW s \in toldSrc'[i]
      PROVE  s \in toldSrc[i] \/ VerdictOf(txInfo'[x].GlobalState) = Meaning(s)
  <2>1. CASE x = g /\ s = cur /\ cur # "BEGIN"
    <3>1. txInfo'[x].GlobalState = s
      BY SMTT(30), <1>1, <2>1
    <3>2. VerdictOf(s) = Meaning(s)
      BY SMTT(30), <1>3, <2>1
    <3> QED BY SMTT(30), <3>1, <3>2
  <2> QED BY SMTT(30), <1>4, <2>1
<1>6. Tells(x)
  BY SMTT(30), <1>4, <1>5 DEF Tells
<1> QED BY SMTT(30), <1>2, <1>6 DEF GroupStep

\* A request opens a group, refuses it, or adds to it.
LEMMA RequestMoves ==
  ASSUME TypeOK, OnTime, NEW id \in TxId, HandleRequest(id)
  PROVE  OnTime' /\ \A x \in Group : GroupStep(x)
<1> DEFINE g == GroupOf(id)
           info == txInfo[g]
           known == DOMAIN info.ChildTxInfo
<1>0. /\ g \in Group /\ id \in Children[g] /\ (id[1][2] \in down) \in BOOLEAN
      /\ currentHeight' = currentHeight
  BY SMTT(30), ChildFacts DEF HandleRequest
<1>1. BeginFirst(g, id, id[1][2] \in down) \/ BeginFurther(g, id, id[1][2] \in down)
  BY DEF HandleRequest
<1>2. NoInfo.GlobalState = "none"
  BY SMTT(30) DEF NoInfo
<1>3. known \subseteq Children[g] /\ info.GlobalState \in TransactionStatus \cup {"none"}
      /\ (info # NoInfo => info.GlobalState \in TransactionStatus)
  BY SMTT(30), <1>0, InfoFacts
<1>4. /\ "BEGIN" \in TransactionStatus /\ "BEGIN_FAILURE" \in TransactionStatus
      /\ \A t : Advances(t, t)
  BY SMTT(30) DEF TransactionStatus, Advances
<1> HIDE DEF g
<1>5. CASE BeginFirst(g, id, id[1][2] \in down)
  <2>1. PICK state \in {"BEGIN", "BEGIN_FAILURE"}, height \in (currentHeight + 1)..MaxUint64 :
           /\ txInfo[g] = NoInfo
           /\ Becomes(g, state, [i \in {id} |-> state], height)
           /\ timeoutList' = IF state = "BEGIN"
                THEN [timeoutList EXCEPT ![height] = Append(@, g)] ELSE timeoutList
           /\ NotifySrcDst(id, "none", state, {}, {}, FALSE)
    BY ZenonT(30), <1>0, <1>5, FirstFacts
  <2> DEFINE children == [i \in {id} |-> state]
  <2>2. Becomes(g, state, children, height)
    BY SMTT(30), <2>1
  <2> HIDE DEF children
  <2>3. height \in 0..MaxUint64
    BY SMTT(30), HeightFacts, NowFacts
  <2>4. CASE state = "BEGIN"
    <3>1. PutOn(g, height)
      BY SMTT(30), <2>1, <2>4 DEF PutOn
    <3>2. Advances(info.GlobalState, state)
      BY SMTT(30), <1>2, <2>1, <2>4 DEF Advances
    <3>3. OnTime'
      BY SMTT(30), <1>0, <2>1, <2>2, <2>3, <2>4, <3>1, EntersInTime
    <3>4. \A x \in Group : GroupStep(x)
      BY ZenonT(30), <1>0, <1>4, <2>1, <2>2, <2>4, <3>2, OneGroupMoves
    <3> QED BY SMTT(30), <3>3, <3>4
  <2>5. CASE state = "BEGIN_FAILURE"
    <3>1. timeoutList' = timeoutList /\ info.GlobalState # "BEGIN"
      BY SMTT(30), <1>2, <2>1, <2>5
    <3>2. Advances(info.GlobalState, state)
      BY SMTT(30), <1>2, <2>1, <2>5 DEF Advances
    <3>3. OnTime'
      BY SMTT(30), <1>0, <2>2, <3>1, StaysOnTime
    <3>4. \A x \in Group : GroupStep(x)
      BY ZenonT(30), <1>0, <1>4, <2>1, <2>2, <2>5, <3>2, OneGroupMoves
    <3> QED BY SMTT(30), <3>3, <3>4
  <2> QED BY SMTT(30), <2>4, <2>5
<1>6. CASE BeginFurther(g, id, id[1][2] \in down)
  <2> DEFINE failed == [i \in known \cup {id} |-> "BEGIN_FAILURE"]
             joined == [i \in known \cup {id} |-> IF i = id THEN info.GlobalState ELSE info.ChildTxInfo[i]]
  <2>1. /\ info # NoInfo
        /\ \/ /\ info.GlobalState = "BEGIN"
              /\ Becomes(g, "BEGIN_FAILURE", failed, info.Height)
              /\ timeoutList' = [timeoutList EXCEPT ![info.Height] = RemoveFromTimeoutList(@, g)]
              /\ \E dst \in SUBSET known :
                   NotifySrcDst(id, "none", "BEGIN_FAILURE", known, dst, FALSE)
           \/ /\ Becomes(g, info.GlobalState, joined, info.Height)
              /\ timeoutList' = timeoutList
              /\ NotifySrcDst(id, "none", info.GlobalState, {}, {}, FALSE)
    BY ZenonT(30), <1>0, <1>6, FurtherFacts
  <2> HIDE DEF failed, joined
  <2>2. CASE /\ info.GlobalState = "BEGIN"
             /\ Becomes(g, "BEGIN_FAILURE", failed, info.Height)
             /\ timeoutList' = [timeoutList EXCEPT ![info.Height] = RemoveFromTimeoutList(@, g)]
             /\ \E dst \in SUBSET known :
                  NotifySrcDst(id, "none", "BEGIN_FAILURE", known, dst, FALSE)
    <3>1. TakenOff(g)
      BY SMTT(30), <2>2 DEF TakenOff
    <3>2. Advances(info.GlobalState, "BEGIN_FAILURE")
      BY SMTT(30), <2>2 DEF Advances
    <3>3. OnTime'
      BY ZenonT(30), <1>0, <2>2, <3>1, LeavesInTime
    <3>4. \A x \in Group : GroupStep(x)
      <4>1. PICK dst : NotifySrcDst(id, "none", "BEGIN_FAILURE", known, dst, FALSE)
        BY ZenonT(30), <2>2
      <4> QED BY ZenonT(30), <1>0, <1>3, <1>4, <2>2, <3>2, <4>1, OneGroupMoves
    <3> QED BY SMTT(30), <3>3, <3>4
  <2>3. CASE /\ Becomes(g, info.GlobalState, joined, info.Height)
             /\ timeoutList' = timeoutList
             /\ NotifySrcDst(id, "none", info.GlobalState, {}, {}, FALSE)
    <3>1. OnTime'
      BY SMTT(30), <1>0, <2>3, StaysOnTime
    <3>2. \A x \in Group : GroupStep(x)
      BY ZenonT(30), <1>0, <1>3, <1>4, <2>1, <2>3, OneGroupMoves
    <3> QED BY <3>1, <3>2
  <2> QED BY ZenonT(30), <2>1, <2>2, <2>3
<1> QED BY ZenonT(30), <1>1, <1>5, <1>6

\* A receipt fails an open group, settles a group as its state demands, or leaves the
\* state of the group as it is.
LEMMA AnswerMoves ==
  ASSUME TypeOK, AllFit, OnTime, NEW id \in TxId, NEW type \in ReceiptType, HandleReceipt(id, type)
  PROVE  OnTime' /\ \A x \in Group : GroupStep(x)
<1> DEFINE g == GroupOf(id)
           info == txInfo[g]
           known == DOMAIN info.ChildTxInfo
           moved(cur) == [info.ChildTxInfo EXCEPT ![id] = cur]
           failed == [i \in known |-> IF i = id THEN "FAILURE" ELSE "BEGIN_FAILURE"]
<1>0. g \in Group /\ id \in Children[g] /\ currentHeight' = currentHeight
  BY SMTT(30), ChildFacts DEF HandleReceipt
<1>1. id \in known /\ (FailGroup(g, id, type) \/ MoveChild(g, id, type))
  BY ZenonT(30) DEF HandleReceipt
<1>2. \E dst, isFailChild :
        NotifySrcDst(id, info.GlobalState, txInfo'[g].GlobalState, known \ {id}, dst, isFailChild)
  BY ZenonT(30) DEF HandleReceipt
<1>3. \/ info.GlobalState = "BEGIN" /\ Becomes(g, "BEGIN_FAILURE", failed, info.Height) /\ TakenOff(g)
      \/ \E cur \in FinalStatus :
           /\ info.GlobalState \notin FinalStatus
           /\ info.GlobalState = "BEGIN" <=> cur = "SUCCESS"
           /\ Becomes(g, cur, moved(cur), info.Height) /\ TakenOff(g)
      \/ \E cur \in FinalStatus :
           Becomes(g, info.GlobalState, moved(cur), info.Height) /\ timeoutList' = timeoutList
  BY ZenonT(30), <1>0, <1>1, ReceiptFacts DEF TakenOff
<1>4. /\ info.GlobalState \in TransactionStatus /\ known \ {id} \subseteq Children[g]
      /\ info.GlobalState \in TransactionStatus \cup {"none"}
  <2>1. NoInfo.ChildTxInfo = <<>> /\ DOMAIN <<>> = {}
    BY SMTT(30) DEF NoInfo
  <2> QED BY SMTT(30), <1>0, <1>1, <2>1, InfoFacts
<1>5. ASSUME NEW cur \in TransactionStatus, NEW children, Becomes(g, cur, children, info.Height),
             Advances(info.GlobalState, cur)
      PROVE  \A x \in Group : GroupStep(x)
  <2>1. txInfo'[g].GlobalState = cur
    BY SMTT(30), <1>5 DEF Becomes
  <2>2. PICK dst, isFailChild :
          NotifySrcDst(id, info.GlobalState, cur, known \ {id}, dst, isFailChild)
    BY SMTT(30), <1>2, <2>1
  <2> HIDE DEF g, known
  <2> QED BY ZenonT(30), <1>0, <1>4, <1>5, <2>2, OneGroupMoves
<1>6. FinalStatus \subseteq TransactionStatus /\ "BEGIN_FAILURE" \in TransactionStatus
  BY SMTT(30) DEF FinalStatus, TransactionStatus
<1> HIDE DEF g, info, moved, failed
<1>7. CASE info.GlobalState = "BEGIN" /\ Becomes(g, "BEGIN_FAILURE", failed, info.Height) /\ TakenOff(g)
  <2>1. Advances(info.GlobalState, "BEGIN_FAILURE")
    BY SMTT(30), <1>7 DEF Advances
  <2>2. OnTime'
    BY SMTT(30), <1>0, <1>7, LeavesInTime DEF info
  <2> QED BY SMTT(30), <1>5, <1>6, <1>7, <2>1, <2>2
<1>8. ASSUME NEW cur \in FinalStatus, info.GlobalState \notin FinalStatus,
             info.GlobalState = "BEGIN" <=> cur = "SUCCESS",
             Becomes(g, cur, moved(cur), info.Height), TakenOff(g)
      PROVE  OnTime' /\ \A x \in Group : GroupStep(x)
  <2>1. Advances(info.GlobalState, cur)
    BY SMTT(30), <1>4, <1>8 DEF Advances, FinalStatus, TransactionStatus, Undecided
  <2>2. OnTime'
    BY SMTT(30), <1>0, <1>8, LeavesInTime DEF info
  <2> QED BY SMTT(30), <1>5, <1>6, <1>8, <2>1, <2>2
<1>9. ASSUME NEW cur \in FinalStatus, Becomes(g, info.GlobalState, moved(cur), info.Height),
             timeoutList' = timeoutList
      PROVE  OnTime' /\ \A x \in Group : GroupStep(x)
  <2>1. Advances(info.GlobalState, info.GlobalState)
    BY SMTT(30) DEF Advances
  <2>2. OnTime'
    BY SMTT(30), <1>0, <1>9, StaysOnTime DEF info
  <2> QED BY SMTT(30), <1>4, <1>5, <1>9, <2>1, <2>2
<1> QED BY SMTT(30), <1>3, <1>7, <1>8, <1>9

\* The end of a block gives up the groups that are due, which are open, and tells the
\* source of a timeout.
LEMMA CloseMoves ==
  ASSUME TypeOK, OnTime, CloseBlock
  PROVE  \A x \in Group : GroupStep(x)
<1> SUFFICES ASSUME NEW x \in Group PROVE GroupStep(x)
  BY SMTT(30)
<1> DEFINE ids == UNION {DOMAIN txInfo[g].ChildTxInfo : g \in Group \cap Due}
<1>1. txInfo'[x] = IF x \in Due THEN Overdue(txInfo[x]) ELSE txInfo[x]
  BY SMTT(30), CloseFacts
<1>2. x \in Due => txInfo[x].GlobalState = "BEGIN" /\ txInfo'[x].GlobalState = "BEGIN_ROLLBACK"
  BY SMTT(30), <1>1, DueIsOpen, OverdueFacts
<1>3. Advances(txInfo[x].GlobalState, txInfo'[x].GlobalState)
  BY SMTT(30), <1>1, <1>2 DEF Advances
<1>4. toldSrc' = [i \in TxId |-> IF i \in ids THEN toldSrc[i] \cup {"TIMEOUT"} ELSE toldSrc[i]]
  BY SMTT(30) DEF CloseBlock, Due
<1>5. ASSUME NEW i \in Children[x]
      PROVE  i \in TxId /\ (i \in ids => x \in Due)
  <2>1. i \in TxId /\ GroupOf(i) = x
    BY SMTT(30), OneGroupOnly
  <2>2. ASSUME NEW g \in Group \cap Due, i \in DOMAIN txInfo[g].ChildTxInfo PROVE x = g
    BY SMTT(30), <2>1, <2>2, InfoFacts, OneGroupOnly
  <2> QED BY SMTT(30), <2>1, <2>2
<1> HIDE DEF ids
<1>6. VerdictOf("BEGIN_ROLLBACK") = Meaning("TIMEOUT")
  BY SMTT(30), VerdictFacts DEF Undecided, Meaning
<1>7. ASSUME NEW i \in Children[x]
      PROVE  /\ toldSrc[i] \subseteq toldSrc'[i]
             /\ \A s \in toldSrc'[i] : s \in toldSrc[i] \/ (s = "TIMEOUT" /\ x \in Due)
  BY SMTT(30), <1>4, <1>5
<1>8. Tells(x)
  BY SMTT(30), <1>2, <1>6, <1>7 DEF Tells
<1> QED BY SMTT(30), <1>3, <1>8 DEF GroupStep

\* Every step, and every group.
LEMMA MovesStep ==
  ASSUME TypeOK, AllFit, OnTime, [Next]_vars
  PROVE  OnTime' /\ \A x \in Group : GroupStep(x)
<1>1. CASE \E id \in TxId : HandleRequest(id)
  BY SMTT(30), <1>1, RequestMoves
<1>2. CASE \E id \in TxId, type \in ReceiptType : HandleReceipt(id, type)
  BY SMTT(30), <1>2, AnswerMoves
<1>3. CASE UNCHANGED <<currentHeight, txInfo, timeoutList, toldSrc>>
  BY ZenonT(30), <1>3 DEF OnTime, Listed, GroupStep, Advances, Tells
<1>4. CASE CloseBlock
  BY SMTT(30), <1>4, ClosesInTime, CloseMoves
<1> QED BY SMTT(30), <1>1, <1>2, <1>3, <1>4 DEF Next, Switch, vars

\* The moves of a group are moves of CrossTx.
LEMMA VerdictMoves ==
  ASSUME NEW old, NEW new, Advances(old, new), VerdictOf(new) # VerdictOf(old)
  PROVE  <<VerdictOf(old), VerdictOf(new)>> \in Promise!Moves
<1>1. CASE old = "none" /\ new \in {"BEGIN", "BEGIN_FAILURE"}
  <2>1. VerdictOf(old) = "none" /\ VerdictOf(new) \in {"open", "abort"}
    BY SMTT(30), <1>1, VerdictFacts DEF Undecided, Meaning
  <2> QED BY SMTT(30), <2>1 DEF Promise!Moves
<1>2. CASE old = "BEGIN" /\ new \in {"SUCCESS", "BEGIN_FAILURE", "BEGIN_ROLLBACK"}
  <2>1. VerdictOf(old) = "open" /\ VerdictOf(new) \in {"commit", "abort"}
    BY SMTT(30), <1>2, VerdictFacts DEF Undecided, Meaning
  <2> QED BY SMTT(30), <2>1 DEF Promise!Moves
<1>3. CASE old \notin Undecided \cup {"SUCCESS"} /\ new \notin Undecided \cup {"SUCCESS"}
  BY SMTT(30), <1>3, VerdictFacts DEF Meaning
<1> QED BY SMTT(30), <1>1, <1>2, <1>3 DEF Advances

\* The lists are in order in every state.
LEMMA AlwaysOnTime == Spec => [](TypeOK /\ AllFit /\ OnTime)
<1>1. Init => OnTime
  <2> SUFFICES ASSUME Init, NEW h \in 0..MaxUint64 PROVE Listed(timeoutList[h], h)
    BY SMTT(30) DEF OnTime
  <2>1. timeoutList[h] = <<>>
    BY SMTT(30) DEF Init, NoList
  <2>2. 1..Len(<<>>) = {}
    OBVIOUS
  <2> QED BY ZenonT(30), <2>1, <2>2 DEF Listed
<1>2. TypeOK /\ AllFit /\ OnTime /\ [Next]_vars => OnTime'
  BY MovesStep
<1> QED BY <1>1, <1>2, TypeFit, PTL DEF Spec

\* The hub implements CrossTx on groups: initial states map to initial states and
\* every step to a step of CrossTx or to a stutter.  One verdict holds for all
\* children of a group, is never revised by a late receipt or by the end of a block,
\* and is all that the source is told of any child.
THEOREM GroupsImplement == Spec => KeepsGroupPromise
<1> DEFINE Said(g) == {Meaning(s) : s \in UNION {toldSrc[id] : id \in Children[g]}}
           V == [g \in Group |-> VerdictOf(txInfo[g].GlobalState)]
           A == [g \in Group |->
                  {IF s = "SUCCESS" THEN "commit" ELSE "abort" :
                     s \in UNION {toldSrc[id] : id \in Children[g]}}]
<1>1. Init => Promise!Init
  <2> SUFFICES ASSUME Init PROVE Promise!Init
    BY SMTT(30)
  <2>1. \A g \in Group : VerdictOf(txInfo[g].GlobalState) = "none"
    BY SMTT(30), VerdictFacts DEF Init, NoInfo
  <2>2. \A g \in Group : UNION {toldSrc[id] : id \in Children[g]} = {}
    BY SMTT(30), OneGroupOnly DEF Init
  <2>3. \A g \in Group : {IF s = "SUCCESS" THEN "commit" ELSE "abort" :
                     s \in UNION {toldSrc[id] : id \in Children[g]}} = {}
    BY SMTT(30), <2>2
  <2> QED BY SMTT(30), <2>1, <2>3 DEF Promise!Init
<1>2. TypeOK /\ AllFit /\ OnTime /\ [Next]_vars => [Promise!Next]_<<V, A>>
  <2> SUFFICES ASSUME TypeOK, AllFit, OnTime, [Next]_vars PROVE Promise!Next
    BY SMTT(30)
  <2>1. V' = [g \in Group |-> VerdictOf(txInfo'[g].GlobalState)]
    BY DEF VerdictOf
  <2>2. A = [g \in Group |-> Said(g)] /\ A' = [g \in Group |-> Said(g)']
    BY SMTT(30) DEF Meaning
  <2>3. V' \in [Group -> Promise!Verdict]
    <3>1. \A s : VerdictOf(s) \in Promise!Verdict
      BY SMTT(30), VerdictFacts DEF Undecided, Meaning, Promise!Verdict
    <3> QED BY <2>1, <3>1
  <2>4. A' \in [Group -> SUBSET {"commit", "abort"}]
    BY ZenonT(30), <2>2 DEF Meaning
  <2>5. ASSUME NEW g \in Group
        PROVE  /\ V'[g] # V[g] => <<V[g], V'[g]>> \in Promise!Moves
               /\ A[g] \subseteq A'[g]
               /\ A'[g] \subseteq A[g] \cup {V'[g]}
    <3>1. GroupStep(g)
      BY SMTT(30), MovesStep
    <3>2. V[g] = VerdictOf(txInfo[g].GlobalState) /\ V'[g] = VerdictOf(txInfo'[g].GlobalState)
      BY ZenonT(30), <2>1
    <3>3. V'[g] # V[g] => <<V[g], V'[g]>> \in Promise!Moves
      BY SMTT(30), <3>1, <3>2, VerdictMoves DEF GroupStep
    <3>4. \A i \in Children[g] :
            /\ toldSrc[i] \subseteq toldSrc'[i]
            /\ \A s \in toldSrc'[i] : s \in toldSrc[i] \/ V'[g] = Meaning(s)
      BY ZenonT(30), <3>1, <3>2 DEF GroupStep, Tells
    <3>5. A[g] = Said(g) /\ A'[g] = Said(g)'
      BY SMTT(30), <2>2
    <3> HIDE DEF V, A
    <3>6. Said(g) \subseteq Said(g)'
      BY SMTT(30), <3>4
    <3>7. Said(g)' \subseteq Said(g) \cup {V'[g]}
      BY SMTT(30), <3>4
    <3> QED BY ZenonT(30), <3>3, <3>5, <3>6, <3>7
  <2> QED BY ZenonT(30), <2>3, <2>4, <2>5 DEF Promise!Next
<1> QED BY <1>1, <1>2, AlwaysOnTime, PTL DEF Spec, KeepsGroupPromise, Promise!Spec
=============================================================================
