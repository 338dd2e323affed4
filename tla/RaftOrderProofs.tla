--------------------------- MODULE RaftOrderProofs ---------------------------
(***************************************************************************)
(* Proofs about the nodes that order through raft, for every set of nodes, *)
(* pool of transactions and bound: what a node has applied, executed and   *)
(* stored fits together, and the committed log alone determines the block  *)
(* at every height of every node.                                          *)
(***************************************************************************)
EXTENDS RaftOrder, TLAPS

-----------------------------------------------------------------------------
(* The inductive invariant. *)

IsSeq(s) == s \in Seq({s[i] : i \in DOMAIN s})

Fields == {"view", "core", "just", "timer", "pool", "got", "prop", "loop", "hand", "applied",
           "lastExec", "bai", "queue", "reports", "chain", "db", "snap"}

IsPool(p) == DOMAIN p = {"store", "seq"} /\ p.seq \in Nat

\* The loop waits with a batch in its hand exactly while it is blocked.
LoopOK(r) ==
    /\ DOMAIN r = Fields
    /\ IsPool(r.pool) /\ r.prop.height \in Nat /\ r.hand.height \in Nat
    /\ r.loop \in {"select", "blocked", "hung"}
    /\ (r.loop = "blocked") = (r.hand # NoBatch)

\* Each recorded index is that of an entry for the recorded height, or is older.
IndexesFit(bai, top, lg, c) ==
    /\ \A h \in DOMAIN bai :
          /\ h \in Genesis..top /\ bai[h] \in 0..c
          /\ bai[h] > 0 => lg[bai[h]].height \in (Genesis + 1)..h
    /\ \E h \in DOMAIN bai : \A k \in DOMAIN bai : k <= h

BooksOK(r, lg, c) ==
    /\ IsSeq(r.chain) /\ IsSeq(r.queue)
    /\ r.lastExec = Genesis + Len(r.chain) + Len(r.queue)
    /\ r.applied \in 0..c
    /\ r.snap.index \in 0..r.applied /\ r.snap.height \in Nat \ {0}
    /\ r.reports \subseteq (Genesis + 1)..ChainHeight(r)
    /\ r.db \in 0..c
    /\ r.db > 0 => lg[r.db].height \in (Genesis + 1)..ChainHeight(r)
    /\ IndexesFit(r.bai, r.lastExec, lg, c)

\* P lists the indexes of the entries that become blocks: block k is at the first entry
\* after that of block k - 1 that has its height.
At(P, k) == IF k = 0 THEN 0 ELSE P[k]
Path(P, lg, c) ==
    /\ \A k \in 1..Len(P) : P[k] \in 1..c /\ lg[P[k]].height = Genesis + k
    /\ \A j, k \in 1..Len(P) : j < k => P[j] < P[k]
    /\ \A k \in 0..Len(P) : \A i \in 1..c :
          At(P, k) < i /\ (k < Len(P) => i < P[k + 1]) => lg[i].height # Genesis + k + 1

\* The blocks of a node are those of the path, as far as it has come.
OnPath(r, P, lg) ==
    LET l == r.lastExec - Genesis IN
    /\ l <= Len(P)
    /\ \A k \in 1..l : (r.chain \o r.queue)[k] = lg[P[k]].txs
    /\ l < Len(P) => r.applied < P[l + 1]
    /\ \A h \in DOMAIN r.bai : r.bai[h] <= At(P, h - Genesis)
    /\ r.db <= At(P, Len(r.chain))

\* Without a crash a node and its snapshot are exactly as far as they have applied.
Level(P, index, height) ==
    /\ height - Genesis <= Len(P)
    /\ At(P, height - Genesis) <= index
    /\ height - Genesis < Len(P) => index < P[height - Genesis + 1]
Steady(r, P) ==
    /\ At(P, r.lastExec - Genesis) <= r.applied
    /\ r.snap.height <= r.lastExec
    /\ Level(P, r.snap.index, r.snap.height)

\* No entry that a node has applied, or may apply again, is above the block it is at.
NoneAbove(r, P, lg, c) ==
    /\ \A k \in 0..(r.lastExec - Genesis) : \A j \in 1..c :
          j <= At(P, k) => lg[j].height <= Genesis + k
    /\ \A j \in 1..r.applied : lg[j].height <= r.lastExec

NoSnapshot == \A n \in Node : nd[n].snap.index = 0

FollowsLog(P) ==
    /\ Path(P, log, commit)
    /\ \A n \in Node :
          /\ OnPath(nd[n], P, log)
          /\ crashes = 0 => Steady(nd[n], P)
          /\ ~tooNew /\ NoSnapshot => NoneAbove(nd[n], P, log, commit)

LogOK ==
    /\ IsSeq(log) /\ Len(log) <= MaxLog /\ commit \in 0..Len(log)
    /\ \A i \in 1..Len(log) : log[i].height \in Nat
    /\ lead \in Node \cup {None} /\ crashes \in Nat /\ tooNew \in BOOLEAN

BooksInv ==
    /\ LogOK
    /\ DOMAIN nd = Node
    /\ \A n \in Node : LoopOK(nd[n]) /\ BooksOK(nd[n], log, commit)

Inv == BooksInv /\ (Undisturbed => \E P \in Seq(Nat) : FollowsLog(P))

-----------------------------------------------------------------------------
(* Sequences. *)

\* A sequence over any set is a sequence over its elements.
LEMMA SeqIsSeq ==
    ASSUME NEW S, NEW s \in Seq(S)
    PROVE  IsSeq(s)
  BY DEF IsSeq

\* Append adds one element at the end (Go's append, as log, queue and chain use it).
LEMMA Appended ==
    ASSUME NEW s, NEW e, IsSeq(s)
    PROVE  /\ IsSeq(Append(s, e)) /\ Len(s) \in Nat /\ Len(Append(s, e)) = Len(s) + 1
           /\ \A i \in 1..Len(s) : Append(s, e)[i] = s[i]
           /\ Append(s, e)[Len(s) + 1] = e
<1> DEFINE S == {s[i] : i \in DOMAIN s} \cup {e}
<1>1. s \in Seq(S) BY DEF IsSeq
<1>2. Append(s, e) \in Seq(S) BY <1>1
<1> HIDE DEF S
<1>3. IsSeq(Append(s, e)) BY ZenonT(30), <1>2, SeqIsSeq
<1>4. QED BY <1>1, <1>2, <1>3

\* Two sequences one after the other (the blocks on disk and those under way).
LEMMA Joined ==
    ASSUME NEW s, NEW t, IsSeq(s), IsSeq(t)
    PROVE  /\ IsSeq(s \o t) /\ Len(s) \in Nat /\ Len(t) \in Nat
           /\ Len(s \o t) = Len(s) + Len(t) /\ DOMAIN (s \o t) = 1..(Len(s) + Len(t))
           /\ \A i \in 1..Len(s) : (s \o t)[i] = s[i]
           /\ \A i \in 1..Len(t) : (s \o t)[Len(s) + i] = t[i]
<1> DEFINE S == {s[i] : i \in DOMAIN s} \cup {t[i] : i \in DOMAIN t}
<1>1. s \in Seq(S) BY DEF IsSeq
<1>2. t \in Seq(S) BY DEF IsSeq
<1>3. s \o t \in Seq(S) BY <1>1, <1>2
<1> HIDE DEF S
<1>4. IsSeq(s \o t) BY ZenonT(30), <1>3, SeqIsSeq
<1>5. QED BY <1>1, <1>2, <1>3, <1>4

\* A part of a sequence (what Elect keeps of the log, what is fetched of a chain).
LEMMA Parted ==
    ASSUME NEW s, IsSeq(s), NEW a \in Nat \ {0}, NEW b \in 0..Len(s), a <= b + 1
    PROVE  /\ IsSeq(SubSeq(s, a, b)) /\ Len(SubSeq(s, a, b)) = b + 1 - a
           /\ \A i \in 1..(b + 1 - a) : SubSeq(s, a, b)[i] = s[a + i - 1]
<1> DEFINE S == {s[i] : i \in DOMAIN s}
<1>1. s \in Seq(S) BY DEF IsSeq
<1> HIDE DEF S
<1>2. SubSeq(s, a, b) \in Seq(S) BY <1>1
<1>3. IsSeq(SubSeq(s, a, b)) BY ZenonT(30), <1>2, SeqIsSeq
<1>4. QED BY <1>1, <1>2, <1>3

\* The rest of a sequence (what remains queued when Execute takes the first block).
LEMMA Taken ==
    ASSUME NEW s, IsSeq(s), s # <<>>
    PROVE  /\ IsSeq(Tail(s)) /\ Len(s) \in Nat \ {0} /\ Len(Tail(s)) = Len(s) - 1
           /\ Head(s) = s[1]
           /\ \A i \in 1..(Len(s) - 1) : Tail(s)[i] = s[i + 1]
<1> DEFINE S == {s[i] : i \in DOMAIN s}
<1>1. s \in Seq(S) BY DEF IsSeq
<1> HIDE DEF S
<1>2. Tail(s) \in Seq(S) BY <1>1
<1>3. IsSeq(Tail(s)) BY ZenonT(30), <1>2, SeqIsSeq
<1>4. QED BY <1>1, <1>2, <1>3

\* What is appended to the second of two sequences comes at the end of both (mint).
LEMMA JoinedMore ==
    ASSUME NEW s, NEW t, NEW e, IsSeq(s), IsSeq(t)
    PROVE  /\ \A k \in 1..(Len(s) + Len(t)) : (s \o Append(t, e))[k] = (s \o t)[k]
           /\ (s \o Append(t, e))[(Len(s) + Len(t)) + 1] = e
<1> DEFINE u == Append(t, e)
           a == Len(s)
           b == Len(t)
<1>1. /\ IsSeq(u) /\ Len(u) = b + 1 /\ u[b + 1] = e /\ b \in Nat
      /\ \A j \in 1..b : u[j] = t[j]
  BY Appended
<1> HIDE DEF u
<1>2. /\ a \in Nat /\ \A j \in 1..a : (s \o u)[j] = s[j] /\ (s \o t)[j] = s[j]
      /\ \A j \in 1..(b + 1) : (s \o u)[a + j] = u[j]
      /\ \A j \in 1..b : (s \o t)[a + j] = t[j]
  BY <1>1, Joined
<1> HIDE DEF a, b
<1>3. (s \o u)[(a + b) + 1] = e
  <2>1. (a + b) + 1 = a + (b + 1) /\ b + 1 \in 1..(b + 1) BY <1>1, <1>2
  <2>2. (s \o u)[a + (b + 1)] = u[b + 1] BY ZenonT(30), <2>1, <1>2
  <2>3. QED BY ZenonT(30), <2>1, <2>2, <1>1
<1>4. ASSUME NEW k \in 1..(a + b) PROVE (s \o u)[k] = (s \o t)[k]
  <2>1. CASE k \in 1..a BY ZenonT(30), <2>1, <1>2
  <2>2. CASE k \in (a + 1)..(a + b)
    <3> DEFINE j == k - a
    <3>1. j \in 1..b /\ j \in 1..(b + 1) /\ k = a + j BY <2>2, <1>1, <1>2
    <3> HIDE DEF j
    <3>2. QED BY ZenonT(30), <3>1, <1>1, <1>2
  <2>3. k \in 1..a \/ k \in (a + 1)..(a + b) BY <1>1, <1>2
  <2>4. QED BY ZenonT(30), <2>1, <2>2, <2>3
<1>5. QED BY <1>3, <1>4 DEF a, b, u

\* Moving the first of the second sequence to the end of the first changes nothing
\* (Execute).
LEMMA JoinedSame ==
    ASSUME NEW s, NEW t, IsSeq(s), IsSeq(t), t # <<>>
    PROVE  \A k \in 1..(Len(s) + Len(t)) : (Append(s, Head(t)) \o Tail(t))[k] = (s \o t)[k]
<1> DEFINE u == Append(s, Head(t))
           v == Tail(t)
           a == Len(s)
           b == Len(t)
<1>1. /\ IsSeq(u) /\ Len(u) = a + 1 /\ u[a + 1] = Head(t) /\ a \in Nat
      /\ \A j \in 1..a : u[j] = s[j]
  BY Appended
<1>2. /\ IsSeq(v) /\ Len(v) = b - 1 /\ b \in Nat \ {0} /\ Head(t) = t[1]
      /\ \A j \in 1..(b - 1) : v[j] = t[j + 1]
  BY Taken
<1> HIDE DEF u, v
<1>3. /\ \A j \in 1..(a + 1) : (u \o v)[j] = u[j]
      /\ \A j \in 1..(b - 1) : (u \o v)[(a + 1) + j] = v[j]
  BY <1>1, <1>2, Joined
<1>4. /\ \A j \in 1..a : (s \o t)[j] = s[j]
      /\ \A j \in 1..b : (s \o t)[a + j] = t[j]
  BY Joined
<1> HIDE DEF a, b
<1>5. ASSUME NEW k \in 1..(a + b) PROVE (u \o v)[k] = (s \o t)[k]
  <2>1. CASE k \in 1..a
    <3>1. k \in 1..(a + 1) BY <2>1, <1>1
    <3>2. QED BY ZenonT(30), <3>1, <2>1, <1>1, <1>3, <1>4
  <2>2. CASE k = a + 1
    <3>1. k \in 1..(a + 1) /\ 1 \in 1..b BY <2>2, <1>1, <1>2
    <3>2. (u \o v)[k] = t[1] BY <3>1, <2>2, <1>1, <1>2, <1>3
    <3>3. (s \o t)[k] = t[1] BY ZenonT(30), <3>1, <2>2, <1>4
    <3>4. QED BY <3>2, <3>3
  <2>3. CASE k \in (a + 2)..(a + b)
    <3> DEFINE j == k - (a + 1)
    <3>1. j \in 1..(b - 1) /\ k = (a + 1) + j /\ j + 1 \in 1..b /\ k = a + (j + 1)
      BY <2>3, <1>1, <1>2
    <3> HIDE DEF j
    <3>2. (u \o v)[k] = t[j + 1] BY ZenonT(30), <3>1, <1>2, <1>3
    <3>3. (s \o t)[k] = t[j + 1] BY ZenonT(30), <3>1, <1>4
    <3>4. QED BY <3>2, <3>3
  <2>4. k \in 1..a \/ k = a + 1 \/ k \in (a + 2)..(a + b) BY <1>1, <1>2
  <2>5. QED BY ZenonT(30), <2>1, <2>2, <2>3, <2>4
<1>6. QED BY <1>5 DEF a, b, u, v

-----------------------------------------------------------------------------
(* The pool keeps its numbering. *)

\* A batch has the next height (generateBlock, GenerateBlock).
LEMMA BatchNumbered ==
    ASSUME NEW p, NEW ldg, IsPool(p)
    PROVE  /\ IsPool(generateBlock(p, ldg).pool) /\ generateBlock(p, ldg).batch.height \in Nat
           /\ IsPool(GenerateBlock(p, ldg).pool) /\ GenerateBlock(p, ldg).batch.height \in Nat
<1> DEFINE st == p.store
           w == Batched(st, Least(st.count, BatchSize), ldg)
           left == [st EXCEPT !.batched = w.batched,
                              !.count = IF @ >= Len(w.keys) THEN @ - Len(w.keys) ELSE @]
           txs == [i \in 1..Len(w.keys) |-> st.items[w.keys[i]]]
           none == [p EXCEPT !.store.count = 0]
<1>1. generateBlock(p, ldg)
        = IF ~IsTimed /\ Len(w.keys) = 0 /\ st.count > 0 THEN [pool |-> none, batch |-> NoBatch]
          ELSE [pool |-> [store |-> left, seq |-> p.seq + 1],
                batch |-> [height |-> p.seq + 1, txs |-> txs]]
  BY DEF generateBlock
<1>2. IsPool(none) BY DEF IsPool
<1> HIDE DEF w, left, txs, none
<1>3. IsPool(generateBlock(p, ldg).pool) /\ generateBlock(p, ldg).batch.height \in Nat
  BY <1>1, <1>2 DEF IsPool, NoBatch
<1>4. GenerateBlock(p, ldg) = [pool |-> p, batch |-> NoBatch] \/ GenerateBlock(p, ldg) = generateBlock(p, ldg)
  BY DEF GenerateBlock
<1>5. QED BY <1>3, <1>4 DEF NoBatch

\* What a transaction does to the pool leaves the numbering to a batch (ProcessTransactions).
LEMMA PoolTakesTx ==
    ASSUME NEW p, NEW txs, NEW leads \in BOOLEAN, NEW isLocal, NEW ldg, IsPool(p)
    PROVE  LET res == ProcessTransactions(p, txs, leads, isLocal, ldg)
           IN IsPool(res.pool) /\ res.batch.height \in Nat
<1> DEFINE valid == Valid(p.store, txs, ldg)
           s == insertTxs(Caching(p.store, Accounts(Range(txs)), ldg), txs, valid, isLocal)
           st == FoldSet(LAMBDA a, x : processDirtyAccount(x, a, ldg), s, {txs[i].acc : i \in valid})
           q == [p EXCEPT !.store = st]
<1>1. ProcessTransactions(p, txs, leads, isLocal, ldg)
        = IF leads /\ q.store.count >= BatchSize /\ ~IsTimed THEN generateBlock(q, ldg)
          ELSE [pool |-> q, batch |-> NoBatch]
  BY DEF ProcessTransactions
<1> HIDE DEF st
<1>2. IsPool(q) BY DEF IsPool
<1> HIDE DEF q
<1>3. IsPool(generateBlock(q, ldg).pool) /\ generateBlock(q, ldg).batch.height \in Nat
  BY <1>2, BatchNumbered
<1>4. QED BY <1>1, <1>2, <1>3 DEF NoBatch

\* A committed block leaves it alone as well (processCommitTransactions).
LEMMA PoolCommits ==
    ASSUME NEW p, NEW hashes, NEW ldg, IsPool(p)
    PROVE  IsPool(processCommitTransactions(p, hashes, ldg))
  BY DEF processCommitTransactions, IsPool

-----------------------------------------------------------------------------
(* What the invariant reads of a node, and of the log. *)

Same(r, s) ==
    /\ s.applied = r.applied /\ s.lastExec = r.lastExec /\ s.bai = r.bai /\ s.queue = r.queue
    /\ s.reports = r.reports /\ s.chain = r.chain /\ s.db = r.db /\ s.snap = r.snap

\* A step that touches the pool, the timer or the view of the leader only.
LEMMA SameBooks ==
    ASSUME NEW r, NEW s, Same(r, s), NEW lg, NEW c
    PROVE  /\ BooksOK(r, lg, c) => BooksOK(s, lg, c)
           /\ \A P : OnPath(r, P, lg) => OnPath(s, P, lg)
           /\ \A P : Steady(r, P) => Steady(s, P)
           /\ \A P : NoneAbove(r, P, lg, c) => NoneAbove(s, P, lg, c)
<1>1. BooksOK(r, lg, c) => BooksOK(s, lg, c) BY ZenonT(30) DEF Same, BooksOK, ChainHeight
<1>2. \A P : OnPath(r, P, lg) => OnPath(s, P, lg) BY ZenonT(30) DEF Same, OnPath
<1>3. \A P : Steady(r, P) => Steady(s, P) BY ZenonT(30) DEF Same, Steady
<1>4. \A P : NoneAbove(r, P, lg, c) => NoneAbove(s, P, lg, c) BY ZenonT(30) DEF Same, NoneAbove
<1>5. QED BY <1>1, <1>2, <1>3, <1>4

\* The log changes behind what is committed only (Propose, Elect), and more of it is
\* committed.
LEMMA LogGrows ==
    ASSUME NEW r, NEW lg, NEW lg2, NEW c \in Nat, NEW c2 \in Nat, c <= c2,
           \A i \in 1..c : lg2[i] = lg[i]
    PROVE  BooksOK(r, lg, c) => BooksOK(r, lg2, c2)
<1> SUFFICES ASSUME BooksOK(r, lg, c) PROVE BooksOK(r, lg2, c2)
  OBVIOUS
<1>1. IndexesFit(r.bai, r.lastExec, lg2, c2)
  <2>1. IndexesFit(r.bai, r.lastExec, lg, c) BY DEF BooksOK
  <2>2. ASSUME NEW h \in DOMAIN r.bai
        PROVE  /\ h \in Genesis..r.lastExec /\ r.bai[h] \in 0..c2
               /\ r.bai[h] > 0 => lg2[r.bai[h]].height \in (Genesis + 1)..h
    <3>1. /\ h \in Genesis..r.lastExec /\ r.bai[h] \in 0..c
          /\ r.bai[h] > 0 => lg[r.bai[h]].height \in (Genesis + 1)..h
      BY <2>1 DEF IndexesFit
    <3>2. r.bai[h] \in 0..c2 BY <3>1
    <3>3. r.bai[h] > 0 => lg2[r.bai[h]] = lg[r.bai[h]] BY <3>1
    <3>4. QED BY <3>1, <3>2, <3>3
  <2>3. QED BY <2>1, <2>2 DEF IndexesFit
<1>2. r.db \in 0..c2 /\ (r.db > 0 => lg2[r.db].height \in (Genesis + 1)..ChainHeight(r))
  <2>1. r.db \in 0..c /\ (r.db > 0 => lg[r.db].height \in (Genesis + 1)..ChainHeight(r))
    BY DEF BooksOK
  <2>2. r.db > 0 => lg2[r.db] = lg[r.db] BY <2>1
  <2>3. QED BY <2>1, <2>2
<1>3. r.applied \in 0..c2 BY DEF BooksOK
<1>4. QED BY <1>1, <1>2, <1>3 DEF BooksOK

\* The same for the path of the blocks.
LEMMA PathGrows ==
    ASSUME NEW lg, NEW lg2, NEW c \in Nat, \A i \in 1..c : lg2[i] = lg[i],
           NEW P \in Seq(Nat), Path(P, lg, c)
    PROVE  /\ Path(P, lg2, c)
           /\ \A r : r.lastExec \in Nat /\ OnPath(r, P, lg) => OnPath(r, P, lg2)
           /\ \A r : r.applied \in 0..c /\ NoneAbove(r, P, lg, c) => NoneAbove(r, P, lg2, c)
<1>1. \A k \in 1..Len(P) : P[k] \in 1..c /\ lg2[P[k]] = lg[P[k]] BY DEF Path
<1>2. Path(P, lg2, c)
  <2>1. \A k \in 1..Len(P) : P[k] \in 1..c /\ lg2[P[k]].height = Genesis + k BY <1>1 DEF Path
  <2>2. \A k \in 0..Len(P) : \A i \in 1..c :
          At(P, k) < i /\ (k < Len(P) => i < P[k + 1]) => lg2[i].height # Genesis + k + 1
    BY DEF Path
  <2>3. QED BY <2>1, <2>2 DEF Path
<1>3. ASSUME NEW r, r.lastExec \in Nat, OnPath(r, P, lg) PROVE OnPath(r, P, lg2)
  <2> DEFINE l == r.lastExec - Genesis
  <2>1. l <= Len(P) /\ l \in Int /\ Len(P) \in Nat BY <1>3 DEF OnPath, Genesis
  <2>2. \A k \in 1..l : (r.chain \o r.queue)[k] = lg[P[k]].txs BY ZenonT(30), <1>3 DEF OnPath
  <2>3. \A k \in 1..l : lg2[P[k]] = lg[P[k]] BY <2>1, <1>1
  <2>4. \A k \in 1..l : (r.chain \o r.queue)[k] = lg2[P[k]].txs BY ZenonT(30), <2>2, <2>3
  <2>5. QED BY ZenonT(30), <2>4, <1>3 DEF OnPath
<1>4. ASSUME NEW r, r.applied \in 0..c, NoneAbove(r, P, lg, c) PROVE NoneAbove(r, P, lg2, c)
  <2>1. \A j \in 1..r.applied : j \in 1..c BY <1>4
  <2>2. QED BY <1>4, <2>1 DEF NoneAbove
<1>5. QED BY <1>2, <1>3, <1>4

\* Positions on a path: within what is committed, and growing.
LEMMA Positions ==
    ASSUME NEW lg, NEW c \in Nat, NEW P \in Seq(Nat), Path(P, lg, c)
    PROVE  /\ \A k \in 0..Len(P) : At(P, k) \in 0..c
           /\ \A j, k \in 0..Len(P) : j <= k => At(P, j) <= At(P, k)
           /\ \A k \in 0..Len(P) : k < Len(P) => At(P, k) < P[k + 1] /\ P[k + 1] \in 1..c
<1>1. \A k \in 1..Len(P) : P[k] \in 1..c BY DEF Path
<1>2. \A j, k \in 1..Len(P) : j < k => P[j] < P[k] BY DEF Path
<1>3. \A k \in 0..Len(P) : At(P, k) \in 0..c BY <1>1 DEF At
<1>4. \A j, k \in 0..Len(P) : j <= k => At(P, j) <= At(P, k)
  <2> TAKE j, k \in 0..Len(P)
  <2>1. CASE j = 0 BY <2>1, <1>3 DEF At
  <2>2. CASE j # 0 /\ j < k BY <2>2, <1>1, <1>2 DEF At
  <2>3. CASE j = k BY <2>3, <1>3
  <2>4. QED BY <2>1, <2>2, <2>3
<1>5. ASSUME NEW k \in 0..Len(P), k < Len(P) PROVE At(P, k) < P[k + 1] /\ P[k + 1] \in 1..c
  <2>1. P[k + 1] \in 1..c BY <1>5, <1>1
  <2>2. k # 0 => P[k] < P[k + 1] BY <1>5, <1>2
  <2>3. QED BY <2>1, <2>2 DEF At
<1>6. QED BY <1>3, <1>4, <1>5

\* The numbers of a node's books.
LEMMA Counted ==
    ASSUME NEW r, NEW lg, NEW c \in Nat, BooksOK(r, lg, c)
    PROVE  /\ Len(r.chain) \in Nat /\ Len(r.queue) \in Nat
           /\ r.lastExec - Genesis = Len(r.chain) + Len(r.queue) /\ r.lastExec \in Nat \ {0}
           /\ r.lastExec - Genesis \in Nat /\ ChainHeight(r) = Genesis + Len(r.chain)
           /\ Len(r.chain) \in 0..(r.lastExec - Genesis)
           /\ r.applied \in 0..c /\ r.snap.index \in 0..r.applied /\ r.snap.height \in Nat \ {0}
           /\ r.db \in 0..c
<1>1. IsSeq(r.chain) /\ IsSeq(r.queue) /\ r.lastExec = Genesis + Len(r.chain) + Len(r.queue)
  BY DEF BooksOK
<1>2. Len(r.chain) \in Nat /\ Len(r.queue) \in Nat BY <1>1, Joined
<1>3. /\ r.applied \in 0..c /\ r.snap.index \in 0..r.applied /\ r.snap.height \in Nat \ {0}
      /\ r.db \in 0..c
  BY DEF BooksOK
<1>4. ASSUME NEW x, NEW a \in Nat, NEW b \in Nat, x = Genesis + a + b
      PROVE  x - Genesis = a + b /\ x \in Nat \ {0} /\ x - Genesis \in Nat /\ a \in 0..(x - Genesis)
  BY <1>4 DEF Genesis
<1>5. /\ r.lastExec - Genesis = Len(r.chain) + Len(r.queue) /\ r.lastExec \in Nat \ {0}
      /\ r.lastExec - Genesis \in Nat /\ Len(r.chain) \in 0..(r.lastExec - Genesis)
  BY ZenonT(30), <1>1, <1>2, <1>4
<1>6. QED BY ZenonT(30), <1>2, <1>3, <1>5 DEF ChainHeight

\* One more entry is committed (Commit): it is the next block of the path if it has the
\* next height, and no node has come to it.
LEMMA PathExtends ==
    ASSUME NEW lg, NEW c \in Nat, NEW P \in Seq(Nat), Path(P, lg, c)
    PROVE  \E Q \in Seq(Nat) :
              /\ Path(Q, lg, c + 1)
              /\ \A r : BooksOK(r, lg, c) /\ OnPath(r, P, lg) =>
                    /\ OnPath(r, Q, lg)
                    /\ Steady(r, P) => Steady(r, Q)
                    /\ NoneAbove(r, P, lg, c) => NoneAbove(r, Q, lg, c + 1)
<1> DEFINE N == Len(P)
<1>1. N \in Nat /\ N = Len(P) /\ \A k \in 1..N : P[k] \in 1..c BY DEF Path
<1>a. \A k \in 0..N : At(P, k) \in 0..c BY ZenonT(30), Positions
<1>2. CASE lg[c + 1].height # Genesis + N + 1
  <2>1. Path(P, lg, c + 1)
    <3>1. \A k \in 1..N : P[k] \in 1..(c + 1) /\ lg[P[k]].height = Genesis + k
      BY <1>1 DEF Path
    <3>2. ASSUME NEW k \in 0..N, NEW i \in 1..(c + 1), At(P, k) < i, k < N => i < P[k + 1]
          PROVE  lg[i].height # Genesis + k + 1
      <4>1. CASE i \in 1..c BY <3>2, <4>1 DEF Path
      <4>2. CASE i = c + 1
        <5>1. ~(k < N) BY <3>2, <4>2, <1>1
        <5>2. k = N BY <5>1, <1>1
        <5>3. QED BY <5>2, <4>2, <1>2
      <4>3. QED BY <4>1, <4>2
    <3>3. QED BY <3>1, <3>2 DEF Path
  <2>2. ASSUME NEW r, BooksOK(r, lg, c), OnPath(r, P, lg), NoneAbove(r, P, lg, c)
        PROVE  NoneAbove(r, P, lg, c + 1)
    <3>1. r.lastExec \in Nat /\ r.lastExec - Genesis \in 0..N
      <4>1. r.lastExec - Genesis <= N BY <2>2 DEF OnPath
      <4>2. r.lastExec \in Nat /\ r.lastExec - Genesis \in Nat BY ZenonT(30), <2>2, Counted
      <4>3. QED BY <4>1, <4>2, <1>1
    <3>2. \A k \in 0..(r.lastExec - Genesis) : At(P, k) \in 0..c BY <3>1, <1>a
    <3>3. ASSUME NEW k \in 0..(r.lastExec - Genesis), NEW j \in 1..(c + 1), j <= At(P, k)
          PROVE  lg[j].height <= Genesis + k
      <4>1. j \in 1..c BY <3>2, <3>3
      <4>2. QED BY <4>1, <3>3, <2>2 DEF NoneAbove
    <3>4. QED BY <3>3, <2>2 DEF NoneAbove
  <2>3. QED BY <2>1, <2>2
<1>3. CASE lg[c + 1].height = Genesis + N + 1
  <2> DEFINE Q == Append(P, c + 1)
  <2>1. /\ Q \in Seq(Nat) /\ Len(Q) = N + 1 /\ Q[N + 1] = c + 1
        /\ \A k \in 1..N : Q[k] = P[k]
    BY <1>1
  <2> HIDE DEF Q, N
  <2>2. \A k \in 0..N : At(Q, k) = At(P, k) BY <2>1 DEF At
  <2>3. Path(Q, lg, c + 1)
    <3>1. ASSUME NEW k \in 1..(N + 1) PROVE Q[k] \in 1..(c + 1) /\ lg[Q[k]].height = Genesis + k
      <4>1. CASE k \in 1..N
        <5>1. P[k] \in 1..c /\ lg[P[k]].height = Genesis + k BY <4>1, <1>1 DEF Path
        <5>2. QED BY <5>1, <4>1, <2>1
      <4>2. CASE k = N + 1
        <5>1. Q[k] = c + 1 BY <4>2, <2>1
        <5>2. QED BY <5>1, <4>2, <1>3, <1>1 DEF Genesis
      <4>3. QED BY <4>1, <4>2, <1>1
    <3>2. ASSUME NEW j \in 1..(N + 1), NEW k \in 1..(N + 1), j < k PROVE Q[j] < Q[k]
      <4>1. j \in 1..N BY <3>2, <1>1
      <4>2. CASE k \in 1..N
        <5>1. P[j] < P[k] BY ZenonT(30), <4>1, <4>2, <3>2, <1>1 DEF Path
        <5>2. QED BY <5>1, <4>1, <4>2, <2>1
      <4>3. CASE k = N + 1
        <5>1. Q[k] = c + 1 /\ Q[j] = P[j] /\ P[j] \in 1..c BY <4>1, <4>3, <2>1, <1>1
        <5>2. QED BY <5>1
      <4>4. QED BY <4>2, <4>3, <1>1
    <3>3. ASSUME NEW k \in 0..(N + 1), NEW i \in 1..(c + 1), At(Q, k) < i, k < N + 1 => i < Q[k + 1]
          PROVE  lg[i].height # Genesis + k + 1
      <4>1. k # N + 1
        <5>1. k = N + 1 => At(Q, k) = c + 1 BY <2>1, <1>1 DEF At
        <5>2. QED BY <5>1, <3>3
      <4>2. k \in 0..N /\ i < Q[k + 1] /\ At(P, k) < i BY <4>1, <3>3, <2>2, <1>1
      <4>3. i \in 1..c
        <5>1. Q[k + 1] <= c + 1 BY <4>2, <3>1, <1>1
        <5>2. QED BY <5>1, <4>2, <3>1, <1>1
      <4>4. ASSUME k < N PROVE i < P[k + 1]
        <5>1. k + 1 \in 1..N BY <4>2, <4>4, <1>1
        <5>2. QED BY <5>1, <4>2, <2>1
      <4>5. QED BY <4>2, <4>3, <4>4, <1>1 DEF Path
    <3>4. QED BY ZenonT(30), <3>1, <3>2, <3>3, <2>1 DEF Path
  <2>4. ASSUME NEW r, BooksOK(r, lg, c), OnPath(r, P, lg)
        PROVE  /\ OnPath(r, Q, lg)
               /\ Steady(r, P) => Steady(r, Q)
               /\ NoneAbove(r, P, lg, c) => NoneAbove(r, Q, lg, c + 1)
    <3> DEFINE l == r.lastExec - Genesis
    <3>1. /\ r.lastExec \in Nat /\ l \in 0..N /\ r.applied \in 0..c
          /\ Len(r.chain) \in 0..l /\ r.snap.index \in 0..r.applied /\ r.snap.height \in Nat \ {0}
      <4>1. l <= N BY <2>4, <1>1 DEF OnPath
      <4>2. r.lastExec \in Nat /\ l \in Nat /\ Len(r.chain) \in 0..l BY ZenonT(30), <2>4, Counted
      <4>3. r.applied \in 0..c /\ r.snap.index \in 0..r.applied /\ r.snap.height \in Nat \ {0}
        BY ZenonT(30), <2>4, Counted
      <4> HIDE DEF l
      <4>4. QED BY <4>1, <4>2, <4>3, <1>1
    <3>2. At(Q, l) = At(P, l) /\ At(Q, Len(r.chain)) = At(P, Len(r.chain)) BY <3>1, <2>2, <1>1
    <3>3. l < N + 1 => r.applied < Q[l + 1]
      <4>1. CASE l < N
        <5>1. r.applied < P[l + 1] BY <4>1, <2>4, <1>1 DEF OnPath
        <5>2. l + 1 \in 1..N BY <4>1, <3>1, <1>1
        <5>3. Q[l + 1] = P[l + 1] BY <5>2, <2>1
        <5>4. QED BY <5>1, <5>3
      <4>2. CASE l = N
        <5>1. Q[l + 1] = c + 1 BY <4>2, <2>1
        <5>2. QED BY <5>1, <3>1
      <4>3. QED BY <4>1, <4>2, <3>1, <1>1
    <3>4. OnPath(r, Q, lg)
      <4>1. \A k \in 1..l : (r.chain \o r.queue)[k] = lg[Q[k]].txs
        <5>1. \A k \in 1..l : (r.chain \o r.queue)[k] = lg[P[k]].txs BY ZenonT(30), <2>4 DEF OnPath
        <5>2. \A k \in 1..l : Q[k] = P[k] BY <3>1, <2>1, <1>1
        <5>3. QED BY ZenonT(30), <5>1, <5>2
      <4>2. ASSUME NEW h \in DOMAIN r.bai PROVE r.bai[h] <= At(Q, h - Genesis)
        <5>1. r.bai[h] <= At(P, h - Genesis) BY <2>4 DEF OnPath
        <5>2. h \in Genesis..r.lastExec BY <2>4 DEF BooksOK, IndexesFit
        <5>3. h - Genesis \in 0..N BY <5>2, <3>1, <1>1 DEF Genesis
        <5>4. QED BY <5>1, <5>3, <2>2
      <4>3. r.db <= At(Q, Len(r.chain)) BY <2>4, <3>2 DEF OnPath
      <4>4. l <= Len(Q) /\ (l < Len(Q) => r.applied < Q[l + 1]) BY <3>1, <3>3, <2>1, <1>1
      <4>5. QED BY ZenonT(30), <4>1, <4>2, <4>3, <4>4 DEF OnPath
    <3>5. ASSUME Steady(r, P) PROVE Steady(r, Q)
      <4> DEFINE s == r.snap.height - Genesis
      <4>1. s \in 0..N BY SMTT(30), <3>1, <3>5, <1>1 DEF Steady, Level, Genesis
      <4>2. At(Q, s) = At(P, s) BY <4>1, <2>2
      <4>3. s < N + 1 => r.snap.index < Q[s + 1]
        <5>1. CASE s < N
          <6>1. r.snap.index < P[s + 1] BY <5>1, <3>5, <1>1 DEF Steady, Level
          <6>2. s + 1 \in 1..N BY <5>1, <4>1, <1>1
          <6>3. Q[s + 1] = P[s + 1] BY <6>2, <2>1
          <6>4. QED BY <6>1, <6>3
        <5>2. CASE s = N
          <6>1. Q[s + 1] = c + 1 BY <5>2, <2>1
          <6>2. QED BY <6>1, <3>1
        <5>3. QED BY <5>1, <5>2, <4>1, <1>1
      <4>4. Level(Q, r.snap.index, r.snap.height)
        BY <4>1, <4>2, <4>3, <3>5, <2>1, <1>1 DEF Steady, Level
      <4>5. QED BY <4>4, <3>2, <3>5 DEF Steady
    <3>6. ASSUME NoneAbove(r, P, lg, c) PROVE NoneAbove(r, Q, lg, c + 1)
      <4>1. ASSUME NEW k \in 0..l, NEW j \in 1..(c + 1), j <= At(Q, k)
            PROVE  lg[j].height <= Genesis + k
        <5>1. k \in 0..N BY <3>1, <1>1
        <5>2. At(Q, k) = At(P, k) /\ At(P, k) \in 0..c BY <5>1, <2>2, <1>a
        <5>3. j \in 1..c /\ j <= At(P, k) BY <5>2, <4>1
        <5>4. QED BY <5>3, <3>6 DEF NoneAbove
      <4>2. QED BY <4>1, <3>6 DEF NoneAbove
    <3>7. QED BY <3>4, <3>5, <3>6
  <2>5. QED BY <2>1, <2>3, <2>4
<1>4. QED BY <1>2, <1>3

-----------------------------------------------------------------------------
(* Ready. *)

\* publishEntries does one of two things with an entry.
Passed(r, i) == [r EXCEPT !.applied = i]
Minted(r, s, i) ==
    /\ DOMAIN s = DOMAIN r /\ IsPool(s.pool)
    /\ s.prop = r.prop /\ s.hand = r.hand /\ s.loop = r.loop
    /\ s.applied = i /\ s.lastExec = log[i].height /\ s.bai = Put(r.bai, log[i].height, i)
    /\ s.queue = Append(r.queue, log[i].txs)
    /\ s.reports = r.reports /\ s.chain = r.chain /\ s.db = r.db /\ s.snap = r.snap

\* It mints a batch of the next height that is not below the recorded index.
LEMMA PublishCases ==
    ASSUME NEW r, NEW n, NEW i, LoopOK(r), log[i].height \in Nat
    PROVE  LET s == publishEntries(r, n, i) IN
           \/ /\ s = Passed(r, i)
              /\ log[i] = Empty \/ getBlockAppliedIndex(r) >= i \/ log[i].height # r.lastExec + 1
           \/ /\ Minted(r, s, i)
              /\ ~(getBlockAppliedIndex(r) >= i) /\ log[i].height = r.lastExec + 1
<1>1. CASE log[i] = Empty \/ getBlockAppliedIndex(r) >= i \/ log[i].height # r.lastExec + 1
  BY <1>1 DEF publishEntries, Passed
<1>2. CASE ~(log[i] = Empty \/ getBlockAppliedIndex(r) >= i \/ log[i].height # r.lastExec + 1)
  <2> DEFINE q == mint(r, log[i])
             seq == IF isLeader(r, n) THEN q.pool.seq ELSE log[i].height
             s == [q EXCEPT !.applied = i, !.bai = Put(@, log[i].height, i),
                            !.lastExec = log[i].height, !.pool.seq = seq]
  <2>1. publishEntries(r, n, i) = s BY <1>2 DEF publishEntries
  <2>2. DOMAIN q = Fields /\ q.queue = Append(r.queue, log[i].txs)
    BY DEF mint, LoopOK, Fields
  <2>3. \A f \in Fields \ {"queue"} : q[f] = r[f] BY DEF mint, LoopOK, Fields
  <2> HIDE DEF q
  <2>4. seq \in Nat BY <2>3 DEF LoopOK, IsPool, Fields
  <2> HIDE DEF seq
  <2>5. DOMAIN s = Fields /\ \A f \in Fields \ {"applied", "bai", "lastExec", "pool"} : s[f] = q[f]
    BY ZenonT(30), <2>2 DEF Fields
  <2>6. /\ s.applied = i /\ s.bai = Put(q.bai, log[i].height, i) /\ s.lastExec = log[i].height
        /\ s.pool = [q.pool EXCEPT !.seq = seq]
    BY <2>2 DEF Fields
  <2> HIDE DEF s
  <2>7. IsPool(s.pool)
    <3>1. IsPool(q.pool) BY <2>3 DEF LoopOK, Fields
    <3>2. QED BY <3>1, <2>4, <2>6 DEF IsPool
  <2>8. Minted(r, s, i)
    BY ZenonT(30), <2>2, <2>3, <2>5, <2>6, <2>7 DEF Minted, LoopOK, Fields
  <2>9. QED BY <2>1, <2>8, <1>2
<1>3. QED BY <1>1, <1>2

\* The index read by getBlockAppliedIndex is one of those recorded.
LEMMA ReadsRecorded ==
    ASSUME NEW r, NEW lg, NEW c, IndexesFit(r.bai, r.lastExec, lg, c)
    PROVE  \E h \in DOMAIN r.bai : getBlockAppliedIndex(r) = r.bai[h]
<1> DEFINE S == DOMAIN r.bai
           top == CHOOSE h \in S : \A k \in S : k <= h
<1>1. \E h \in S : \A k \in S : k <= h BY DEF IndexesFit
<1>2. top \in S BY <1>1
<1>3. getBlockAppliedIndex(r) = r.bai[top] BY <1>2 DEF getBlockAppliedIndex
<1>4. QED BY ZenonT(30), <1>2, <1>3

\* A minted batch fits the books.
LEMMA MintFits ==
    ASSUME NEW r, NEW s, NEW i, LogOK, BooksOK(r, log, commit),
           i = r.applied + 1, i <= commit, Minted(r, s, i), log[i].height = r.lastExec + 1
    PROVE  BooksOK(s, log, commit)
<1>1. commit \in Nat BY DEF LogOK
<1>2. /\ Len(r.chain) \in Nat /\ Len(r.queue) \in Nat /\ r.lastExec \in Nat \ {0}
      /\ r.lastExec = Genesis + Len(r.chain) + Len(r.queue) /\ IsSeq(r.chain) /\ IsSeq(r.queue)
      /\ r.applied \in 0..commit
  BY ZenonT(30), <1>1, Counted DEF BooksOK
<1>3. i \in 1..commit /\ r.applied <= i BY <1>1, <1>2
<1>4. IsSeq(s.queue) /\ Len(s.queue) = Len(r.queue) + 1
  BY <1>2, Appended DEF Minted
<1>5. s.lastExec = Genesis + Len(s.chain) + Len(s.queue)
  <2>1. ASSUME NEW x, NEW a \in Nat, NEW b \in Nat, NEW y, NEW d, x = Genesis + a + b, y = x + 1, d = b + 1
        PROVE  y = Genesis + a + d
    BY <2>1 DEF Genesis
  <2>2. s.lastExec = r.lastExec + 1 /\ s.chain = r.chain BY DEF Minted
  <2>3. s.lastExec = Genesis + Len(r.chain) + Len(s.queue) BY <1>2, <1>4, <2>1, <2>2
  <2>4. QED BY ZenonT(30), <2>2, <2>3
<1>6. IndexesFit(s.bai, s.lastExec, log, commit)
  <2> DEFINE t == r.lastExec + 1
  <2>1. /\ DOMAIN s.bai = DOMAIN r.bai \cup {t} /\ s.bai[t] = i /\ s.lastExec = t
        /\ \A h \in DOMAIN r.bai : h # t => s.bai[h] = r.bai[h]
    BY DEF Minted, Put
  <2>2. \A h \in DOMAIN r.bai :
           /\ h \in Genesis..r.lastExec /\ r.bai[h] \in 0..commit
           /\ r.bai[h] > 0 => log[r.bai[h]].height \in (Genesis + 1)..h
    BY DEF BooksOK, IndexesFit
  <2>a. ASSUME NEW x \in Nat \ {0} PROVE x + 1 \in Nat /\ x + 1 > x /\ x + 1 \in (Genesis + 1)..(x + 1)
    BY DEF Genesis
  <2>3. t \in Nat /\ t > r.lastExec /\ t \in (Genesis + 1)..t BY ZenonT(30), <2>a, <1>2
  <2>4. \A h \in DOMAIN r.bai : h \in Int /\ h < t /\ h \in Genesis..t
    <3> TAKE h \in DOMAIN r.bai
    <3>1. h \in Genesis..r.lastExec BY <2>2
    <3>2. ASSUME NEW x \in Nat \ {0}, NEW y \in Genesis..x
          PROVE  y \in Int /\ y < x + 1 /\ y \in Genesis..(x + 1)
      BY DEF Genesis
    <3>3. QED BY ZenonT(30), <3>1, <3>2, <1>2
  <2> HIDE DEF t
  <2>5. ASSUME NEW h \in DOMAIN s.bai
        PROVE  /\ h \in Genesis..t /\ s.bai[h] \in 0..commit
               /\ s.bai[h] > 0 => log[s.bai[h]].height \in (Genesis + 1)..h
    <3>1. CASE h = t
      <4>1. log[i].height = t BY DEF t
      <4>2. QED BY <4>1, <3>1, <2>1, <2>3, <1>3 DEF Genesis
    <3>2. CASE h \in DOMAIN r.bai /\ h # t
      <4>1. s.bai[h] = r.bai[h] BY <3>2, <2>1
      <4>2. QED BY <4>1, <3>2, <2>2, <2>4
    <3>3. QED BY <3>1, <3>2, <2>1
  <2>6. t \in DOMAIN s.bai /\ \A k \in DOMAIN s.bai : k <= t BY <2>1, <2>3, <2>4
  <2>7. QED BY <2>1, <2>5, <2>6 DEF IndexesFit
<1>7. s.snap.index \in 0..s.applied
  <2>1. r.snap.index \in 0..r.applied BY DEF BooksOK
  <2>2. s.snap = r.snap /\ s.applied = i BY DEF Minted
  <2>3. QED BY <2>1, <2>2, <1>2, <1>3
<1>8. /\ s.chain = r.chain /\ s.reports = r.reports /\ s.db = r.db /\ s.snap = r.snap /\ s.applied = i
      /\ ChainHeight(s) = ChainHeight(r)
  BY DEF Minted, ChainHeight
<1>9. s.applied \in 0..commit BY <1>3, <1>8
<1>10. QED BY <1>2, <1>4, <1>5, <1>6, <1>7, <1>8, <1>9 DEF BooksOK

\* So does an entry that is passed over.
LEMMA PassFits ==
    ASSUME NEW r, NEW i, LogOK, LoopOK(r), BooksOK(r, log, commit), i = r.applied + 1, i <= commit
    PROVE  LoopOK(Passed(r, i)) /\ BooksOK(Passed(r, i), log, commit)
<1> DEFINE s == Passed(r, i)
<1>1. DOMAIN r = Fields BY DEF LoopOK
<1>2. DOMAIN s = Fields /\ s.applied = i /\ \A f \in Fields \ {"applied"} : s[f] = r[f]
  BY <1>1 DEF Passed, Fields
<1> HIDE DEF s
<1>3. LoopOK(s) BY <1>2 DEF LoopOK, Fields
<1>4. /\ s.lastExec = r.lastExec /\ s.bai = r.bai /\ s.queue = r.queue /\ s.reports = r.reports
      /\ s.chain = r.chain /\ s.db = r.db /\ s.snap = r.snap
  BY <1>2 DEF Fields
<1>5. commit \in Nat BY DEF LogOK
<1>6. r.applied \in 0..commit /\ r.snap.index \in 0..r.applied BY DEF BooksOK
<1>7. s.applied \in 0..commit /\ s.snap.index \in 0..s.applied
  <2>1. i \in 0..commit /\ r.snap.index \in 0..i BY <1>5, <1>6
  <2>2. QED BY <2>1, <1>2, <1>4
<1>8. ChainHeight(s) = ChainHeight(r) BY <1>4 DEF ChainHeight
<1>9. BooksOK(s, log, commit) BY ZenonT(30), <1>4, <1>7, <1>8 DEF BooksOK
<1>10. QED BY <1>3, <1>9 DEF s

\* A node never has an index recorded past the block it is at.
LEMMA IndexOnPath ==
    ASSUME NEW r, NEW P \in Seq(Nat), commit \in Nat, BooksOK(r, log, commit),
           Path(P, log, commit), OnPath(r, P, log)
    PROVE  /\ getBlockAppliedIndex(r) <= At(P, r.lastExec - Genesis)
           /\ getBlockAppliedIndex(r) \in Nat /\ At(P, r.lastExec - Genesis) \in Nat
<1> DEFINE l == r.lastExec - Genesis
<1>1. l \in Nat /\ l <= Len(P) /\ l \in 0..Len(P)
  <2>1. l \in Nat BY ZenonT(30), Counted
  <2>2. l <= Len(P) BY DEF OnPath
  <2> HIDE DEF l
  <2>3. QED BY <2>1, <2>2
<1>2. IndexesFit(r.bai, r.lastExec, log, commit) BY DEF BooksOK
<1>3. PICK h \in DOMAIN r.bai : getBlockAppliedIndex(r) = r.bai[h] BY ZenonT(30), <1>2, ReadsRecorded
<1>4. h \in Genesis..r.lastExec /\ r.bai[h] \in 0..commit BY <1>2 DEF IndexesFit
<1>5. r.bai[h] <= At(P, h - Genesis) BY DEF OnPath
<1>6. h - Genesis \in 0..l
  <2>1. r.lastExec \in Nat BY ZenonT(30), Counted
  <2>2. QED BY <1>4, <2>1 DEF Genesis
<1> HIDE DEF l
<1>7. h - Genesis \in 0..Len(P) /\ h - Genesis <= l BY <1>1, <1>6
<1>8. At(P, h - Genesis) <= At(P, l) /\ At(P, l) \in 0..commit /\ At(P, h - Genesis) \in 0..commit
  BY ZenonT(30), <1>1, <1>7, Positions
<1>9. r.bai[h] <= At(P, l) /\ r.bai[h] \in Nat /\ At(P, l) \in Nat
  <2>1. ASSUME NEW x \in 0..commit, NEW y \in 0..commit, NEW z \in 0..commit, x <= y, y <= z
        PROVE  x <= z /\ x \in Nat /\ z \in Nat
    BY <2>1
  <2>2. QED BY <2>1, <1>4, <1>5, <1>8
<1>10. QED BY <1>3, <1>9 DEF l

\* A minted batch is the next block of the path: what lies between the last block and
\* it has other heights, and nothing of its height was applied before.
LEMMA MintIsNext ==
    ASSUME NEW r, NEW i, NEW P \in Seq(Nat), LogOK, BooksOK(r, log, commit),
           i = r.applied + 1, i <= commit, log[i].height = r.lastExec + 1,
           Path(P, log, commit), OnPath(r, P, log),
           Steady(r, P) \/ NoneAbove(r, P, log, commit)
    PROVE  r.lastExec - Genesis < Len(P) /\ P[r.lastExec - Genesis + 1] = i
<1> DEFINE l == r.lastExec - Genesis
<1>1. commit \in Nat BY DEF LogOK
<1>2. /\ l \in Nat /\ r.applied \in 0..commit /\ l <= Len(P)
      /\ (l < Len(P) => r.applied < P[l + 1])
  BY ZenonT(30), <1>1, Counted DEF OnPath
<1>3. log[i].height = Genesis + l + 1
  <2>1. r.lastExec \in Nat BY ZenonT(30), <1>1, Counted
  <2>2. QED BY <2>1 DEF Genesis
<1>4. /\ Steady(r, P) => At(P, l) <= r.applied
      /\ NoneAbove(r, P, log, commit) =>
           \A k \in 0..l : \A j \in 1..commit : j <= At(P, k) => log[j].height <= Genesis + k
  BY DEF Steady, NoneAbove
<1> HIDE DEF l
<1>5. i \in 1..commit /\ i > r.applied BY <1>1, <1>2
<1>6. l \in 0..Len(P) BY <1>2
<1>7. At(P, l) \in 0..commit BY ZenonT(30), <1>1, <1>6, Positions
<1>8. At(P, l) < i
  <2>1. CASE At(P, l) <= r.applied BY <2>1, <1>2, <1>5, <1>7
  <2>2. CASE \A k \in 0..l : \A j \in 1..commit : j <= At(P, k) => log[j].height <= Genesis + k
    <3>1. i <= At(P, l) => log[i].height <= Genesis + l BY <2>2, <1>2, <1>5
    <3>2. ~(i <= At(P, l))
      <4>1. ~(Genesis + l + 1 <= Genesis + l) BY <1>2 DEF Genesis
      <4>2. QED BY <4>1, <3>1, <1>3
    <3>3. QED BY <3>2, <1>5, <1>7
  <2>3. QED BY <2>1, <2>2, <1>4
<1>9. ~(l < Len(P) => i < P[l + 1]) BY <1>3, <1>5, <1>6, <1>8 DEF Path
<1>10. P[l + 1] \in 1..commit BY ZenonT(30), <1>1, <1>6, <1>9, Positions
<1>11. P[l + 1] = i BY <1>2, <1>5, <1>9, <1>10
<1>12. QED BY <1>9, <1>11 DEF l

\* A node that mints stays on the path.
LEMMA MintOnPath ==
    ASSUME NEW r, NEW s, NEW i, NEW P \in Seq(Nat), LogOK, BooksOK(r, log, commit),
           i = r.applied + 1, i <= commit, Minted(r, s, i), log[i].height = r.lastExec + 1,
           Path(P, log, commit), OnPath(r, P, log),
           Steady(r, P) \/ NoneAbove(r, P, log, commit)
    PROVE  /\ OnPath(s, P, log)
           /\ Steady(r, P) => Steady(s, P)
           /\ NoneAbove(r, P, log, commit) => NoneAbove(s, P, log, commit)
<1> DEFINE l == r.lastExec - Genesis
           a == Len(r.chain)
           b == Len(r.queue)
<1>1. commit \in Nat BY DEF LogOK
<1>2. l < Len(P) /\ P[l + 1] = i BY MintIsNext
<1>3. /\ l \in Nat /\ l = a + b /\ a \in Nat /\ b \in Nat /\ r.applied \in 0..commit
      /\ r.snap.height \in Nat \ {0} /\ r.lastExec \in Nat \ {0}
  BY ZenonT(30), <1>1, Counted
<1>4. r.lastExec = Genesis + l /\ s.lastExec - Genesis = l + 1 /\ s.lastExec = Genesis + (l + 1)
  <2>1. s.lastExec = r.lastExec + 1 BY DEF Minted
  <2>2. ASSUME NEW x \in Nat \ {0}, NEW y, y = x + 1
        PROVE  /\ x = Genesis + (x - Genesis) /\ y - Genesis = (x - Genesis) + 1
               /\ y = Genesis + ((x - Genesis) + 1)
    BY <2>2 DEF Genesis
  <2>3. QED BY ZenonT(30), <2>1, <2>2, <1>3
<1>5. log[i].height = Genesis + (l + 1) BY <1>4 DEF Minted
<1>6. /\ \A k \in 1..l : (r.chain \o r.queue)[k] = log[P[k]].txs
      /\ \A h \in DOMAIN r.bai : r.bai[h] <= At(P, h - Genesis)
      /\ r.db <= At(P, a)
  BY ZenonT(30) DEF OnPath
<1>7. /\ \A k \in 0..l : \A j \in 1..commit :
            NoneAbove(r, P, log, commit) /\ j <= At(P, k) => log[j].height <= Genesis + k
      /\ \A j \in 1..r.applied : NoneAbove(r, P, log, commit) => log[j].height <= r.lastExec
  BY DEF NoneAbove
<1>8. Steady(r, P) => r.snap.height <= r.lastExec /\ Level(P, r.snap.index, r.snap.height)
  BY DEF Steady
<1>a. IsSeq(r.chain) /\ IsSeq(r.queue) /\ a = Len(r.chain) /\ b = Len(r.queue) BY DEF BooksOK
<1> HIDE DEF l, a, b
<1>9. Len(P) \in Nat /\ l + 1 \in 1..Len(P) /\ i \in 1..commit /\ At(P, l + 1) = i
  <2>1. Len(P) \in Nat OBVIOUS
  <2>2. l \in Nat /\ l < Len(P) BY <1>2, <1>3
  <2>3. l + 1 \in 1..Len(P) /\ l + 1 # 0 BY ONLY <2>1, <2>2
  <2>4. ASSUME NEW x \in 0..commit, i = x + 1 PROVE i \in 1..commit BY <2>4, <1>1
  <2>5. i \in 1..commit BY <2>4, <1>3
  <2>6. At(P, l + 1) = i BY ZenonT(30), <2>3, <1>2 DEF At
  <2>7. QED BY <2>1, <2>3, <2>5, <2>6
<1>10. OnPath(s, P, log)
  <2>1. ASSUME NEW k \in 1..(l + 1) PROVE (s.chain \o s.queue)[k] = log[P[k]].txs
    <3>1. s.chain = r.chain /\ s.queue = Append(r.queue, log[i].txs) BY DEF Minted
    <3>2. /\ \A j \in 1..l : (r.chain \o Append(r.queue, log[i].txs))[j] = (r.chain \o r.queue)[j]
          /\ (r.chain \o Append(r.queue, log[i].txs))[l + 1] = log[i].txs
      <4>1. PICK c, q, x : c = r.chain /\ q = r.queue /\ x = log[i].txs OBVIOUS
      <4>2. IsSeq(c) /\ IsSeq(q) /\ l = Len(c) + Len(q) BY ZenonT(30), <4>1, <1>3, <1>a
      <4>3. /\ \A j \in 1..(Len(c) + Len(q)) : (c \o Append(q, x))[j] = (c \o q)[j]
            /\ (c \o Append(q, x))[(Len(c) + Len(q)) + 1] = x
        BY ONLY <4>2, JoinedMore
      <4>4. QED BY ZenonT(30), <4>1, <4>2, <4>3
    <3>3. CASE k \in 1..l BY ZenonT(30), <3>1, <3>2, <3>3, <1>6
    <3>4. CASE k = l + 1 BY ZenonT(30), <3>1, <3>2, <3>4, <1>2
    <3>5. k \in 1..l \/ k = l + 1 BY <1>3
    <3>6. QED BY ZenonT(30), <3>3, <3>4, <3>5
  <2>2. l + 1 < Len(P) => i < P[l + 2]
    <3>1. l + 1 \in 0..Len(P) /\ (l + 1) + 1 = l + 2 BY <1>3, <1>9
    <3>2. l + 1 < Len(P) => At(P, l + 1) < P[(l + 1) + 1] BY ZenonT(30), <3>1, <1>1, Positions
    <3>3. QED BY <3>1, <3>2, <1>9
  <2>3. ASSUME NEW h \in DOMAIN s.bai PROVE s.bai[h] <= At(P, h - Genesis)
    <3>1. s.bai = Put(r.bai, r.lastExec + 1, i) BY DEF Minted
    <3>2. CASE h = r.lastExec + 1
      <4>1. s.bai[h] = i BY <3>1, <3>2 DEF Put
      <4>2. h = s.lastExec BY <3>2 DEF Minted
      <4>3. i <= i BY <1>9
      <4>4. QED BY <4>1, <4>2, <4>3, <1>4, <1>9
    <3>3. CASE h # r.lastExec + 1
      <4>1. h \in DOMAIN r.bai /\ s.bai[h] = r.bai[h] BY <3>1, <3>3 DEF Put
      <4>2. QED BY <4>1, <1>6
    <3>4. QED BY <3>2, <3>3
  <2>4. s.db <= At(P, Len(s.chain)) BY <1>6, <1>a DEF Minted
  <2>5. l + 1 <= Len(P) /\ (l + 1) + 1 = l + 2 /\ s.applied = i BY <1>3, <1>9 DEF Minted
  <2>6. QED BY ZenonT(30), <2>1, <2>2, <2>3, <2>4, <2>5, <1>4 DEF OnPath
<1>11. ASSUME Steady(r, P) PROVE Steady(s, P)
  <2>1. s.snap = r.snap /\ s.applied = i /\ s.lastExec = r.lastExec + 1 BY ZenonT(30) DEF Minted
  <2>2. r.snap.height <= r.lastExec + 1 BY SMTT(30), <1>8, <1>11, <1>3
  <2>a. i <= i BY <1>9
  <2>3. At(P, s.lastExec - Genesis) <= i BY <2>a, <1>4, <1>9
  <2>4. QED BY <2>1, <2>2, <2>3, <1>8, <1>11 DEF Steady
<1>12. ASSUME NoneAbove(r, P, log, commit) PROVE NoneAbove(s, P, log, commit)
  <2>1. \A j \in 1..r.applied : log[j].height \in Nat /\ log[j].height <= Genesis + (l + 1)
    <3>1. \A j \in 1..r.applied : log[j].height \in Nat BY <1>1, <1>3 DEF LogOK
    <3>2. \A j \in 1..r.applied : log[j].height <= Genesis + l BY <1>4, <1>7, <1>12
    <3>3. \A x \in Nat : x <= Genesis + l => x <= Genesis + (l + 1) BY <1>3 DEF Genesis
    <3>4. QED BY <3>1, <3>2, <3>3
  <2>2. \A j \in 1..i : log[j].height <= Genesis + (l + 1)
    <3> TAKE j \in 1..i
    <3>1. j \in 1..r.applied \/ j = i BY <1>3
    <3>2. Genesis + (l + 1) <= Genesis + (l + 1) BY <1>3 DEF Genesis
    <3>3. QED BY <2>1, <3>1, <3>2, <1>5
  <2>3. ASSUME NEW k \in 0..(l + 1), NEW j \in 1..commit, j <= At(P, k)
        PROVE  log[j].height <= Genesis + k
    <3>1. CASE k \in 0..l BY <3>1, <2>3, <1>7, <1>12
    <3>2. CASE k = l + 1 BY <3>2, <2>2, <2>3, <1>9
    <3>3. QED BY <3>1, <3>2, <1>3
  <2>4. s.applied = i BY DEF Minted
  <2>5. QED BY <2>2, <2>3, <2>4, <1>4 DEF NoneAbove
<1>13. QED BY <1>10, <1>11, <1>12

\* A node that passes an entry over stays on the path: the entry is not its next block.
LEMMA PassOnPath ==
    ASSUME NEW r, NEW i, NEW P \in Seq(Nat), LogOK, LoopOK(r), BooksOK(r, log, commit),
           i = r.applied + 1, i <= commit,
           log[i] = Empty \/ getBlockAppliedIndex(r) >= i \/ log[i].height # r.lastExec + 1,
           Path(P, log, commit), OnPath(r, P, log)
    PROVE  /\ OnPath(Passed(r, i), P, log)
           /\ Steady(r, P) => Steady(Passed(r, i), P)
           /\ /\ NoneAbove(r, P, log, commit)
              /\ ~(/\ log[i] # Empty /\ log[i].height > r.lastExec + 1
                   /\ getBlockAppliedIndex(r) < i)
              => NoneAbove(Passed(r, i), P, log, commit)
<1> DEFINE l == r.lastExec - Genesis
           s == Passed(r, i)
           g == getBlockAppliedIndex(r)
<1>1. commit \in Nat BY DEF LogOK
<1>2. l \in Nat /\ r.applied \in 0..commit /\ r.lastExec \in Nat \ {0} BY ZenonT(30), <1>1, Counted
<1>3. /\ s.lastExec = r.lastExec /\ s.bai = r.bai /\ s.queue = r.queue /\ s.chain = r.chain
      /\ s.db = r.db /\ s.snap = r.snap /\ s.applied = i
  BY DEF LoopOK, Fields, Passed
<1>4. r.lastExec = Genesis + l /\ r.lastExec + 1 = Genesis + (l + 1)
  <2>1. ASSUME NEW x \in Nat PROVE x = Genesis + (x - Genesis) /\ x + 1 = Genesis + ((x - Genesis) + 1)
    BY DEF Genesis
  <2>2. QED BY ZenonT(30), <2>1, <1>2
<1>5. g <= At(P, l) /\ g \in Nat /\ At(P, l) \in Nat BY <1>1, IndexOnPath
<1>6. l <= Len(P) /\ (l < Len(P) => r.applied < P[l + 1]) BY DEF OnPath
<1>7. i \in 1..commit /\ log[i].height \in Nat
  <2>1. i \in 1..commit BY <1>1, <1>2
  <2>2. QED BY <2>1 DEF LogOK
<1>8. NoneAbove(r, P, log, commit) =>
        /\ \A j \in 1..commit : j <= At(P, l) => log[j].height <= Genesis + l
        /\ \A j \in 1..r.applied : log[j].height <= r.lastExec
  BY <1>2 DEF NoneAbove
<1>9. log[i] = Empty => log[i].height = 0 BY DEF Empty, NoBatch
<1> HIDE DEF l, s, g
<1>10. l \in 0..Len(P) BY <1>2, <1>6
<1>11. ASSUME l < Len(P) PROVE i < P[l + 1]
  <2>1. l + 1 \in 1..Len(P) BY <1>11, <1>10
  <2>2. At(P, l) < P[l + 1] /\ P[l + 1] \in 1..commit BY ZenonT(30), <1>1, <1>10, <1>11, Positions
  <2>3. log[P[l + 1]].height = Genesis + (l + 1) BY <2>1 DEF Path
  <2>4. i <= P[l + 1] BY <1>2, <1>6, <1>11, <2>2
  <2>5. i # P[l + 1]
    <3>1. SUFFICES ASSUME i = P[l + 1] PROVE FALSE OBVIOUS
    <3>2. log[i].height = r.lastExec + 1 /\ g < i BY <3>1, <2>2, <2>3, <1>4, <1>5
    <3>3. log[i] # Empty BY <3>2, <1>2, <1>9
    <3>4. ~(g >= i) BY <3>2, <1>5, <1>7
    <3>5. QED BY <3>2, <3>3, <3>4 DEF g
  <2>6. QED BY <2>2, <2>4, <2>5, <1>7
<1>12. OnPath(s, P, log)
  BY ZenonT(60), <1>3, <1>6, <1>11 DEF OnPath, l
<1>13. ASSUME Steady(r, P) PROVE Steady(s, P)
  <2>1. At(P, l) <= r.applied /\ r.snap.height <= r.lastExec /\ Level(P, r.snap.index, r.snap.height)
    BY <1>13 DEF Steady, l
  <2>2. At(P, l) <= i BY <2>1, <1>2, <1>5
  <2>3. QED BY ZenonT(30), <2>1, <2>2, <1>3 DEF Steady, l
<1>14. ASSUME NoneAbove(r, P, log, commit),
              ~(log[i] # Empty /\ log[i].height > r.lastExec + 1 /\ getBlockAppliedIndex(r) < i)
       PROVE  NoneAbove(s, P, log, commit)
  <2>1. log[i].height <= r.lastExec
    <3>1. CASE i <= At(P, l) BY <3>1, <1>4, <1>7, <1>8, <1>14
    <3>2. CASE ~(i <= At(P, l))
      <4>1. g < i /\ ~(g >= i) BY <3>2, <1>5, <1>7
      <4>2. log[i] = Empty \/ (log[i].height # r.lastExec + 1 /\ ~(log[i].height > r.lastExec + 1))
        BY <4>1, <1>14 DEF g
      <4>3. QED BY SMTT(30), <4>2, <1>2, <1>7, <1>9
    <3>3. QED BY <3>1, <3>2
  <2>2. \A j \in 1..i : log[j].height <= r.lastExec
    <3> TAKE j \in 1..i
    <3>1. j \in 1..r.applied \/ j = i BY <1>2
    <3>2. QED BY <3>1, <2>1, <1>8, <1>14
  <2>3. QED BY ZenonT(30), <2>2, <1>3, <1>14 DEF NoneAbove
<1>15. QED BY <1>12, <1>13, <1>14 DEF s

\* The soft state and what follows an election touch the view, the timer and the pool's
\* numbering only.
LEMMA SoftSame ==
    ASSUME NEW r, NEW n, LoopOK(r)
    PROVE  LoopOK(SoftState(r, n)) /\ Same(r, SoftState(r, n))
<1> DEFINE s == IF r.view = n THEN becomeFollower(r) ELSE r
<1>1. LoopOK(s) /\ Same(r, s) BY DEF LoopOK, Same, becomeFollower, Fields
<1> HIDE DEF s
<1>2. CASE r.core = r.view BY <1>2 DEF SoftState, Same
<1>3. CASE r.core # r.view
  <2> DEFINE t == [s EXCEPT !.just = @ \/ r.core = n, !.view = r.core]
  <2>1. SoftState(r, n) = t BY <1>3 DEF SoftState, s
  <2>2. LoopOK(t) /\ Same(s, t) BY <1>1 DEF LoopOK, Same, Fields
  <2>3. QED BY ZenonT(30), <1>1, <2>1, <2>2 DEF Same
<1>4. QED BY <1>2, <1>3

\* The numbering starts at the last block (AfterElection).
LEMMA ElectionSame ==
    ASSUME NEW r, LoopOK(r), r.lastExec \in Nat
    PROVE  LoopOK(AfterElection(r)) /\ Same(r, AfterElection(r))
<1>1. CASE ~r.just BY <1>1 DEF AfterElection, Same
<1>2. CASE r.just
  <2> DEFINE q == [r.pool EXCEPT !.seq = r.lastExec]
             t == [r EXCEPT !.pool.seq = r.lastExec, !.just = Len(log) > r.applied + 1]
  <2>1. AfterElection(r) = t BY <1>2 DEF AfterElection
  <2>2. IsPool(q) BY DEF LoopOK, IsPool
  <2>3. DOMAIN t = Fields /\ t.pool = q /\ \A f \in Fields \ {"pool", "just"} : t[f] = r[f]
    BY ZenonT(30) DEF LoopOK, Fields
  <2> HIDE DEF t, q
  <2>4. QED BY <2>1, <2>2, <2>3 DEF LoopOK, Same, Fields
<1>3. QED BY <1>1, <1>2

\* A snapshot is taken where the node is (maybeTriggerSnapshot).
LEMMA SnapshotFits ==
    ASSUME NEW r, commit \in Nat, LoopOK(r), BooksOK(r, log, commit)
    PROVE  LET s == maybeTriggerSnapshot(r) IN
           /\ LoopOK(s) /\ BooksOK(s, log, commit)
           /\ s.snap.index = 0 => r.snap.index = 0
           /\ \A P : /\ OnPath(r, P, log) => OnPath(s, P, log)
                     /\ OnPath(r, P, log) /\ Steady(r, P) => Steady(s, P)
                     /\ NoneAbove(r, P, log, commit) => NoneAbove(s, P, log, commit)
<1> DEFINE snap == [index |-> r.applied, height |-> r.lastExec]
           s == [r EXCEPT !.snap = snap]
<1>1. CASE maybeTriggerSnapshot(r) = r BY ZenonT(30), <1>1
<1>2. CASE maybeTriggerSnapshot(r) = s
  <2>1. /\ DOMAIN s = Fields /\ s.snap = snap /\ \A f \in Fields \ {"snap"} : s[f] = r[f]
    BY DEF LoopOK, Fields
  <2>2. snap.index = r.applied /\ snap.height = r.lastExec OBVIOUS
  <2> HIDE DEF s, snap
  <2>3. /\ s.applied = r.applied /\ s.lastExec = r.lastExec /\ s.bai = r.bai /\ s.queue = r.queue
        /\ s.reports = r.reports /\ s.chain = r.chain /\ s.db = r.db
    BY <2>1 DEF Fields
  <2>4. LoopOK(s) BY <2>1 DEF LoopOK, Fields
  <2>5. r.applied \in 0..commit /\ r.lastExec \in Nat \ {0} /\ r.snap.index \in 0..r.applied
    BY ZenonT(30), Counted
  <2>6. r.applied \in 0..r.applied /\ (r.applied = 0 => r.snap.index = 0) BY <2>5
  <2>7. BooksOK(s, log, commit)
    <3>1. ChainHeight(s) = ChainHeight(r) BY <2>3 DEF ChainHeight
    <3>2. s.snap.index \in 0..s.applied /\ s.snap.height \in Nat \ {0}
      BY ZenonT(30), <2>1, <2>2, <2>3, <2>5, <2>6
    <3>3. QED BY ZenonT(30), <3>1, <3>2, <2>3 DEF BooksOK
  <2>8. s.snap.index = 0 => r.snap.index = 0 BY ZenonT(30), <2>1, <2>2, <2>6
  <2>9. ASSUME NEW P PROVE OnPath(r, P, log) => OnPath(s, P, log) BY ZenonT(30), <2>3 DEF OnPath
  <2>10. ASSUME NEW P, OnPath(r, P, log), Steady(r, P) PROVE Steady(s, P)
    <3>1. Level(P, r.applied, r.lastExec) BY ZenonT(30), <2>10 DEF OnPath, Steady, Level
    <3>2. r.lastExec <= r.lastExec BY <2>5
    <3>3. QED BY ZenonT(30), <3>1, <3>2, <2>1, <2>2, <2>3, <2>10 DEF Steady
  <2>11. ASSUME NEW P PROVE NoneAbove(r, P, log, commit) => NoneAbove(s, P, log, commit)
    BY ZenonT(30), <2>3 DEF NoneAbove
  <2>12. QED BY ZenonT(30), <1>2, <2>4, <2>7, <2>8, <2>9, <2>10, <2>11
<1>3. QED BY <1>1, <1>2 DEF maybeTriggerSnapshot

-----------------------------------------------------------------------------
(* Steps of one node. *)

\* When one node moves along the path, and the log changes behind what is committed only,
\* the invariant stays.
LEMMA NodeMoves ==
    ASSUME Inv, NEW n \in Node, NEW s, nd' = [nd EXCEPT ![n] = s], LogOK',
           commit' = commit, \A i \in 1..commit : log'[i] = log[i],
           crashes' = 0 => crashes = 0, tooNew => tooNew',
           LoopOK(s), BooksOK(s, log, commit), s.snap.index = 0 => nd[n].snap.index = 0,
           \A P \in Seq(Nat) : Undisturbed' /\ FollowsLog(P) =>
              /\ OnPath(s, P, log)
              /\ crashes' = 0 => Steady(s, P)
              /\ ~tooNew' /\ NoSnapshot' => NoneAbove(s, P, log, commit)
    PROVE  Inv'
<1>1. DOMAIN nd = Node /\ \A m \in Node : LoopOK(nd[m]) /\ BooksOK(nd[m], log, commit)
  BY DEF Inv, BooksInv
<1>2. DOMAIN nd' = Node /\ nd'[n] = s /\ \A m \in Node : m # n => nd'[m] = nd[m] BY <1>1
<1>3. commit \in Nat BY DEF Inv, BooksInv, LogOK
<1>4. ASSUME NEW m \in Node PROVE LoopOK(nd'[m]) /\ BooksOK(nd'[m], log, commit)
  BY ZenonT(30), <1>1, <1>2
<1>5. BooksInv'
  <2>1. commit <= commit BY <1>3
  <2>2. ASSUME NEW m \in Node PROVE BooksOK(nd'[m], log', commit)
    <3>1. BooksOK(nd'[m], log, commit) => BooksOK(nd'[m], log', commit) BY <1>3, <2>1, LogGrows
    <3>2. QED BY <3>1, <1>4
  <2>3. QED BY ZenonT(30), <1>2, <1>4, <2>2 DEF BooksInv
<1>6. NoSnapshot' => NoSnapshot
  <2>1. SUFFICES ASSUME NoSnapshot', NEW m \in Node PROVE nd[m].snap.index = 0 BY DEF NoSnapshot
  <2>2. nd'[m].snap.index = 0 BY <2>1 DEF NoSnapshot
  <2>3. QED BY <2>2, <1>2
<1>7. Undisturbed' => Undisturbed BY <1>6 DEF Undisturbed, NoSnapshot
<1>8. ASSUME Undisturbed' PROVE \E P \in Seq(Nat) : FollowsLog(P)'
  <2>1. PICK P \in Seq(Nat) : FollowsLog(P) BY <1>7, <1>8 DEF Inv
  <2>2. Path(P, log, commit) BY <2>1 DEF FollowsLog
  <2>3. ASSUME NEW m \in Node
        PROVE  /\ OnPath(nd'[m], P, log)
               /\ crashes' = 0 => Steady(nd'[m], P)
               /\ ~tooNew' /\ NoSnapshot' => NoneAbove(nd'[m], P, log, commit)
    <3>1. CASE m = n
      <4>1. /\ OnPath(s, P, log)
            /\ crashes' = 0 => Steady(s, P)
            /\ ~tooNew' /\ NoSnapshot' => NoneAbove(s, P, log, commit)
        BY SMTT(30), <1>7, <1>8, <2>1
      <4>2. QED BY ZenonT(30), <3>1, <4>1, <1>2
    <3>2. CASE m # n
      <4>1. /\ OnPath(nd[m], P, log)
            /\ crashes = 0 => Steady(nd[m], P)
            /\ ~tooNew /\ NoSnapshot => NoneAbove(nd[m], P, log, commit)
        BY ZenonT(30), <2>1 DEF FollowsLog
      <4>2. QED BY ZenonT(30), <3>2, <4>1, <1>2, <1>6
    <3>3. QED BY SMTT(30), <3>1, <3>2
  <2>4. /\ Path(P, log', commit)
        /\ \A r : r.lastExec \in Nat /\ OnPath(r, P, log) => OnPath(r, P, log')
        /\ \A r : r.applied \in 0..commit /\ NoneAbove(r, P, log, commit) => NoneAbove(r, P, log', commit)
    BY SMTT(30), <1>3, <2>2, PathGrows
  <2>5. ASSUME NEW m \in Node
        PROVE  /\ OnPath(nd'[m], P, log')
               /\ crashes' = 0 => Steady(nd'[m], P)
               /\ ~tooNew' /\ NoSnapshot' => NoneAbove(nd'[m], P, log', commit)
    <3>1. nd'[m].lastExec \in Nat /\ nd'[m].applied \in 0..commit
      <4>1. nd'[m].lastExec \in Nat \ {0} /\ nd'[m].applied \in 0..commit
        BY ZenonT(30), <1>3, <1>4, Counted
      <4>2. QED BY <4>1
    <3>2. QED BY ZenonT(30), <2>3, <2>4, <3>1
  <2>6. FollowsLog(P)'
    BY ZenonT(30), <2>4, <2>5 DEF FollowsLog
  <2>7. QED BY SMTT(30), <2>6
<1>9. QED BY ZenonT(30), <1>5, <1>8 DEF Inv

\* A step that leaves alone what the invariant reads of the node.
LEMMA NodeSame ==
    ASSUME Inv, NEW n \in Node, NEW s, nd' = [nd EXCEPT ![n] = s], LogOK',
           commit' = commit, \A i \in 1..commit : log'[i] = log[i],
           crashes' = crashes, tooNew' = tooNew, LoopOK(s), Same(nd[n], s)
    PROVE  Inv'
<1>1. BooksOK(nd[n], log, commit) /\ DOMAIN nd = Node BY DEF Inv, BooksInv
<1>2. /\ BooksOK(s, log, commit)
      /\ \A P : OnPath(nd[n], P, log) => OnPath(s, P, log)
      /\ \A P : Steady(nd[n], P) => Steady(s, P)
      /\ \A P : NoneAbove(nd[n], P, log, commit) => NoneAbove(s, P, log, commit)
  BY SMTT(30), <1>1, SameBooks
<1>3. s.snap = nd[n].snap BY DEF Same
<1>4. NoSnapshot' => NoSnapshot
  <2>1. nd'[n] = s /\ \A m \in Node : m # n => nd'[m] = nd[m] BY <1>1
  <2>2. ASSUME NEW m \in Node PROVE nd'[m].snap = nd[m].snap
    <3>1. CASE m = n BY ZenonT(30), <3>1, <2>1, <1>3
    <3>2. CASE m # n BY ZenonT(30), <3>2, <2>1
    <3>3. QED BY <3>1, <3>2
  <2>3. QED BY ZenonT(30), <2>2 DEF NoSnapshot
<1>5. ASSUME NEW P \in Seq(Nat), FollowsLog(P)
      PROVE  /\ OnPath(s, P, log)
             /\ crashes = 0 => Steady(s, P)
             /\ ~tooNew' /\ NoSnapshot' => NoneAbove(s, P, log, commit)
  <2>1. /\ OnPath(nd[n], P, log)
        /\ crashes = 0 => Steady(nd[n], P)
        /\ ~tooNew /\ NoSnapshot => NoneAbove(nd[n], P, log, commit)
    BY ZenonT(30), <1>5 DEF FollowsLog
  <2>2. QED BY ZenonT(30), <2>1, <1>2, <1>4
<1>6. QED BY ZenonT(30), <1>2, <1>3, <1>5, NodeMoves

\* postProposal hands a batch over or waits with it.
LEMMA PostSame ==
    ASSUME NEW r, NEW b, LoopOK(r), r.loop = "select", b.height \in Nat
    PROVE  LoopOK(postProposal(r, b)) /\ Same(r, postProposal(r, b))
<1>1. CASE b = NoBatch BY <1>1 DEF postProposal, Same
<1>2. CASE b # NoBatch /\ r.prop = NoBatch
  BY <1>2 DEF postProposal, Same, LoopOK, Fields
<1>3. CASE b # NoBatch /\ r.prop # NoBatch
  BY <1>3 DEF postProposal, Same, LoopOK, Fields
<1>4. QED BY <1>1, <1>2, <1>3

\* Transactions and batch timeouts concern the pool and the loop.
LEMMA PoolStep ==
    ASSUME Inv, NEW n \in Node,
           \/ \E t \in Tx : Receive(n, t)
           \/ processBatchTimeout(n)
           \/ processGenerateBlockTimeout(n)
    PROVE  Inv'
<1> DEFINE r == nd[n]
<1>1. LoopOK(r) /\ LogOK BY DEF Inv, BooksInv
<1>2. DOMAIN r = Fields /\ IsPool(r.pool) /\ r.prop.height \in Nat /\ r.hand.height \in Nat BY <1>1 DEF LoopOK
<1>3. \E s : nd' = [nd EXCEPT ![n] = s] /\ LoopOK(s) /\ Same(r, s)
  <2>1. CASE \E t \in Tx : Receive(n, t)
    <3>1. PICK t \in Tx : Receive(n, t) BY <2>1
    <3> DEFINE res == ProcessTransactions(r.pool, <<t>>, IsTimed \/ isLeader(r, n), TRUE, LedgerOf(r))
               tm == (r.timer \/ (~IsTimed /\ isLeader(r, n))) /\ res.batch = NoBatch
               q == [r EXCEPT !.pool = res.pool, !.got = @ \cup {t}, !.timer = tm]
    <3>2. nd' = [nd EXCEPT ![n] = postProposal(q, res.batch)] /\ r.loop = "select"
      BY ZenonT(30), <3>1 DEF Receive, processTransactions
    <3>3. (IsTimed \/ isLeader(r, n)) \in BOOLEAN BY DEF isLeader
    <3>4. IsPool(res.pool) /\ res.batch.height \in Nat BY ZenonT(30), <3>3, <1>2, PoolTakesTx
    <3> HIDE DEF res, tm
    <3>5. LoopOK(q) /\ Same(r, q) /\ q.loop = "select"
      BY <1>1, <1>2, <3>2, <3>4 DEF LoopOK, Same, Fields
    <3> HIDE DEF q
    <3>6. LoopOK(postProposal(q, res.batch)) /\ Same(q, postProposal(q, res.batch))
      BY <3>4, <3>5, PostSame
    <3>7. QED BY ZenonT(30), <3>2, <3>5, <3>6 DEF Same
  <2>2. CASE processBatchTimeout(n)
    <3> DEFINE res == IF isLeader(r, n) /\ r.pool.store.count > 0 THEN GenerateBlock(r.pool, LedgerOf(r))
                      ELSE [pool |-> r.pool, batch |-> NoBatch]
               q == [r EXCEPT !.pool = res.pool, !.timer = res.batch # NoBatch]
    <3>2. nd' = [nd EXCEPT ![n] = postProposal(q, res.batch)] /\ r.loop = "select"
      BY <2>2 DEF processBatchTimeout
    <3>3. IsPool(GenerateBlock(r.pool, LedgerOf(r)).pool) /\ GenerateBlock(r.pool, LedgerOf(r)).batch.height \in Nat
      BY <1>2, BatchNumbered
    <3>4. IsPool(res.pool) /\ res.batch.height \in Nat BY ZenonT(30), <1>2, <3>3 DEF NoBatch
    <3> HIDE DEF res
    <3>5. LoopOK(q) /\ Same(r, q) /\ q.loop = "select"
      BY <1>1, <1>2, <3>2, <3>4 DEF LoopOK, Same, Fields
    <3> HIDE DEF q
    <3>6. LoopOK(postProposal(q, res.batch)) /\ Same(q, postProposal(q, res.batch))
      BY SMTT(30), <3>4, <3>5, PostSame
    <3>7. QED BY ZenonT(30), <3>2, <3>5, <3>6 DEF Same
  <2>3. CASE processGenerateBlockTimeout(n)
    <3> DEFINE res == GenerateBlock(r.pool, LedgerOf(r))
               q == [r EXCEPT !.pool = res.pool]
    <3>2. nd' = [nd EXCEPT ![n] = postProposal(q, res.batch)] /\ r.loop = "select"
      BY <2>3 DEF processGenerateBlockTimeout
    <3>4. IsPool(res.pool) /\ res.batch.height \in Nat BY <1>2, BatchNumbered
    <3> HIDE DEF res
    <3>5. LoopOK(q) /\ Same(r, q) /\ q.loop = "select"
      BY <1>1, <1>2, <3>2, <3>4 DEF LoopOK, Same, Fields
    <3> HIDE DEF q
    <3>6. LoopOK(postProposal(q, res.batch)) /\ Same(q, postProposal(q, res.batch))
      BY <3>4, <3>5, PostSame
    <3>7. QED BY ZenonT(30), <3>2, <3>5, <3>6 DEF Same
  <2>4. QED BY <2>1, <2>2, <2>3
<1>4. /\ log' = log /\ commit' = commit /\ lead' = lead /\ crashes' = crashes /\ tooNew' = tooNew
  BY DEF Receive, processBatchTimeout, processGenerateBlockTimeout
<1>5. LogOK' BY ZenonT(30), <1>1, <1>4 DEF LogOK
<1>6. QED BY ZenonT(30), <1>3, <1>4, <1>5, NodeSame

\* A proposal enters the log behind what is committed, if it enters it at all.
LEMMA ProposeStep ==
    ASSUME Inv, NEW n \in Node, handleRequestMsg(n)
    PROVE  Inv'
<1> DEFINE r == nd[n]
           s == [r EXCEPT !.prop = r.hand, !.hand = NoBatch,
                          !.loop = IF @ = "blocked" THEN "select" ELSE @]
<1>1. LoopOK(r) /\ LogOK BY DEF Inv, BooksInv
<1>2. nd' = [nd EXCEPT ![n] = s] BY DEF handleRequestMsg
<1>3. LoopOK(s) /\ Same(r, s)
  BY <1>1 DEF LoopOK, Same, Fields, NoBatch
<1>4. /\ commit' = commit /\ lead' = lead /\ crashes' = crashes /\ tooNew' = tooNew
      /\ log' = log \/ (log' = Append(log, r.prop) /\ Len(log) < MaxLog)
  BY DEF handleRequestMsg
<1>5. r.prop.height \in Nat BY <1>1 DEF LoopOK
<1>6. LogOK' /\ \A i \in 1..commit : log'[i] = log[i]
  <2>1. CASE log' = log BY ZenonT(30), <2>1, <1>1, <1>4 DEF LogOK
  <2>2. CASE log' = Append(log, r.prop) /\ Len(log) < MaxLog
    <3> DEFINE N == Len(log)
    <3>1. /\ IsSeq(log') /\ N \in Nat /\ Len(log') = N + 1
          /\ \A i \in 1..N : log'[i] = log[i]
          /\ log'[N + 1] = r.prop
      BY <1>1, <2>2, Appended DEF LogOK
    <3>2. N < MaxLog /\ MaxLog \in Nat /\ commit \in 0..N BY <1>1, <2>2, RaftAssumption DEF LogOK
    <3>3. \A i \in 1..N : log[i].height \in Nat BY <1>1 DEF LogOK
    <3> HIDE DEF N, r
    <3>4. N + 1 <= MaxLog /\ commit \in 0..(N + 1) /\ \A i \in 1..commit : log'[i] = log[i]
      BY <3>1, <3>2
    <3>5. \A i \in 1..(N + 1) : log'[i].height \in Nat
      <4> TAKE i \in 1..(N + 1)
      <4>1. i \in 1..N \/ i = N + 1 BY <3>1
      <4>2. QED BY <4>1, <3>1, <3>3, <1>5
    <3>6. QED BY ZenonT(30), <3>1, <3>4, <3>5, <1>1, <1>4 DEF LogOK
  <2>3. QED BY <2>1, <2>2, <1>4
<1> HIDE DEF s
<1>7. QED BY ZenonT(30), <1>2, <1>3, <1>4, <1>6, NodeSame

\* An election cuts the log behind what is committed.
LEMMA ElectStep ==
    ASSUME Inv, NEW m \in Node, NEW k \in commit..Len(log), Elect(m, k)
    PROVE  Inv'
<1> DEFINE r == nd[m]
           s == [r EXCEPT !.core = m]
           N == Len(log)
           cut == SubSeq(log, 1, k)
<1>1. LoopOK(r) /\ LogOK BY DEF Inv, BooksInv
<1>2. nd' = [nd EXCEPT ![m] = s] BY DEF Elect
<1>3. LoopOK(s) /\ Same(r, s) BY <1>1 DEF LoopOK, Same, Fields
<1>4. /\ commit' = commit /\ lead' = m /\ crashes' = crashes /\ tooNew' = tooNew
      /\ log' = Append(cut, Empty) /\ N < MaxLog
  BY DEF Elect
<1>5. IsSeq(log) /\ N \in Nat /\ commit \in 0..N /\ \A i \in 1..N : log[i].height \in Nat
  BY <1>1, Appended DEF LogOK
<1>6. k \in 0..N /\ 1 \in Nat \ {0} /\ 1 <= k + 1 /\ (k + 1) - 1 = k BY <1>5
<1>7. IsSeq(cut) /\ Len(cut) = k /\ \A i \in 1..k : cut[i] = log[i]
  <2>1. /\ IsSeq(cut) /\ Len(cut) = k + 1 - 1
        /\ \A i \in 1..(k + 1 - 1) : cut[i] = log[1 + i - 1]
    BY <1>5, <1>6, Parted
  <2> HIDE DEF cut, N
  <2>2. QED BY <2>1, <1>6
<1> HIDE DEF s, cut
<1>8. /\ IsSeq(log') /\ Len(log') = k + 1 /\ log'[k + 1] = Empty
      /\ \A i \in 1..k : log'[i] = cut[i]
  BY <1>4, <1>7, Appended
<1>9. N < MaxLog /\ MaxLog \in Nat BY <1>4, RaftAssumption
<1>10. commit <= k OBVIOUS
<1> HIDE DEF N
<1>11. k + 1 <= MaxLog /\ commit \in 0..(k + 1) /\ \A i \in 1..commit : i \in 1..k
  BY <1>5, <1>6, <1>9, <1>10
<1>12. \A i \in 1..(k + 1) : log'[i].height \in Nat
  <2> TAKE i \in 1..(k + 1)
  <2>1. i \in 1..k \/ i = k + 1 BY <1>6
  <2>2. CASE i \in 1..k
    <3>1. i \in 1..N BY <2>2, <1>5, <1>6
    <3>2. QED BY <3>1, <2>2, <1>5, <1>7, <1>8
  <2>3. CASE i = k + 1 BY <2>3, <1>8 DEF Empty, NoBatch
  <2>4. QED BY <2>1, <2>2, <2>3
<1>13. LogOK' BY ZenonT(30), <1>1, <1>4, <1>8, <1>11, <1>12 DEF LogOK
<1>14. \A i \in 1..commit : log'[i] = log[i] BY <1>7, <1>8, <1>11
<1>15. QED BY ZenonT(30), <1>2, <1>3, <1>4, <1>13, <1>14, NodeSame

\* Learning of a leader changes what the core knows.
LEMMA LearnStep ==
    ASSUME Inv, NEW n \in Node, Learn(n)
    PROVE  Inv'
<1>1. LoopOK(nd[n]) /\ LogOK BY DEF Inv, BooksInv
<1>2. PICK l : /\ nd' = [nd EXCEPT ![n].core = l]
               /\ lead' = IF l = None /\ lead = n THEN None ELSE lead
  BY ZenonT(30) DEF Learn
<1> DEFINE s == [nd[n] EXCEPT !.core = l]
<1>3. nd' = [nd EXCEPT ![n] = s] BY <1>2
<1>4. LoopOK(s) /\ Same(nd[n], s) BY <1>1 DEF LoopOK, Same, Fields
<1>5. log' = log /\ commit' = commit /\ crashes' = crashes /\ tooNew' = tooNew BY DEF Learn
<1>6. lead' = None \/ lead' = lead BY <1>2
<1>7. LogOK' BY ZenonT(30), <1>1, <1>5, <1>6 DEF LogOK
<1> HIDE DEF s
<1>8. QED BY ZenonT(30), <1>3, <1>4, <1>5, <1>7, NodeSame

\* Commit extends the path, or leaves it.
LEMMA CommitStep ==
    ASSUME Inv, Commit
    PROVE  Inv'
<1>1. LogOK /\ DOMAIN nd = Node /\ \A n \in Node : LoopOK(nd[n]) /\ BooksOK(nd[n], log, commit)
  BY DEF Inv, BooksInv
<1>2. /\ nd' = nd /\ log' = log /\ lead' = lead /\ crashes' = crashes /\ tooNew' = tooNew
      /\ commit' = commit + 1 /\ commit < Len(log)
  BY DEF Commit
<1>3. commit \in Nat /\ commit + 1 \in Nat /\ commit <= commit + 1 /\ commit + 1 \in 0..Len(log)
  <2>1. IsSeq(log) /\ commit \in 0..Len(log) BY <1>1 DEF LogOK
  <2>2. Len(log) \in Nat BY <2>1, Appended
  <2>3. QED BY <2>1, <2>2, <1>2
<1>4. LogOK' BY ZenonT(30), <1>1, <1>2, <1>3 DEF LogOK
<1>5. ASSUME NEW n \in Node PROVE BooksOK(nd[n], log, commit + 1) BY <1>1, <1>3, LogGrows
<1>6. BooksInv' BY ZenonT(30), <1>1, <1>2, <1>4, <1>5 DEF BooksInv
<1>7. Undisturbed' = Undisturbed BY ZenonT(30), <1>2 DEF Undisturbed
<1>8. ASSUME Undisturbed PROVE \E Q \in Seq(Nat) : FollowsLog(Q)'
  <2>1. PICK P \in Seq(Nat) : FollowsLog(P) BY <1>8 DEF Inv
  <2>2. PICK Q \in Seq(Nat) :
              /\ Path(Q, log, commit + 1)
              /\ \A r : BooksOK(r, log, commit) /\ OnPath(r, P, log) =>
                    /\ OnPath(r, Q, log)
                    /\ Steady(r, P) => Steady(r, Q)
                    /\ NoneAbove(r, P, log, commit) => NoneAbove(r, Q, log, commit + 1)
    BY ZenonT(30), <2>1, <1>3, PathExtends DEF FollowsLog
  <2>3. FollowsLog(Q)' BY ZenonT(30), <1>1, <1>2, <2>1, <2>2 DEF FollowsLog, NoSnapshot
  <2>4. QED BY <2>3
<1>9. QED BY ZenonT(30), <1>6, <1>7, <1>8 DEF Inv

\* What one Ready does with the next entry, and when the entry is above the expected height.
Applied(r, n) == IF r.applied + 1 <= commit THEN publishEntries(r, n, r.applied + 1) ELSE r
NextTooNew(r) ==
    LET i == r.applied + 1 IN
    i <= commit /\ log[i] # Empty /\ log[i].height > r.lastExec + 1 /\ getBlockAppliedIndex(r) < i

\* The entry is published, or there is none.
LEMMA EntryApplied ==
    ASSUME NEW r, NEW n, LogOK, LoopOK(r), BooksOK(r, log, commit)
    PROVE  /\ LoopOK(Applied(r, n)) /\ BooksOK(Applied(r, n), log, commit)
           /\ Applied(r, n).snap = r.snap
           /\ \A P \in Seq(Nat) : Path(P, log, commit) /\ OnPath(r, P, log) =>
                 /\ Steady(r, P) \/ NoneAbove(r, P, log, commit) => OnPath(Applied(r, n), P, log)
                 /\ Steady(r, P) => Steady(Applied(r, n), P)
                 /\ NoneAbove(r, P, log, commit) /\ ~NextTooNew(r)
                       => NoneAbove(Applied(r, n), P, log, commit)
<1> DEFINE i == r.applied + 1
           s == Applied(r, n)
<1>0. s = (IF i <= commit THEN publishEntries(r, n, i) ELSE r) /\ i = r.applied + 1
  BY DEF Applied
<1> HIDE DEF i, s
<1>1. CASE ~(i <= commit)
  <2>1. s = r BY <1>0, <1>1
  <2>2. QED BY ZenonT(30), <2>1 DEF s
<1>2. CASE i <= commit
  <2>1. s = publishEntries(r, n, i) BY <1>0, <1>2
  <2>2. commit \in 0..Len(log) /\ Len(log) \in Nat /\ \A j \in 1..Len(log) : log[j].height \in Nat
    BY Appended DEF LogOK
  <2>3. r.applied \in 0..commit BY DEF BooksOK
  <2>4. log[i].height \in Nat BY <1>0, <1>2, <2>2, <2>3
  <2>5. CASE /\ s = Passed(r, i)
             /\ log[i] = Empty \/ getBlockAppliedIndex(r) >= i \/ log[i].height # r.lastExec + 1
    <3>1. LoopOK(s) /\ BooksOK(s, log, commit) BY <1>0, <1>2, <2>5, PassFits
    <3>2. s.snap = r.snap BY <2>5 DEF Passed, LoopOK, Fields
    <3>3. ASSUME NEW P \in Seq(Nat), Path(P, log, commit), OnPath(r, P, log)
          PROVE  /\ OnPath(s, P, log)
                 /\ Steady(r, P) => Steady(s, P)
                 /\ /\ NoneAbove(r, P, log, commit)
                    /\ ~(/\ log[i] # Empty /\ log[i].height > r.lastExec + 1
                         /\ getBlockAppliedIndex(r) < i)
                    => NoneAbove(s, P, log, commit)
      BY ZenonT(30), <1>0, <1>2, <2>5, <3>3, PassOnPath
    <3>4. NextTooNew(r) = (/\ i <= commit /\ log[i] # Empty /\ log[i].height > r.lastExec + 1
                           /\ getBlockAppliedIndex(r) < i)
      BY ZenonT(30) DEF NextTooNew, i
    <3>5. QED BY ZenonT(30), <1>2, <3>1, <3>2, <3>3, <3>4 DEF s
  <2>6. CASE Minted(r, s, i) /\ log[i].height = r.lastExec + 1
    <3>1. BooksOK(s, log, commit) BY <1>0, <1>2, <2>6, MintFits
    <3>2. s.snap = r.snap /\ LoopOK(s) BY ZenonT(30), <2>6 DEF Minted, LoopOK
    <3>3. ASSUME NEW P \in Seq(Nat), Path(P, log, commit), OnPath(r, P, log),
                 Steady(r, P) \/ NoneAbove(r, P, log, commit)
          PROVE  /\ OnPath(s, P, log)
                 /\ Steady(r, P) => Steady(s, P)
                 /\ NoneAbove(r, P, log, commit) => NoneAbove(s, P, log, commit)
      BY ZenonT(30), <1>0, <1>2, <2>6, <3>3, MintOnPath
    <3>4. QED BY ZenonT(30), <3>1, <3>2, <3>3 DEF s
  <2>7. QED BY ZenonT(30), <2>1, <2>4, <2>5, <2>6, PublishCases
<1>3. QED BY <1>1, <1>2

\* One Ready: soft state, entry, what follows an election, snapshot.
LEMMA ReadyStep ==
    ASSUME Inv, NEW n \in Node, Ready(n)
    PROVE  Inv'
<1> DEFINE r == SoftState(nd[n], n)
           s == Applied(r, n)
           t == AfterElection(s)
           u == maybeTriggerSnapshot(t)
           new == NextTooNew(r)
<1>1. LogOK /\ DOMAIN nd = Node /\ LoopOK(nd[n]) /\ BooksOK(nd[n], log, commit) /\ commit \in Nat
  BY DEF Inv, BooksInv, LogOK
<1>2. /\ nd' = [nd EXCEPT ![n] = u] /\ tooNew' = (tooNew \/ new)
      /\ log' = log /\ commit' = commit /\ lead' = lead /\ crashes' = crashes
  BY ZenonT(30) DEF Ready, Applied, NextTooNew
<1>3. LoopOK(r) /\ Same(nd[n], r) BY <1>1, SoftSame
<1> HIDE DEF r
<1>4. /\ BooksOK(r, log, commit)
      /\ \A P : /\ OnPath(nd[n], P, log) => OnPath(r, P, log)
                /\ Steady(nd[n], P) => Steady(r, P)
                /\ NoneAbove(nd[n], P, log, commit) => NoneAbove(r, P, log, commit)
  BY ZenonT(30), <1>1, <1>3, SameBooks
<1>5. /\ LoopOK(s) /\ BooksOK(s, log, commit) /\ s.snap = r.snap
      /\ \A P \in Seq(Nat) : Path(P, log, commit) /\ OnPath(r, P, log) =>
            /\ Steady(r, P) \/ NoneAbove(r, P, log, commit) => OnPath(s, P, log)
            /\ Steady(r, P) => Steady(s, P)
            /\ NoneAbove(r, P, log, commit) /\ ~new => NoneAbove(s, P, log, commit)
  BY ZenonT(30), <1>1, <1>3, <1>4, EntryApplied
<1> HIDE DEF s, new
<1>6. s.lastExec \in Nat BY ZenonT(30), <1>1, <1>5, Counted
<1>7. LoopOK(t) /\ Same(s, t) BY <1>5, <1>6, ElectionSame
<1> HIDE DEF t
<1>8. /\ BooksOK(t, log, commit)
      /\ \A P : /\ OnPath(s, P, log) => OnPath(t, P, log)
                /\ Steady(s, P) => Steady(t, P)
                /\ NoneAbove(s, P, log, commit) => NoneAbove(t, P, log, commit)
  BY ZenonT(30), <1>5, <1>7, SameBooks
<1>9. /\ LoopOK(u) /\ BooksOK(u, log, commit)
      /\ u.snap.index = 0 => t.snap.index = 0
      /\ \A P : /\ OnPath(t, P, log) => OnPath(u, P, log)
                /\ OnPath(t, P, log) /\ Steady(t, P) => Steady(u, P)
                /\ NoneAbove(t, P, log, commit) => NoneAbove(u, P, log, commit)
  BY ZenonT(30), <1>1, <1>7, <1>8, SnapshotFits
<1> HIDE DEF u
<1>10. u.snap.index = 0 => nd[n].snap.index = 0
  BY ZenonT(30), <1>3, <1>5, <1>7, <1>9 DEF Same
<1>11. LogOK'
  <2>1. tooNew' \in BOOLEAN BY <1>2
  <2>2. QED BY ZenonT(30), <1>1, <1>2, <2>1 DEF LogOK
<1>12. NoSnapshot' => NoSnapshot
  <2>1. nd'[n] = u /\ \A m \in Node : m # n => nd'[m] = nd[m] BY <1>1, <1>2
  <2>2. QED BY ZenonT(30), <2>1, <1>10 DEF NoSnapshot
<1>13. ASSUME NEW P \in Seq(Nat), Undisturbed', FollowsLog(P)
       PROVE  /\ OnPath(u, P, log)
              /\ crashes' = 0 => Steady(u, P)
              /\ ~tooNew' /\ NoSnapshot' => NoneAbove(u, P, log, commit)
  <2>1. /\ Path(P, log, commit) /\ OnPath(r, P, log)
        /\ crashes = 0 => Steady(r, P)
        /\ ~tooNew /\ NoSnapshot => NoneAbove(r, P, log, commit)
    BY ZenonT(30), <1>4, <1>13 DEF FollowsLog
  <2>2. crashes = 0 \/ (~tooNew' /\ NoSnapshot')
    BY ZenonT(30), <1>2, <1>13 DEF Undisturbed, NoSnapshot
  <2>3. /\ ~tooNew' => ~tooNew /\ ~new BY ZenonT(30), <1>2
  <2>4. /\ OnPath(s, P, log)
        /\ crashes = 0 => Steady(s, P)
        /\ ~tooNew' /\ NoSnapshot' => NoneAbove(s, P, log, commit)
    BY ZenonT(30), <1>5, <1>12, <2>1, <2>2, <2>3
  <2>5. QED BY ZenonT(30), <2>4, <1>2, <1>8, <1>9
<1>14. QED BY ZenonT(30), <1>2, <1>9, <1>10, <1>11, <1>13, NodeMoves

\* A later height needs no more of the recorded indexes.
LEMMA IndexesStay ==
    ASSUME NEW bai, NEW x \in Nat, NEW y \in Nat, x <= y, NEW lg, NEW c, IndexesFit(bai, x, lg, c)
    PROVE  IndexesFit(bai, y, lg, c)
  BY DEF IndexesFit, Genesis

\* c and q have the first x blocks, and f is q with the blocks of d up to y.
Fetches(c, q, d, x, y, f) ==
    /\ IsSeq(c) /\ IsSeq(q) /\ IsSeq(d)
    /\ x \in Nat /\ x = Len(c) + Len(q) /\ y \in Nat /\ x <= y /\ y <= Len(d)
    /\ f = q \o SubSeq(d, x + 1, y)

Continues(c, q, d, x, y, f) ==
    /\ IsSeq(f) /\ Len(c) + Len(f) = y
    /\ \A k \in 1..x : (c \o f)[k] = (c \o q)[k]
    /\ \A k \in (x + 1)..y : (c \o f)[k] = d[k]

\* The blocks that are fetched continue those of the node.
LEMMA Fetched ==
    ASSUME NEW c, NEW q, NEW d, NEW x, NEW y, NEW f, Fetches(c, q, d, x, y, f)
    PROVE  Continues(c, q, d, x, y, f)
<1> DEFINE e == SubSeq(d, x + 1, y)
           a == Len(c)
           b == Len(q)
<1>0. /\ IsSeq(c) /\ IsSeq(q) /\ IsSeq(d)
      /\ x \in Nat /\ x = a + b /\ y \in Nat /\ x <= y /\ y <= Len(d)
      /\ f = q \o e
  BY DEF Fetches
<1>1. Len(d) \in Nat /\ a \in Nat /\ b \in Nat BY <1>0, Joined
<1>2. x + 1 \in Nat \ {0} /\ y \in 0..Len(d) /\ x + 1 <= y + 1 BY <1>0, <1>1
<1>3. IsSeq(e) /\ Len(e) = y - x /\ \A i \in 1..(y - x) : e[i] = d[x + i]
  <2>1. /\ IsSeq(e) /\ Len(e) = y + 1 - (x + 1)
        /\ \A i \in 1..(y + 1 - (x + 1)) : e[i] = d[x + 1 + i - 1]
    BY <1>0, <1>2, Parted
  <2> HIDE DEF e
  <2>2. y + 1 - (x + 1) = y - x /\ \A i \in 1..(y - x) : x + 1 + i - 1 = x + i BY <1>0
  <2>3. QED BY <2>1, <2>2
<1> HIDE DEF e
<1>4. /\ IsSeq(f) /\ Len(f) = b + (y - x)
      /\ \A i \in 1..b : f[i] = q[i]
      /\ \A i \in 1..(y - x) : f[b + i] = e[i]
  <2>1. /\ IsSeq(f) /\ Len(f) = b + Len(e)
        /\ \A i \in 1..b : f[i] = q[i]
        /\ \A i \in 1..Len(e) : f[b + i] = e[i]
    BY <1>0, <1>3, Joined
  <2> HIDE DEF b
  <2>2. QED BY ZenonT(30), <2>1, <1>3
<1>5. /\ \A i \in 1..a : (c \o f)[i] = c[i] /\ (c \o q)[i] = c[i]
      /\ \A i \in 1..(b + (y - x)) : (c \o f)[a + i] = f[i]
      /\ \A i \in 1..b : (c \o q)[a + i] = q[i]
  <2>1. \A i \in 1..a : (c \o q)[i] = c[i] BY <1>0, Joined
  <2>2. \A i \in 1..b : (c \o q)[a + i] = q[i] BY <1>0, Joined
  <2>3. \A i \in 1..a : (c \o f)[i] = c[i] BY <1>0, <1>4, Joined
  <2>4. \A i \in 1..Len(f) : (c \o f)[a + i] = f[i] BY <1>0, <1>4, Joined
  <2> HIDE DEF a, b
  <2>5. QED BY ZenonT(30), <2>1, <2>2, <2>3, <2>4, <1>4
<1>6. x \in Nat /\ y \in Nat /\ x <= y /\ x = a + b BY <1>0
<1> HIDE DEF a, b
<1>7. a + Len(f) = y
  <2>1. a + (b + (y - x)) = y BY <1>1, <1>6
  <2>2. QED BY ZenonT(30), <2>1, <1>4
<1>8. ASSUME NEW k \in 1..x PROVE (c \o f)[k] = (c \o q)[k]
  <2>1. CASE k \in 1..a BY ZenonT(30), <2>1, <1>5
  <2>2. CASE k \in (a + 1)..x
    <3> DEFINE i == k - a
    <3>1. i \in 1..b /\ i \in 1..(b + (y - x)) /\ k = a + i BY <2>2, <1>1, <1>6
    <3> HIDE DEF i
    <3>2. QED BY ZenonT(30), <3>1, <1>4, <1>5
  <2>3. k \in 1..a \/ k \in (a + 1)..x BY <1>1, <1>6
  <2>4. QED BY ZenonT(30), <2>1, <2>2, <2>3
<1>9. ASSUME NEW k \in (x + 1)..y PROVE (c \o f)[k] = d[k]
  <2> DEFINE i == k - x
  <2>1. /\ i \in 1..(y - x) /\ k = x + i
        /\ b + i \in 1..(b + (y - x)) /\ k = a + (b + i)
    BY <1>1, <1>6
  <2> HIDE DEF i
  <2>2. (c \o f)[k] = f[b + i] BY ZenonT(30), <2>1, <1>5
  <2>3. f[b + i] = e[i] /\ e[i] = d[x + i] BY <2>1, <1>3, <1>4
  <2>4. QED BY ZenonT(30), <2>1, <2>2, <2>3
<1>10. QED BY ZenonT(30), <1>4, <1>7, <1>8, <1>9 DEF a, Continues

\* What recoverFromSnapshot makes of a node that is behind the snapshot.
Recovered(r, from) ==
    [r EXCEPT !.queue = @ \o SubSeq(from.chain, r.lastExec, from.snap.height - Genesis),
              !.lastExec = from.snap.height, !.applied = from.snap.index, !.snap = from.snap]

\* It fits the books, and without a crash it is on the path.
LEMMA RecoverFits ==
    ASSUME NEW r, NEW from, LogOK, LoopOK(r), BooksOK(r, log, commit), BooksOK(from, log, commit),
           from.snap.index > r.applied + SnapCount, ChainHeight(from) >= from.snap.height,
           ~(r.lastExec > from.snap.height)
    PROVE  LET s == Recovered(r, from) IN
           /\ LoopOK(s) /\ BooksOK(s, log, commit) /\ s.snap.index # 0
           /\ \A P \in Seq(Nat) :
                 /\ Path(P, log, commit) /\ OnPath(r, P, log) /\ OnPath(from, P, log)
                 /\ Steady(from, P)
                 => OnPath(s, P, log) /\ Steady(s, P)
<1> DEFINE s == Recovered(r, from)
           f == r.queue \o SubSeq(from.chain, r.lastExec, from.snap.height - Genesis)
           x == r.lastExec - Genesis
           y == from.snap.height - Genesis
           z == from.snap.height
           w == from.snap.index
<1>1. commit \in Nat /\ SnapCount \in Nat BY RaftAssumption DEF LogOK
<1>2. /\ DOMAIN s = Fields /\ s.queue = f /\ s.lastExec = z /\ s.applied = w /\ s.snap = from.snap
      /\ \A g \in Fields \ {"queue", "lastExec", "applied", "snap"} : s[g] = r[g]
  BY ZenonT(30) DEF Recovered, LoopOK, Fields
<1>3. s.chain = r.chain /\ s.bai = r.bai /\ s.reports = r.reports /\ s.db = r.db
  BY SMTT(30), <1>2 DEF Fields
<1>4. LoopOK(s) BY SMTT(30), <1>2 DEF LoopOK, Fields
<1> HIDE DEF s
<1>5. /\ x = Len(r.chain) + Len(r.queue) /\ r.lastExec \in Nat \ {0} /\ x \in Nat
      /\ r.applied \in 0..commit /\ Len(r.chain) \in Nat
      /\ from.applied \in 0..commit /\ w \in 0..from.applied /\ z \in Nat \ {0}
      /\ ChainHeight(from) = Genesis + Len(from.chain) /\ Len(from.chain) \in Nat
      /\ from.lastExec - Genesis = Len(from.chain) + Len(from.queue) /\ Len(from.queue) \in Nat
  BY ZenonT(30), <1>1, Counted
<1>6. IsSeq(r.chain) /\ IsSeq(r.queue) /\ IsSeq(from.chain) /\ IsSeq(from.queue) BY SMTT(30) DEF BooksOK
<1>7. w > r.applied + SnapCount /\ Genesis + Len(from.chain) >= z /\ ~(r.lastExec > z) BY <1>5
<1>8. w \in 0..commit /\ w # 0 /\ w \in 0..w
  <2> HIDE DEF w
  <2>1. QED BY <1>1, <1>5, <1>7
<1>9. /\ y \in Nat /\ x <= y /\ y <= Len(from.chain) /\ z = Genesis + y
      /\ r.lastExec = x + 1 /\ r.lastExec <= z
  <2>1. ASSUME NEW l \in Nat \ {0}, NEW h \in Nat \ {0}, NEW d \in Nat, Genesis + d >= h, ~(l > h)
        PROVE  /\ h - Genesis \in Nat /\ l - Genesis <= h - Genesis /\ h - Genesis <= d
               /\ h = Genesis + (h - Genesis) /\ l = (l - Genesis) + 1 /\ l <= h
    BY <2>1 DEF Genesis
  <2>2. QED BY ZenonT(30), <2>1, <1>5, <1>7
<1>10. Fetches(r.chain, r.queue, from.chain, x, y, f)
  <2>1. f = r.queue \o SubSeq(from.chain, x + 1, y) BY ZenonT(30), <1>9
  <2> HIDE DEF f, x, y
  <2>2. QED BY ZenonT(30), <2>1, <1>5, <1>6, <1>9 DEF Fetches
<1>11. /\ IsSeq(f) /\ Len(r.chain) + Len(f) = y
       /\ \A k \in 1..x : (r.chain \o f)[k] = (r.chain \o r.queue)[k]
       /\ \A k \in (x + 1)..y : (r.chain \o f)[k] = from.chain[k]
  <2> HIDE DEF f, x, y
  <2>1. Continues(r.chain, r.queue, from.chain, x, y, f) BY ZenonT(30), <1>10, Fetched
  <2>2. QED BY ZenonT(30), <2>1 DEF Continues
<1> HIDE DEF f, x, y, z, w
<1>16. x \in Nat /\ y \in Nat /\ x <= y BY ZenonT(30), <1>5, <1>9
<1>12. BooksOK(s, log, commit)
  <2>1. s.lastExec = Genesis + Len(s.chain) + Len(s.queue)
    <3>1. ASSUME NEW a \in Nat, NEW b, b = Len(f), a + b = y PROVE z = Genesis + a + b
      <4>1. Len(f) \in Nat BY <1>11, Appended
      <4>2. b \in Nat BY <4>1, <3>1
      <4>3. QED BY <4>2, <3>1, <1>9 DEF Genesis
    <3>2. QED BY ZenonT(90), <3>1, <1>2, <1>3, <1>5, <1>11
  <2>2. ChainHeight(s) = ChainHeight(r) BY <1>3 DEF ChainHeight
  <2>3. IndexesFit(s.bai, s.lastExec, log, commit)
    <3>1. IndexesFit(r.bai, r.lastExec, log, commit) BY SMTT(30) DEF BooksOK
    <3>2. r.lastExec \in Nat /\ z \in Nat BY <1>5
    <3>3. IndexesFit(r.bai, z, log, commit) BY <3>1, <3>2, <1>9, IndexesStay
    <3>4. QED BY ZenonT(30), <3>3, <1>2, <1>3
  <2>4. s.snap.index \in 0..s.applied /\ s.snap.height \in Nat \ {0}
    BY ZenonT(30), <1>2, <1>5, <1>8 DEF w, z
  <2>5. QED BY ZenonT(30), <2>1, <2>2, <2>3, <2>4, <1>2, <1>3, <1>6, <1>8, <1>11 DEF BooksOK
<1>13. s.snap.index # 0 BY ZenonT(30), <1>2, <1>8 DEF w
<1>14. ASSUME NEW P \in Seq(Nat), Path(P, log, commit), OnPath(r, P, log), OnPath(from, P, log),
              Steady(from, P)
       PROVE  OnPath(s, P, log) /\ Steady(s, P)
  <2>1. y <= Len(P) /\ At(P, y) <= w /\ (y < Len(P) => w < P[y + 1])
    BY ZenonT(30), <1>14 DEF Steady, Level, y, z, w
  <2>2. ASSUME NEW k \in 1..y PROVE (s.chain \o s.queue)[k] = log[P[k]].txs
    <3>1. CASE k \in 1..x
      <4>1. (r.chain \o r.queue)[k] = log[P[k]].txs BY ZenonT(30), <3>1, <1>14 DEF OnPath, x
      <4>2. QED BY ZenonT(30), <3>1, <4>1, <1>2, <1>3, <1>11
    <3>2. CASE k \in (x + 1)..y
      <4> DEFINE l == from.lastExec - Genesis
      <4>1. \A j \in 1..l : (from.chain \o from.queue)[j] = log[P[j]].txs BY ZenonT(30), <1>14 DEF OnPath
      <4>2. k \in 1..Len(from.chain) /\ k \in 1..l
        <5>1. ASSUME NEW a \in Nat, NEW b \in Nat, y <= a PROVE k \in 1..a /\ k \in 1..(a + b)
          BY <5>1, <3>2, <1>16
        <5>2. QED BY ZenonT(30), <5>1, <1>5, <1>9
      <4>3. (from.chain \o from.queue)[k] = from.chain[k] BY ZenonT(30), <4>2, <1>6, Joined
      <4>4. QED BY ZenonT(30), <3>2, <4>1, <4>2, <4>3, <1>2, <1>3, <1>11
    <3>3. k \in 1..x \/ k \in (x + 1)..y BY <1>16
    <3>4. QED BY ZenonT(30), <3>1, <3>2, <3>3
  <2>3. s.lastExec - Genesis = y BY <1>2 DEF y, z
  <2>4. OnPath(s, P, log)
    <3>1. /\ \A h \in DOMAIN r.bai : r.bai[h] <= At(P, h - Genesis)
          /\ r.db <= At(P, Len(r.chain))
      BY ZenonT(30), <1>14 DEF OnPath
    <3>2. QED BY ZenonT(30), <3>1, <2>1, <2>2, <2>3, <1>2, <1>3 DEF OnPath
  <2>5. Steady(s, P)
    <3>1. s.snap.height = s.lastExec /\ s.snap.height <= s.lastExec
      <4>1. z <= z BY <1>5
      <4>2. QED BY ZenonT(30), <4>1, <1>2 DEF z
    <3>2. Level(P, s.snap.index, s.snap.height) BY ZenonT(30), <1>2, <1>14 DEF Steady
    <3>3. QED BY ZenonT(30), <3>1, <3>2, <2>1, <2>3, <1>2 DEF Steady
  <2>6. QED BY SMTT(30), <2>4, <2>5
<1>15. QED BY ZenonT(30), <1>4, <1>12, <1>13, <1>14 DEF s

\* A node that is far behind takes the snapshot of the leader and the blocks before it.
LEMMA RecoverStep ==
    ASSUME Inv, NEW n \in Node, recoverFromSnapshot(n)
    PROVE  Inv'
<1> DEFINE r == nd[n]
           from == nd[lead]
           s == Recovered(r, from)
           hung == [r EXCEPT !.loop = "hung"]
<1>1. LogOK /\ DOMAIN nd = Node /\ \A m \in Node : LoopOK(nd[m]) /\ BooksOK(nd[m], log, commit)
  BY DEF Inv, BooksInv
<1>2. lead \in Node BY <1>1 DEF LogOK, recoverFromSnapshot
<1>3. /\ r.loop = "select" /\ from.snap.index > r.applied + SnapCount
      /\ ChainHeight(from) >= from.snap.height
      /\ log' = log /\ commit' = commit /\ lead' = lead /\ crashes' = crashes /\ tooNew' = tooNew
  BY DEF recoverFromSnapshot
<1>4. LogOK' BY ZenonT(30), <1>1, <1>3 DEF LogOK
<1>5. CASE nd' = [nd EXCEPT ![n] = hung]
  <2>1. LoopOK(hung) /\ Same(r, hung) BY <1>1, <1>3 DEF LoopOK, Same, Fields
  <2> HIDE DEF hung
  <2>2. QED BY ZenonT(30), <2>1, <1>3, <1>4, <1>5, NodeSame
<1>6. CASE nd' = [nd EXCEPT ![n] = s] /\ ~(r.lastExec > from.snap.height)
  <2>1. LoopOK(r) /\ BooksOK(r, log, commit) /\ BooksOK(from, log, commit) BY <1>1, <1>2
  <2>2. /\ LoopOK(s) /\ BooksOK(s, log, commit) /\ s.snap.index # 0
        /\ \A P \in Seq(Nat) :
              /\ Path(P, log, commit) /\ OnPath(r, P, log) /\ OnPath(from, P, log)
              /\ Steady(from, P)
              => OnPath(s, P, log) /\ Steady(s, P)
    BY ZenonT(30), <2>1, <1>1, <1>3, <1>6, RecoverFits
  <2> HIDE DEF s
  <2>3. nd'[n] = s BY <1>1, <1>6
  <2>4. ~NoSnapshot' BY ZenonT(30), <2>2, <2>3 DEF NoSnapshot
  <2>5. ASSUME NEW P \in Seq(Nat), Undisturbed', FollowsLog(P)
        PROVE  /\ OnPath(s, P, log)
               /\ crashes' = 0 => Steady(s, P)
               /\ ~tooNew' /\ NoSnapshot' => NoneAbove(s, P, log, commit)
    <3>1. crashes = 0 BY ZenonT(30), <2>4, <2>5, <1>3 DEF Undisturbed, NoSnapshot
    <3>2. Path(P, log, commit) /\ OnPath(r, P, log) /\ OnPath(from, P, log) /\ Steady(from, P)
      BY ZenonT(30), <3>1, <2>5, <1>2 DEF FollowsLog
    <3>3. QED BY ZenonT(30), <3>2, <2>2, <2>4
  <2>6. QED BY ZenonT(30), <2>2, <2>5, <1>3, <1>4, <1>6, NodeMoves
<1>7. QED BY ZenonT(30), <1>5, <1>6 DEF recoverFromSnapshot, Recovered

\* The first queued block becomes the last of the chain.
LEMMA ExecuteStep ==
    ASSUME Inv, NEW n \in Node, Execute(n)
    PROVE  Inv'
<1> DEFINE r == nd[n]
           c == Append(r.chain, Head(r.queue))
           q == Tail(r.queue)
           s == [r EXCEPT !.chain = c, !.queue = q, !.reports = @ \cup {ChainHeight(r) + 1}]
           a == Len(r.chain)
           b == Len(r.queue)
<1>1. LogOK /\ DOMAIN nd = Node /\ LoopOK(r) /\ BooksOK(r, log, commit) /\ commit \in Nat
  BY SMTT(30) DEF Inv, BooksInv, LogOK
<1>2. /\ nd' = [nd EXCEPT ![n] = s] /\ r.queue # <<>>
      /\ log' = log /\ commit' = commit /\ lead' = lead /\ crashes' = crashes /\ tooNew' = tooNew
  BY DEF Execute
<1>3. LogOK' BY ZenonT(30), <1>1, <1>2 DEF LogOK
<1>4. IsSeq(r.chain) /\ IsSeq(r.queue) BY ZenonT(30), <1>1 DEF BooksOK
<1>5. /\ DOMAIN s = Fields /\ s.chain = c /\ s.queue = q /\ s.reports = r.reports \cup {ChainHeight(r) + 1}
      /\ \A f \in Fields \ {"chain", "queue", "reports"} : s[f] = r[f]
  BY ZenonT(30), <1>1 DEF LoopOK, Fields
<1>6. LoopOK(s) BY <1>1, <1>5 DEF LoopOK, Fields
<1>7. /\ s.applied = r.applied /\ s.lastExec = r.lastExec /\ s.bai = r.bai /\ s.db = r.db /\ s.snap = r.snap
  BY <1>5 DEF Fields
<1> HIDE DEF s
<1>8. IsSeq(c) /\ Len(c) = a + 1 BY <1>4, Appended
<1>9. IsSeq(q) /\ Len(q) = b - 1 /\ b \in Nat \ {0} BY ZenonT(30), <1>2, <1>4, Taken
<1>10. \A k \in 1..(a + b) : (c \o q)[k] = (r.chain \o r.queue)[k]
  <2>1. PICK x, y : x = r.chain /\ y = r.queue OBVIOUS
  <2>2. IsSeq(x) /\ IsSeq(y) /\ y # <<>> BY ZenonT(30), <2>1, <1>2, <1>4
  <2>3. \A k \in 1..(Len(x) + Len(y)) : (Append(x, Head(y)) \o Tail(y))[k] = (x \o y)[k]
    BY ONLY <2>2, JoinedSame
  <2>4. QED BY ZenonT(30), <2>1, <2>3
<1>11. /\ a \in Nat /\ r.lastExec - Genesis = a + b /\ r.lastExec = Genesis + a + b
       /\ ChainHeight(r) = Genesis + a
  BY ZenonT(30), <1>1, Counted DEF BooksOK
<1>12. ChainHeight(s) = Genesis + a + 1
  <2>1. Genesis + (a + 1) = Genesis + a + 1 BY <1>11 DEF Genesis
  <2>2. QED BY ZenonT(30), <2>1, <1>5, <1>8 DEF ChainHeight
<1>13. BooksOK(s, log, commit)
  <2>1. s.lastExec = Genesis + Len(s.chain) + Len(s.queue)
    <3>1. ASSUME NEW x \in Nat, NEW y \in Nat \ {0} PROVE Genesis + x + y = Genesis + (x + 1) + (y - 1)
      BY DEF Genesis
    <3>2. QED BY ZenonT(90), <3>1, <1>5, <1>7, <1>8, <1>9, <1>11
  <2>2. s.reports \subseteq (Genesis + 1)..ChainHeight(s)
    <3>1. r.reports \subseteq (Genesis + 1)..(Genesis + a) BY ZenonT(30), <1>1, <1>11 DEF BooksOK
    <3>2. s.reports = r.reports \cup {Genesis + a + 1} BY <1>5, <1>11
    <3> HIDE DEF a
    <3>3. QED BY <3>1, <3>2, <1>11, <1>12 DEF Genesis
  <2>3. s.db > 0 => log[s.db].height \in (Genesis + 1)..ChainHeight(s)
    <3>1. r.db > 0 => log[r.db].height \in (Genesis + 1)..(Genesis + a)
      BY ZenonT(30), <1>1, <1>11 DEF BooksOK
    <3>2. \A h \in (Genesis + 1)..(Genesis + a) : h \in (Genesis + 1)..(Genesis + a + 1)
      <4> HIDE DEF a
      <4>1. QED BY <1>11 DEF Genesis
    <3>3. QED BY ZenonT(30), <3>1, <3>2, <1>7, <1>12
  <2>4. QED BY ZenonT(30), <2>1, <2>2, <2>3, <1>1, <1>5, <1>7, <1>8, <1>9 DEF BooksOK
<1>14. ASSUME NEW P \in Seq(Nat), FollowsLog(P)
       PROVE  /\ OnPath(s, P, log)
              /\ crashes = 0 => Steady(s, P)
              /\ ~tooNew /\ NoSnapshot => NoneAbove(s, P, log, commit)
  <2>1. /\ Path(P, log, commit) /\ OnPath(r, P, log)
        /\ crashes = 0 => Steady(r, P)
        /\ ~tooNew /\ NoSnapshot => NoneAbove(r, P, log, commit)
    BY ZenonT(30), <1>14 DEF FollowsLog
  <2>2. /\ a + b <= Len(P) /\ \A k \in 1..(a + b) : (r.chain \o r.queue)[k] = log[P[k]].txs
        /\ r.db <= At(P, a)
    BY ZenonT(30), <2>1, <1>11 DEF OnPath
  <2>3. \A k \in 1..(a + b) : (s.chain \o s.queue)[k] = log[P[k]].txs
    BY ZenonT(30), <2>2, <1>5, <1>10
  <2>4. r.db <= At(P, a + 1)
    <3> HIDE DEF a, b
    <3>1. Len(P) \in Nat OBVIOUS
    <3>2. a \in 0..Len(P) /\ a + 1 \in 0..Len(P) /\ a <= a + 1 BY <3>1, <2>2, <1>9, <1>11
    <3>3. At(P, a) <= At(P, a + 1) /\ At(P, a) \in 0..commit /\ At(P, a + 1) \in 0..commit
      BY ZenonT(30), <3>2, <2>1, <1>1, Positions
    <3>4. r.db \in 0..commit BY ZenonT(30), <1>1, Counted
    <3>5. ASSUME NEW x \in 0..commit, NEW y \in 0..commit, NEW z \in 0..commit, x <= y, y <= z
          PROVE  x <= z
      BY <3>5, <1>1
    <3>6. QED BY <3>3, <3>4, <3>5, <2>2
  <2>5. OnPath(s, P, log)
    BY ZenonT(30), <2>1, <2>3, <2>4, <1>5, <1>7, <1>8, <1>11 DEF OnPath
  <2>6. Steady(r, P) => Steady(s, P) BY ZenonT(30), <1>7 DEF Steady
  <2>7. NoneAbove(r, P, log, commit) => NoneAbove(s, P, log, commit) BY ZenonT(30), <1>7 DEF NoneAbove
  <2>8. QED BY <2>1, <2>5, <2>6, <2>7
<1>15. NoSnapshot' => NoSnapshot
  <2>1. nd'[n] = s /\ \A m \in Node : m # n => nd'[m] = nd[m] BY <1>1, <1>2
  <2>2. QED BY ZenonT(30), <2>1, <1>7 DEF NoSnapshot
<1>16. s.snap.index = 0 => nd[n].snap.index = 0 BY <1>7
<1>17. \A P \in Seq(Nat) : Undisturbed' /\ FollowsLog(P) =>
              /\ OnPath(s, P, log)
              /\ crashes' = 0 => Steady(s, P)
              /\ ~tooNew' /\ NoSnapshot' => NoneAbove(s, P, log, commit)
  BY ZenonT(30), <1>2, <1>14, <1>15
<1>18. QED BY ZenonT(30), <1>2, <1>3, <1>6, <1>13, <1>16, <1>17, NodeMoves

\* The index that a report stores is at most that of the last block on disk.
LEMMA ReportFits ==
    ASSUME NEW r, NEW h \in r.reports, NEW s, LogOK, BooksOK(r, log, commit), h \in DOMAIN r.bai,
           s.reports = r.reports \ {h}, s.db = r.bai[h], s.bai = Drop(r.bai, {h - 1}),
           s.applied = r.applied, s.lastExec = r.lastExec, s.queue = r.queue, s.chain = r.chain,
           s.snap = r.snap
    PROVE  /\ BooksOK(s, log, commit)
           /\ \A P \in Seq(Nat) : Path(P, log, commit) /\ OnPath(r, P, log) => OnPath(s, P, log)
<1> DEFINE a == Len(r.chain)
<1>1. commit \in Nat BY SMTT(30) DEF LogOK
<1>2. /\ a \in Nat /\ r.lastExec \in Nat \ {0} /\ ChainHeight(r) = Genesis + a
      /\ Len(r.queue) \in Nat /\ r.lastExec - Genesis = a + Len(r.queue)
  BY ZenonT(30), <1>1, Counted
<1>3. h \in (Genesis + 1)..(Genesis + a) BY ZenonT(30), <1>2 DEF BooksOK
<1>4. IndexesFit(r.bai, r.lastExec, log, commit) BY ZenonT(30) DEF BooksOK
<1> HIDE DEF a
<1>5. DOMAIN s.bai = DOMAIN r.bai \ {h - 1} /\ \A k \in DOMAIN s.bai : s.bai[k] = r.bai[k] /\ k \in DOMAIN r.bai
  BY DEF Drop
<1>6. IndexesFit(s.bai, r.lastExec, log, commit)
  <2>1. PICK t \in DOMAIN r.bai : \A k \in DOMAIN r.bai : k <= t BY <1>4 DEF IndexesFit
  <2>2. t \in Genesis..r.lastExec /\ h <= t BY <2>1, <1>4 DEF IndexesFit
  <2>3. t # h - 1 BY <2>2, <1>2, <1>3 DEF Genesis
  <2>4. t \in DOMAIN s.bai /\ \A k \in DOMAIN s.bai : k <= t BY <2>1, <2>3, <1>5
  <2>5. \A k \in DOMAIN s.bai :
          /\ k \in Genesis..r.lastExec /\ s.bai[k] \in 0..commit
          /\ s.bai[k] > 0 => log[s.bai[k]].height \in (Genesis + 1)..k
    BY ZenonT(30), <1>4, <1>5 DEF IndexesFit
  <2>6. QED BY ZenonT(30), <2>4, <2>5 DEF IndexesFit
<1>7. s.db \in 0..commit /\ (s.db > 0 => log[s.db].height \in (Genesis + 1)..ChainHeight(s))
  <2>1. r.bai[h] \in 0..commit /\ (r.bai[h] > 0 => log[r.bai[h]].height \in (Genesis + 1)..h)
    BY ZenonT(30), <1>4 DEF IndexesFit
  <2>2. \A x \in (Genesis + 1)..h : x \in (Genesis + 1)..(Genesis + a) BY <1>2, <1>3 DEF Genesis
  <2>3. ChainHeight(s) = Genesis + a BY <1>2 DEF ChainHeight
  <2>4. QED BY ZenonT(30), <2>1, <2>2, <2>3
<1>8. s.reports \subseteq (Genesis + 1)..ChainHeight(s)
  <2>1. ChainHeight(s) = ChainHeight(r) BY DEF ChainHeight
  <2>2. QED BY SMTT(30), <2>1 DEF BooksOK
<1>9. BooksOK(s, log, commit) BY ZenonT(30), <1>6, <1>7, <1>8 DEF BooksOK
<1>10. ASSUME NEW P \in Seq(Nat), Path(P, log, commit), OnPath(r, P, log) PROVE OnPath(s, P, log)
  <2>1. /\ r.lastExec - Genesis <= Len(P)
        /\ \A k \in DOMAIN r.bai : r.bai[k] <= At(P, k - Genesis)
    BY ZenonT(30), <1>10 DEF OnPath
  <2>2. s.db <= At(P, Len(s.chain))
    <3>1. Len(P) \in Nat OBVIOUS
    <3>2. a <= Len(P)
      <4>1. ASSUME NEW y \in Nat, a + y <= Len(P) PROVE a <= Len(P) BY <4>1, <3>1, <1>2
      <4>2. QED BY ZenonT(30), <4>1, <2>1, <1>2
    <3>a. h - Genesis \in 0..a BY SMTT(30), <1>2, <1>3 DEF Genesis
    <3>3. h - Genesis \in 0..Len(P) /\ a \in 0..Len(P) /\ h - Genesis <= a
      <4>1. ASSUME NEW x \in 0..a, NEW l \in Nat, a <= l PROVE x \in 0..l /\ a \in 0..l /\ x <= a
        BY SMTT(30), <4>1, <1>2
      <4>2. QED BY ZenonT(30), <4>1, <3>1, <3>2, <3>a
    <3>4. /\ At(P, h - Genesis) <= At(P, a) /\ At(P, a) \in 0..commit /\ At(P, h - Genesis) \in 0..commit
      BY ZenonT(30), <3>3, <1>1, <1>10, Positions
    <3>5. r.bai[h] \in 0..commit BY SMTT(30), <1>4 DEF IndexesFit
    <3>6. r.bai[h] <= At(P, h - Genesis) BY <2>1
    <3>7. ASSUME NEW x \in 0..commit, NEW y \in 0..commit, NEW z \in 0..commit, x <= y, y <= z
          PROVE  x <= z
      BY <3>7, <1>1
    <3>8. r.bai[h] <= At(P, a) BY <3>4, <3>5, <3>6, <3>7
    <3>9. QED BY ZenonT(30), <3>8 DEF a
  <2>3. \A k \in DOMAIN s.bai : s.bai[k] <= At(P, k - Genesis) BY ZenonT(30), <2>1, <1>5
  <2>4. QED BY ZenonT(30), <2>2, <2>3, <1>10 DEF OnPath
<1>11. QED BY SMTT(30), <1>9, <1>10

\* A report of an executed block: its index goes to disk, the one before it is forgotten.
LEMMA ReportStep ==
    ASSUME Inv, NEW n \in Node, NEW h \in nd[n].reports, reportState(n, h)
    PROVE  Inv'
<1> DEFINE r == nd[n]
           left == [r EXCEPT !.reports = @ \ {h}]
           p == processCommitTransactions(left.pool, Range(r.chain[h - Genesis]), LedgerOf(r))
           stored == [left EXCEPT !.db = r.bai[h], !.bai = Drop(@, {h - 1}), !.pool = p]
<1>1. LogOK /\ DOMAIN nd = Node /\ LoopOK(r) /\ BooksOK(r, log, commit)
  BY DEF Inv, BooksInv
<1>2. /\ nd' = [nd EXCEPT ![n] = IF h \notin DOMAIN r.bai THEN left ELSE stored]
      /\ log' = log /\ commit' = commit /\ lead' = lead /\ crashes' = crashes /\ tooNew' = tooNew
  BY DEF reportState
<1>3. LogOK' BY ZenonT(30), <1>1, <1>2 DEF LogOK
<1>4. /\ DOMAIN left = Fields /\ left.reports = r.reports \ {h}
      /\ \A f \in Fields \ {"reports"} : left[f] = r[f]
  BY <1>1 DEF LoopOK, Fields
<1>5. IsPool(left.pool) BY <1>1, <1>4 DEF LoopOK, Fields
<1>6. IsPool(p) BY <1>5, PoolCommits
<1> HIDE DEF left, p
<1>7. /\ DOMAIN stored = Fields /\ stored.db = r.bai[h] /\ stored.bai = Drop(left.bai, {h - 1}) /\ stored.pool = p
      /\ \A f \in Fields \ {"db", "bai", "pool"} : stored[f] = left[f]
  BY ZenonT(30), <1>4 DEF Fields
<1> HIDE DEF stored
<1>8. LoopOK(left) BY SMTT(30), <1>1, <1>4 DEF LoopOK, Fields
<1>9. LoopOK(stored) BY <1>6, <1>7, <1>8 DEF LoopOK, Fields
<1>10. \E s : /\ nd' = [nd EXCEPT ![n] = s] /\ LoopOK(s) /\ BooksOK(s, log, commit)
              /\ s.snap = r.snap /\ s.lastExec = r.lastExec /\ s.applied = r.applied
              /\ \A P \in Seq(Nat) : Path(P, log, commit) /\ OnPath(r, P, log) => OnPath(s, P, log)
  <2>1. CASE h \notin DOMAIN r.bai
    <3>1. nd' = [nd EXCEPT ![n] = left] BY <2>1, <1>2
    <3>2. /\ left.applied = r.applied /\ left.lastExec = r.lastExec /\ left.bai = r.bai
          /\ left.queue = r.queue /\ left.chain = r.chain /\ left.db = r.db /\ left.snap = r.snap
      BY <1>4 DEF Fields
    <3>3. BooksOK(left, log, commit)
      <4>1. ChainHeight(left) = ChainHeight(r) BY <3>2 DEF ChainHeight
      <4>2. left.reports \subseteq (Genesis + 1)..ChainHeight(r) BY ZenonT(30), <1>1, <1>4 DEF BooksOK
      <4>3. QED BY ZenonT(30), <4>1, <4>2, <3>2, <1>1 DEF BooksOK
    <3>4. \A P : OnPath(r, P, log) => OnPath(left, P, log) BY ZenonT(30), <3>2 DEF OnPath
    <3>5. QED BY ZenonT(30), <3>1, <3>2, <3>3, <3>4, <1>8
  <2>2. CASE h \in DOMAIN r.bai
    <3>1. nd' = [nd EXCEPT ![n] = stored] BY ZenonT(30), <2>2, <1>2
    <3>2. /\ stored.reports = r.reports \ {h} /\ stored.bai = Drop(r.bai, {h - 1})
          /\ stored.applied = r.applied /\ stored.lastExec = r.lastExec
          /\ stored.queue = r.queue /\ stored.chain = r.chain /\ stored.snap = r.snap
      BY SMTT(30), <1>4, <1>7 DEF Fields
    <3>3. /\ BooksOK(stored, log, commit)
          /\ \A P \in Seq(Nat) : Path(P, log, commit) /\ OnPath(r, P, log) => OnPath(stored, P, log)
      BY ZenonT(30), <2>2, <3>2, <1>1, <1>7, ReportFits
    <3>4. QED BY ZenonT(30), <3>1, <3>2, <3>3, <1>9
  <2>3. QED BY ZenonT(30), <2>1, <2>2
<1>11. PICK s : /\ nd' = [nd EXCEPT ![n] = s] /\ LoopOK(s) /\ BooksOK(s, log, commit)
                /\ s.snap = r.snap /\ s.lastExec = r.lastExec /\ s.applied = r.applied
                /\ \A P \in Seq(Nat) : Path(P, log, commit) /\ OnPath(r, P, log) => OnPath(s, P, log)
  BY ZenonT(30), <1>10
<1>12. NoSnapshot' => NoSnapshot
  <2>1. nd'[n] = s /\ \A m \in Node : m # n => nd'[m] = nd[m] BY ZenonT(30), <1>1, <1>11
  <2>2. QED BY ZenonT(30), <2>1, <1>11 DEF NoSnapshot
<1>13. ASSUME NEW P \in Seq(Nat), FollowsLog(P)
       PROVE  /\ OnPath(s, P, log)
              /\ crashes' = 0 => Steady(s, P)
              /\ ~tooNew' /\ NoSnapshot' => NoneAbove(s, P, log, commit)
  <2>1. /\ Path(P, log, commit) /\ OnPath(r, P, log)
        /\ crashes = 0 => Steady(r, P)
        /\ ~tooNew /\ NoSnapshot => NoneAbove(r, P, log, commit)
    BY ZenonT(30), <1>13 DEF FollowsLog
  <2>2. Steady(r, P) => Steady(s, P) BY ZenonT(30), <1>11 DEF Steady
  <2>3. NoneAbove(r, P, log, commit) => NoneAbove(s, P, log, commit) BY ZenonT(30), <1>11 DEF NoneAbove
  <2>4. QED BY ZenonT(30), <2>1, <2>2, <2>3, <1>2, <1>11, <1>12
<1>14. QED BY ZenonT(30), <1>2, <1>3, <1>11, <1>13, NodeMoves

\* A crash leaves what is on disk; what was queued is minted again from the log.
LEMMA CrashStep ==
    ASSUME Inv, NEW n \in Node, Crash(n)
    PROVE  Inv'
<1> DEFINE r == nd[n]
           s == Started(r.chain, r.db, r.snap)
           a == Len(r.chain)
<1>1. LogOK /\ DOMAIN nd = Node /\ LoopOK(r) /\ BooksOK(r, log, commit) /\ commit \in Nat
  BY DEF Inv, BooksInv, LogOK
<1>2. /\ nd' = [nd EXCEPT ![n] = s] /\ crashes' = crashes + 1
      /\ lead' = None \/ lead' = lead
      /\ log' = log /\ commit' = commit /\ tooNew' = tooNew
  BY DEF Crash
<1>3. crashes \in Nat BY <1>1 DEF LogOK
<1>4. crashes' \in Nat /\ crashes' # 0 BY <1>2, <1>3
<1>5. LogOK' BY ZenonT(30), <1>1, <1>2, <1>4 DEF LogOK
<1>6. /\ a \in Nat /\ Len(r.queue) \in Nat /\ r.lastExec - Genesis = a + Len(r.queue)
      /\ r.applied \in 0..commit /\ r.snap.index \in 0..r.applied /\ r.snap.height \in Nat \ {0}
      /\ r.db \in 0..commit /\ ChainHeight(r) = Genesis + a
  BY ZenonT(30), <1>1, Counted
<1>7. IsSeq(r.chain) /\ IsSeq(r.queue)
      /\ (r.db > 0 => log[r.db].height \in (Genesis + 1)..(Genesis + a))
  BY ZenonT(30), <1>1, <1>6 DEF BooksOK
<1>8. /\ s.applied = r.snap.index /\ s.lastExec = Genesis + a
      /\ s.bai = [h \in {Genesis + a} |-> r.db] /\ s.queue = <<>> /\ s.reports = {} /\ s.chain = r.chain
      /\ s.db = r.db /\ s.snap = r.snap
  BY ZenonT(30) DEF Started
<1>9. LoopOK(s)
  <2>1. Genesis + a \in Nat BY <1>6 DEF Genesis
  <2> HIDE DEF a
  <2>2. IsPool(newMempoolImpl(Genesis + a)) BY <2>1 DEF newMempoolImpl, IsPool
  <2>3. /\ DOMAIN s = Fields /\ s.prop = NoBatch /\ s.hand = NoBatch /\ s.loop = "select"
        /\ s.pool = newMempoolImpl(Genesis + a)
    BY ZenonT(30) DEF Started, Fields, a
  <2> HIDE DEF s
  <2>4. QED BY <2>2, <2>3 DEF LoopOK, NoBatch
<1> HIDE DEF s
<1>10. DOMAIN s.bai = {Genesis + a} /\ s.bai[Genesis + a] = r.db BY ZenonT(30), <1>8
<1>11. s.chain \o s.queue = r.chain BY <1>7, <1>8 DEF IsSeq
<1>12. BooksOK(s, log, commit)
  <2>1. IsSeq(s.queue) /\ Len(s.queue) = 0 BY SMTT(30), <1>8 DEF IsSeq
  <2>2. s.lastExec = Genesis + Len(s.chain) + Len(s.queue)
    <3>1. Genesis + a = Genesis + a + 0 BY <1>6 DEF Genesis
    <3>2. QED BY ZenonT(30), <3>1, <2>1, <1>8
  <2>3. s.applied \in 0..commit /\ s.snap.index \in 0..s.applied
    <3>1. ASSUME NEW x \in 0..commit, NEW y \in 0..x PROVE y \in 0..commit /\ y \in 0..y
      BY <3>1, <1>1
    <3>2. QED BY ZenonT(30), <3>1, <1>6, <1>8
  <2>4. ChainHeight(s) = Genesis + a BY <1>8 DEF ChainHeight
  <2>5. IndexesFit(s.bai, s.lastExec, log, commit)
    <3>1. Genesis + a \in Genesis..(Genesis + a) /\ Genesis + a <= Genesis + a BY <1>6 DEF Genesis
    <3> HIDE DEF a
    <3>2. QED BY ZenonT(30), <3>1, <1>6, <1>7, <1>8, <1>10 DEF IndexesFit
  <2>6. s.reports \subseteq (Genesis + 1)..ChainHeight(s) BY <1>8
  <2>7. QED BY ZenonT(30), <2>1, <2>2, <2>3, <2>4, <2>5, <2>6, <1>6, <1>7, <1>8 DEF BooksOK
<1>13. ASSUME NEW P \in Seq(Nat), Undisturbed', FollowsLog(P)
       PROVE  OnPath(s, P, log) /\ NoneAbove(s, P, log, commit)
  <2>1. ~tooNew' /\ NoSnapshot' BY <1>4, <1>13 DEF Undisturbed, NoSnapshot
  <2>2. s.snap.index = 0 /\ NoSnapshot
    <3>1. nd'[n] = s /\ \A m \in Node : m # n => nd'[m] = nd[m] BY <1>1, <1>2
    <3>2. QED BY ZenonT(30), <3>1, <2>1, <1>8 DEF NoSnapshot
  <2>3. Path(P, log, commit) /\ OnPath(r, P, log) /\ NoneAbove(r, P, log, commit)
    BY ZenonT(30), <2>1, <2>2, <1>2, <1>13 DEF FollowsLog
  <2>4. s.applied = 0 BY ZenonT(30), <2>2, <1>8
  <2>5. s.lastExec - Genesis = a BY <1>6, <1>8 DEF Genesis
  <2>6. Len(P) \in Nat OBVIOUS
  <2>7. a <= Len(P) /\ a <= r.lastExec - Genesis
    <3>1. r.lastExec - Genesis <= Len(P) BY ZenonT(30), <2>3 DEF OnPath
    <3>2. ASSUME NEW y \in Nat, a + y <= Len(P) PROVE a <= Len(P) /\ a <= a + y
      BY SMTT(30), <3>2, <2>6, <1>6
    <3>3. QED BY ZenonT(30), <3>1, <3>2, <1>6
  <2> DEFINE l == r.lastExec - Genesis
  <2>8. l \in Nat BY ZenonT(30), <1>1, Counted
  <2>9. \A k \in 1..l : (r.chain \o r.queue)[k] = log[P[k]].txs BY ZenonT(30), <2>3 DEF OnPath
  <2>10. \A k \in 0..l : \A j \in 1..commit : j <= At(P, k) => log[j].height <= Genesis + k
    BY <2>3 DEF NoneAbove
  <2>11. a <= l BY <2>7
  <2>12. r.db <= At(P, a) BY ZenonT(30), <2>3 DEF OnPath
  <2>13. \A k \in 1..a : (r.chain \o r.queue)[k] = r.chain[k] BY ZenonT(30), <1>7, Joined
  <2> HIDE DEF l, a
  <2>14. (\A k \in 1..a : k \in 1..l) /\ (\A k \in 0..a : k \in 0..l) BY <2>8, <2>11, <1>6
  <2>15. \A k \in 1..a : (s.chain \o s.queue)[k] = log[P[k]].txs
    BY ZenonT(30), <2>9, <2>13, <2>14, <1>11
  <2>16. a < Len(P) => s.applied < P[a + 1]
    <3>1. SUFFICES ASSUME a < Len(P) PROVE 0 < P[a + 1] BY <2>4
    <3>2. a + 1 \in 1..Len(P) BY <3>1, <2>6, <1>6
    <3>3. P[a + 1] \in 1..commit BY <3>2, <2>3 DEF Path
    <3>4. QED BY <3>3, <1>1
  <2>17. (Genesis + a) - Genesis = a BY <1>6 DEF Genesis
  <2>18. \A h \in DOMAIN s.bai : s.bai[h] <= At(P, h - Genesis)
    BY ZenonT(30), <2>12, <2>17, <1>10
  <2>19. Len(s.chain) = a /\ s.db = r.db BY <1>8 DEF a
  <2>20. OnPath(s, P, log)
    BY ZenonT(30), <2>5, <2>7, <2>12, <2>15, <2>16, <2>18, <2>19 DEF OnPath
  <2>21. \A j \in 1..s.applied : log[j].height <= s.lastExec
    <3>1. 1..0 = {} OBVIOUS
    <3>2. QED BY ZenonT(30), <3>1, <2>4
  <2>22. NoneAbove(s, P, log, commit)
    BY ZenonT(30), <2>5, <2>10, <2>14, <2>21 DEF NoneAbove
  <2>23. QED BY <2>20, <2>22
<1>14. s.snap.index = 0 => nd[n].snap.index = 0 BY <1>8
<1>15. crashes' = 0 => crashes = 0 BY <1>4
<1>16. tooNew => tooNew' BY <1>2
<1>17. \A i \in 1..commit : log'[i] = log[i] BY <1>2
<1>18. QED BY ZenonT(30), <1>2, <1>4, <1>5, <1>9, <1>12, <1>13, <1>14, <1>15, <1>16, <1>17, NodeMoves

-----------------------------------------------------------------------------
(* The theorems. *)

\* Every node starts with the genesis block, and the path is empty.
LEMMA InitInv ==
    ASSUME Init
    PROVE  Inv
<1> DEFINE snap == [index |-> 0, height |-> Genesis]
           s == Started(<<>>, 0, snap)
<1>1. /\ nd = [n \in Node |-> s] /\ log = <<>> /\ commit = 0 /\ lead = None /\ crashes = 0
      /\ tooNew = FALSE
  BY DEF Init
<1>2. Len(<<>>) = 0 /\ IsSeq(<<>>) BY DEF IsSeq
<1>3. Genesis + 0 = Genesis /\ Genesis \in Nat \ {0} /\ Genesis - Genesis = 0 BY DEF Genesis
<1>4. /\ s.applied = 0 /\ s.lastExec = Genesis /\ s.bai = [h \in {Genesis} |-> 0]
      /\ s.queue = <<>> /\ s.reports = {} /\ s.chain = <<>> /\ s.db = 0
      /\ s.snap.index = 0 /\ s.snap.height = Genesis
  BY ZenonT(30), <1>2, <1>3 DEF Started
<1>5. LoopOK(s)
  <2>1. IsPool(newMempoolImpl(Genesis)) BY <1>3 DEF newMempoolImpl, IsPool
  <2>2. /\ DOMAIN s = Fields /\ s.prop = NoBatch /\ s.hand = NoBatch /\ s.loop = "select"
        /\ s.pool = newMempoolImpl(Genesis)
    BY ZenonT(30), <1>2, <1>3 DEF Started, Fields
  <2> HIDE DEF s
  <2>3. QED BY <2>1, <2>2 DEF LoopOK, NoBatch
<1> HIDE DEF s
<1>6. DOMAIN s.bai = {Genesis} /\ s.bai[Genesis] = 0 BY <1>4
<1>7. BooksOK(s, <<>>, 0)
  <2>1. ChainHeight(s) = Genesis BY <1>2, <1>3, <1>4 DEF ChainHeight
  <2>2. IndexesFit(s.bai, Genesis, <<>>, 0)
    <3>1. Genesis \in Genesis..Genesis /\ Genesis <= Genesis /\ 0 \in 0..0 /\ ~(0 > 0) BY DEF Genesis
    <3>2. QED BY <3>1, <1>6 DEF IndexesFit
  <2>3. s.lastExec = Genesis + Len(s.chain) + Len(s.queue) BY ZenonT(30), <1>2, <1>3, <1>4
  <2>4. 0 \in 0..0 /\ ~(0 > 0) OBVIOUS
  <2>5. s.reports \subseteq (Genesis + 1)..ChainHeight(s) BY <1>4
  <2>6. QED BY ZenonT(30), <2>2, <2>3, <2>4, <2>5, <1>2, <1>3, <1>4 DEF BooksOK
<1>8. LogOK
  <2>1. MaxLog \in Nat BY RaftAssumption
  <2>2. 0 <= MaxLog /\ 0 \in 0..0 /\ 1..0 = {} /\ 0 \in Nat BY <2>1
  <2>3. QED BY ZenonT(30), <2>2, <1>1, <1>2 DEF LogOK
<1>9. BooksInv BY <1>1, <1>5, <1>7, <1>8 DEF BooksInv
<1>10. FollowsLog(<<>>)
  <2>1. Path(<<>>, <<>>, 0)
    <3>1. 1..0 = {} OBVIOUS
    <3>2. QED BY ZenonT(30), <3>1, <1>2 DEF Path
  <2>2. At(<<>>, 0) = 0 BY DEF At
  <2>3. 0 <= 0 /\ ~(0 < 0) /\ 1..0 = {} /\ Genesis <= Genesis BY DEF Genesis
  <2>4. OnPath(s, <<>>, <<>>)
    <3>1. \A h \in DOMAIN s.bai : s.bai[h] <= At(<<>>, h - Genesis) BY ZenonT(30), <2>2, <2>3, <1>3, <1>6
    <3>2. QED BY ZenonT(30), <3>1, <2>2, <2>3, <1>2, <1>3, <1>4 DEF OnPath
  <2>5. Steady(s, <<>>) BY ZenonT(30), <2>2, <2>3, <1>2, <1>3, <1>4 DEF Steady, Level
  <2>6. NoneAbove(s, <<>>, <<>>, 0) BY ZenonT(30), <2>3, <1>4 DEF NoneAbove
  <2>7. QED BY <2>1, <2>4, <2>5, <2>6, <1>1 DEF FollowsLog
<1>11. <<>> \in Seq(Nat) OBVIOUS
<1>12. QED BY ZenonT(30), <1>9, <1>10, <1>11 DEF Inv

\* No step of any node leaves the invariant.
LEMMA NextInv ==
    ASSUME Inv, [Next]_vars
    PROVE  Inv'
<1>1. CASE \E n \in Node, t \in Tx : Receive(n, t) BY SMTT(30), <1>1, PoolStep
<1>2. CASE \E n \in Node : processBatchTimeout(n) BY <1>2, PoolStep
<1>3. CASE \E n \in Node : processGenerateBlockTimeout(n) BY <1>3, PoolStep
<1>4. CASE \E n \in Node : handleRequestMsg(n) BY <1>4, ProposeStep
<1>5. CASE \E n \in Node : \E k \in commit..Len(log) : Elect(n, k) BY <1>5, ElectStep
<1>6. CASE Commit BY <1>6, CommitStep
<1>7. CASE \E n \in Node : Learn(n) BY <1>7, LearnStep
<1>8. CASE \E n \in Node : Ready(n) BY <1>8, ReadyStep
<1>9. CASE \E n \in Node : recoverFromSnapshot(n) BY <1>9, RecoverStep
<1>10. CASE \E n \in Node : Execute(n) BY <1>10, ExecuteStep
<1>11. CASE \E n \in Node : \E h \in nd[n].reports : reportState(n, h) BY <1>11, ReportStep
<1>12. CASE \E n \in Node : Crash(n) BY <1>12, CrashStep
<1>13. CASE UNCHANGED vars
  <2>1. /\ nd' = nd /\ log' = log /\ commit' = commit /\ lead' = lead /\ crashes' = crashes
        /\ tooNew' = tooNew
    BY <1>13 DEF vars
  <2>2. LogOK' BY ZenonT(30), <2>1 DEF Inv, BooksInv, LogOK
  <2>3. BooksInv' BY ZenonT(30), <2>1, <2>2 DEF Inv, BooksInv
  <2>4. Undisturbed' = Undisturbed BY ZenonT(30), <2>1 DEF Undisturbed
  <2>5. \A P \in Seq(Nat) : FollowsLog(P) => FollowsLog(P)'
    BY ZenonT(30), <2>1 DEF FollowsLog, NoSnapshot
  <2>6. QED BY ZenonT(30), <2>3, <2>4, <2>5 DEF Inv
<1>14. QED
  BY ZenonT(30), <1>1, <1>2, <1>3, <1>4, <1>5, <1>6, <1>7, <1>8, <1>9, <1>10, <1>11, <1>12, <1>13
  DEF Next

\* The invariant holds in every reachable state.
LEMMA InvHolds == Spec => []Inv
<1>1. Init => Inv BY InitInv
<1>2. Inv /\ [Next]_vars => Inv' BY NextInv
<1>3. QED BY <1>1, <1>2, PTL DEF Spec

\* Nothing is applied past the committed log, what a node counts as executed is its chain and
\* its queue, and the loop holds a batch exactly while it waits (node.go: run, publishEntries).
THEOREM RaftTypeCorrect == Spec => []TypeOK
<1>1. Inv => TypeOK
  <2>1. SUFFICES ASSUME Inv PROVE TypeOK OBVIOUS
  <2>2. LogOK /\ \A n \in Node : LoopOK(nd[n]) /\ BooksOK(nd[n], log, commit) BY <2>1 DEF Inv, BooksInv
  <2>3. commit \in Nat BY <2>2 DEF LogOK
  <2>4. ASSUME NEW n \in Node PROVE nd[n].applied <= commit
    <3>1. nd[n].applied \in 0..commit BY ZenonT(30), <2>2 DEF BooksOK
    <3>2. QED BY <3>1, <2>3
  <2>5. QED BY ZenonT(30), <2>2, <2>4 DEF TypeOK, LogOK, LoopOK, BooksOK, ChainHeight
<1>2. QED BY <1>1, InvHolds, PTL

\* The applied index on disk never passes the index of the last block on disk, so a restart
\* replays every entry whose block was not executed (reportState).
THEOREM RaftDiskBehind == Spec => []DiskBehind
<1>1. Inv => DiskBehind BY ZenonT(30) DEF Inv, BooksInv, BooksOK, DiskBehind
<1>2. QED BY <1>1, InvHolds, PTL

\* Two nodes never execute different blocks at a height: without a crash, and with crashes as
\* long as no snapshot was taken and no batch above the expected height was passed over
\* (publishEntries, recoverFromSnapshot).
THEOREM RaftChainsAgree == Spec => []ChainsAgree
<1>1. Inv => ChainsAgree
  <2>1. SUFFICES ASSUME Inv, Undisturbed, NEW m \in Node, NEW n \in Node,
                        NEW i \in DOMAIN (nd[m].chain \o nd[m].queue) \cap DOMAIN (nd[n].chain \o nd[n].queue)
                 PROVE  (nd[m].chain \o nd[m].queue)[i] = (nd[n].chain \o nd[n].queue)[i]
    BY ZenonT(30) DEF ChainsAgree
  <2>2. PICK P \in Seq(Nat) : FollowsLog(P) BY <2>1 DEF Inv
  <2>3. ASSUME NEW o \in Node, i \in DOMAIN (nd[o].chain \o nd[o].queue)
        PROVE  (nd[o].chain \o nd[o].queue)[i] = log[P[i]].txs
    <3>1. BooksOK(nd[o], log, commit) /\ commit \in Nat BY <2>1 DEF Inv, BooksInv, LogOK
    <3>2. IsSeq(nd[o].chain) /\ IsSeq(nd[o].queue) BY ZenonT(30), <3>1 DEF BooksOK
    <3>3. DOMAIN (nd[o].chain \o nd[o].queue) = 1..(Len(nd[o].chain) + Len(nd[o].queue))
      BY <3>2, Joined
    <3>4. nd[o].lastExec - Genesis = Len(nd[o].chain) + Len(nd[o].queue) BY ZenonT(30), <3>1, Counted
    <3>5. i \in 1..(nd[o].lastExec - Genesis) BY ZenonT(30), <2>3, <3>3, <3>4
    <3>6. OnPath(nd[o], P, log) BY <2>2 DEF FollowsLog
    <3>7. QED BY ZenonT(30), <3>5, <3>6 DEF OnPath
  <2>4. QED BY ZenonT(30), <2>1, <2>3
<1>2. QED BY <1>1, InvHolds, PTL
=============================================================================
