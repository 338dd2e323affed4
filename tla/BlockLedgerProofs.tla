-------------------------- MODULE BlockLedgerProofs ----------------------------
(***************************************************************************)
(* Proofs about BlockLedger, for all blocks, every number of journals kept *)
(* and every number of crashes, at the points of SafePoint, and rollbacks. *)
(***************************************************************************)
EXTENDS BlockLedger, SequenceTheorems, FiniteSetTheorems, TLAPS

(***************************************************************************)
(* The inductive invariant.  In every state, the state database holds the  *)
(* journals from its lower bound to its height, each with the root of its  *)
(* height, and the process knows the lower bound, unless there are none.   *)
(***************************************************************************)
State ==
    /\ sdb = [content |-> sdb.content, jnl |-> sdb.jnl, min |-> sdb.min, max |-> sdb.max]
    /\ sdb.content \in Seq(Block) /\ sdb.max = Len(sdb.content) /\ sdb.max <= MaxHeight
    /\ sdb.min \in 0..MaxHeight
    /\ IF sdb.max = 0 THEN sdb.min <= 1 ELSE 1 <= sdb.min /\ sdb.min <= sdb.max
    /\ DOMAIN sdb.jnl = {i \in 1..sdb.max : i >= sdb.min}
    /\ \A i \in DOMAIN sdb.jnl : sdb.jnl[i] = Prefix(sdb.content, i)

Loaded ==
    /\ mem \in [min : Nat, max : Nat, prev : Seq(Block), height : 0..MaxHeight, count : Nat]
    /\ cdb \in [height : 0..MaxHeight, count : Nat]
    /\ file \in Seq(Seq(Block))
    /\ done \subseteq {"state", "trim", "file", "chain"}
    /\ mode \in {"ready", "persist", "rollback", "recover", "truncate", "down", "halted"}
    /\ mem.min = sdb.min \/ (sdb.max = 0 /\ mem.min = 0)

\* The block file holds the roots of a history, as far as it goes.
Tells(root) == Len(file) <= Len(root) /\ \A i \in 1..Len(file) : file[i] = Prefix(root, i)

\* The journal of one block is there to go back to a height.
Back(height) == height = 0 \/ sdb.min <= height

(***************************************************************************)
(* What the stores tell, by what the node is doing.                        *)
(***************************************************************************)
Ready ==
    /\ Tells(sdb.content) /\ Len(file) = sdb.max /\ cdb.height = sdb.max /\ mem.height = sdb.max
    /\ mem.max = sdb.max /\ mem.prev = sdb.content
    /\ mem.count = InterchainTxCount(sdb.content) /\ cdb.count = mem.count

Persist ==
    LET h == mem.height
        chain == IF "chain" \in done THEN h + 1 ELSE h
    IN  /\ arg \in Seq(Block) /\ Len(arg) = h + 1 /\ h < MaxHeight /\ mem.prev = arg
        /\ Tells(arg) /\ Len(file) = IF "file" \in done THEN h + 1 ELSE h
        /\ sdb.content = Prefix(arg, IF "state" \in done THEN h + 1 ELSE h) /\ mem.max = sdb.max
        /\ "trim" \in done => "state" \in done
        /\ "state" \in done => Back(h)
        /\ cdb.height = chain /\ cdb.count = InterchainTxCount(Prefix(arg, chain))
        /\ mem.count = InterchainTxCount(Prefix(arg, h))

\* The chain may be one block behind the state, and can be reached.
Behind ==
    /\ Tells(sdb.content) /\ Len(file) = cdb.height
    /\ cdb.height <= sdb.max /\ sdb.max <= cdb.height + 1 /\ Back(cdb.height)
    /\ cdb.count = InterchainTxCount(Prefix(sdb.content, cdb.height))

Recover == Behind /\ arg = cdb.height /\ mem.height = cdb.height /\ mem.count = cdb.count

\* The last root of the block file, while the state is undone, and then the file.
Undoing ==
    /\ arg \in 1..Len(file) /\ Len(file) <= MaxHeight
    /\ Len(file[Len(file)]) = Len(file) /\ Tells(file[Len(file)])
    /\ sdb.max <= Len(file) /\ sdb.content = Prefix(file[Len(file)], sdb.max)
    /\ mem.count = InterchainTxCount(file[Len(file)])

LedgerInv ==
    /\ State /\ Loaded
    /\ mode = "ready" => Ready
    /\ mode = "persist" => Persist
    /\ mode = "down" => Behind
    /\ mode = "recover" => Recover
    /\ mode = "rollback" => Undoing /\ sdb.min <= arg /\ arg <= sdb.max
    /\ mode = "truncate" => Undoing /\ sdb.max = arg /\ mem.max = arg /\ mem.prev = sdb.content

-----------------------------------------------------------------------------
(* Prefixes of a history, and the interchain transactions in them.            *)

\* A prefix is a history of its length.
LEMMA PrefixFacts ==
    ASSUME NEW S, NEW s \in Seq(S), NEW n \in 0..Len(s)
    PROVE  /\ Prefix(s, n) \in Seq(S) /\ Len(Prefix(s, n)) = n
           /\ \A i \in 1..n : Prefix(s, n)[i] = s[i]
BY DEF Prefix

\* The whole of it.
LEMMA PrefixWhole ==
    ASSUME NEW S, NEW s \in Seq(S)
    PROVE  Prefix(s, Len(s)) = s
BY SubSeqFull DEF Prefix

\* A prefix of a prefix.
LEMMA PrefixTwice ==
    ASSUME NEW S, NEW s \in Seq(S), NEW n \in 0..Len(s), NEW m \in 0..n
    PROVE  Prefix(Prefix(s, n), m) = Prefix(s, m)
<1>1. Prefix(s, n) \in Seq(S) /\ Len(Prefix(s, n)) = n /\ \A i \in 1..n : Prefix(s, n)[i] = s[i]
    BY PrefixFacts
<1>2. /\ Prefix(Prefix(s, n), m) \in Seq(S) /\ Len(Prefix(Prefix(s, n), m)) = m
      /\ \A i \in 1..m : Prefix(Prefix(s, n), m)[i] = Prefix(s, n)[i]
    BY <1>1, PrefixFacts
<1>3. Prefix(s, m) \in Seq(S) /\ Len(Prefix(s, m)) = m /\ \A i \in 1..m : Prefix(s, m)[i] = s[i]
    BY PrefixFacts
<1>4. \A i \in 1..m : Prefix(Prefix(s, n), m)[i] = Prefix(s, m)[i]
    BY <1>1, <1>2, <1>3
<1> QED BY <1>2, <1>3, <1>4, SeqEqual

\* A longer history has the same prefixes.
LEMMA PrefixLonger ==
    ASSUME NEW S, NEW s \in Seq(S), NEW b \in S
    PROVE  /\ Append(s, b) \in Seq(S) /\ Len(Append(s, b)) = Len(s) + 1 /\ Append(s, b)[Len(s) + 1] = b
           /\ \A n \in 0..Len(s) : Prefix(Append(s, b), n) = Prefix(s, n)
<1>1. /\ Append(s, b) \in Seq(S) /\ Len(Append(s, b)) = Len(s) + 1 /\ Append(s, b)[Len(s) + 1] = b
      /\ \A i \in 1..Len(s) : Append(s, b)[i] = s[i]
    BY AppendProperties
<1>2. ASSUME NEW n \in 0..Len(s) PROVE Prefix(Append(s, b), n) = Prefix(s, n)
    <2>1. n \in 0..Len(Append(s, b))
        BY <1>1
    <2>2. /\ Prefix(Append(s, b), n) \in Seq(S) /\ Len(Prefix(Append(s, b), n)) = n
          /\ \A i \in 1..n : Prefix(Append(s, b), n)[i] = Append(s, b)[i]
        BY ZenonT(30), <1>1, <2>1, PrefixFacts
    <2>3. Prefix(s, n) \in Seq(S) /\ Len(Prefix(s, n)) = n /\ \A i \in 1..n : Prefix(s, n)[i] = s[i]
        BY PrefixFacts
    <2>4. \A i \in 1..n : Prefix(Append(s, b), n)[i] = Prefix(s, n)[i]
        BY <1>1, <2>2, <2>3
    <2> QED BY <2>2, <2>3, <2>4, SeqEqual
<1> QED BY <1>1, <1>2

\* One block more of the same history.
LEMMA PrefixNext ==
    ASSUME NEW S, NEW s \in Seq(S), NEW n \in 0..(Len(s) - 1)
    PROVE  Prefix(s, n + 1) = Append(Prefix(s, n), s[n + 1])
<1>0. n \in 0..Len(s) /\ n + 1 \in 0..Len(s)
    BY LenProperties
<1>1. Prefix(s, n) \in Seq(S) /\ Len(Prefix(s, n)) = n /\ \A i \in 1..n : Prefix(s, n)[i] = s[i]
    BY <1>0, PrefixFacts
<1>2. /\ Prefix(s, n + 1) \in Seq(S) /\ Len(Prefix(s, n + 1)) = n + 1
      /\ \A i \in 1..(n + 1) : Prefix(s, n + 1)[i] = s[i]
    BY <1>0, PrefixFacts
<1>3. s[n + 1] \in S
    <2>1. Len(s) \in Nat /\ s \in [1..Len(s) -> S]
        BY LenProperties
    <2> QED BY <2>1
<1>4. /\ Append(Prefix(s, n), s[n + 1]) \in Seq(S) /\ Len(Append(Prefix(s, n), s[n + 1])) = n + 1
      /\ \A i \in 1..n : Append(Prefix(s, n), s[n + 1])[i] = Prefix(s, n)[i]
      /\ Append(Prefix(s, n), s[n + 1])[n + 1] = s[n + 1]
    BY <1>1, <1>3, AppendProperties
<1>5. \A i \in 1..(n + 1) : Prefix(s, n + 1)[i] = Append(Prefix(s, n), s[n + 1])[i]
    BY <1>1, <1>2, <1>4
<1> QED BY <1>2, <1>4, <1>5, SeqEqual

\* The count is a number, and a block adds what it holds to it.
LEMMA CountFacts ==
    ASSUME NEW s \in Seq(Block), NEW b \in Block
    PROVE  /\ InterchainTxCount(s) \in Nat /\ InterchainTxCount(<<>>) = 0
           /\ InterchainTxCount(Append(s, b)) = InterchainTxCount(s) + IF b \in Busy THEN 1 ELSE 0
<1> DEFINE Held(t) == {i \in DOMAIN t : t[i] \in Busy}
<1>1. DOMAIN s = 1..Len(s) /\ Len(s) \in Nat
    BY LenProperties
<1>2. IsFiniteSet(Held(s))
    <2>1. IsFiniteSet(1..Len(s))
        BY <1>1, FS_Interval
    <2> QED BY <1>1, <2>1, FS_Subset
<1>3. Held(<<>>) = {} /\ Cardinality({}) = 0
    BY FS_EmptySet
<1>4. Held(Append(s, b)) = Held(s) \cup IF b \in Busy THEN {Len(s) + 1} ELSE {}
    <2>1. /\ Append(s, b) \in Seq(Block) /\ Len(Append(s, b)) = Len(s) + 1
          /\ \A i \in 1..Len(s) : Append(s, b)[i] = s[i]
          /\ Append(s, b)[Len(s) + 1] = b
        BY AppendProperties
    <2>2. DOMAIN Append(s, b) = 1..Len(s) \cup {Len(s) + 1}
        BY <1>1, <2>1
    <2> QED BY <1>1, <2>1, <2>2
<1>5. Len(s) + 1 \notin Held(s)
    BY <1>1
<1>6. Cardinality(Held(Append(s, b))) = Cardinality(Held(s)) + IF b \in Busy THEN 1 ELSE 0
    <2> HIDE DEF Held
    <2>1. Cardinality(Held(s)) \in Nat
        BY <1>2, FS_CardinalityType
    <2>2. CASE b \in Busy
        BY ZenonT(30), <1>2, <1>4, <1>5, <2>2, FS_AddElement
    <2>3. CASE b \notin Busy
        <3>1. Held(Append(s, b)) = Held(s)
            BY <1>4, <2>3
        <3> QED BY <2>1, <2>3, <3>1
    <2> QED BY <2>2, <2>3
<1>7. Cardinality(Held(s)) \in Nat
    BY <1>2, FS_CardinalityType
<1> QED BY ZenonT(30), <1>3, <1>6, <1>7 DEF InterchainTxCount

-----------------------------------------------------------------------------
(* Persisting a block.                                                        *)

\* What the bounds of the journals are.
LEMMA StateFacts ==
    ASSUME State, Loaded
    PROVE  /\ sdb.max \in 0..MaxHeight /\ sdb.min \in Nat /\ MaxHeight \in Nat
           /\ sdb.max # 0 => 1 <= sdb.min /\ sdb.min <= sdb.max /\ mem.min = sdb.min
           /\ sdb.max = 0 => sdb.min <= 1 /\ (mem.min = sdb.min \/ mem.min = 0)
           /\ mem.min = 0 => sdb.max = 0
           /\ Prefix(sdb.content, sdb.max) = sdb.content
<1>1. sdb.max \in 0..MaxHeight /\ sdb.min \in Nat /\ MaxHeight \in Nat
    <2>1. Len(sdb.content) \in Nat
        BY LenProperties DEF State
    <2> QED BY <2>1, LedgerAssumption DEF State
<1>2. Prefix(sdb.content, sdb.max) = sdb.content
    BY PrefixWhole DEF State
<1> QED BY <1>1, <1>2 DEF State, Loaded

\* FlushDirtyData.
LEMMA FlushStep ==
    ASSUME LedgerInv, NEW b \in Block, FlushDirtyData(b)
    PROVE  LedgerInv'
<1>1. /\ mode = "ready" /\ mem.height < MaxHeight /\ arg' = Append(mem.prev, b)
      /\ mem' = [mem EXCEPT !.prev = arg'] /\ mode' = "persist" /\ done' = {}
      /\ UNCHANGED <<sdb, file, cdb>>
    BY DEF FlushDirtyData
<1>2. State /\ Loaded /\ Ready
    BY <1>1 DEF LedgerInv
<1>3. sdb.content \in Seq(Block) /\ Len(sdb.content) = sdb.max /\ arg' = Append(sdb.content, b)
    BY <1>1, <1>2 DEF State, Ready
<1>4. /\ arg' \in Seq(Block) /\ Len(arg') = sdb.max + 1
      /\ \A n \in 0..sdb.max : Prefix(arg', n) = Prefix(sdb.content, n)
    BY <1>3, PrefixLonger
<1>5. sdb.max \in Nat /\ Prefix(arg', sdb.max) = sdb.content
    BY <1>2, <1>4, StateFacts
<1>6. /\ mem' \in [min : Nat, max : Nat, prev : Seq(Block), height : 0..MaxHeight, count : Nat]
      /\ mem'.min = mem.min /\ mem'.max = mem.max /\ mem'.prev = arg'
      /\ mem'.height = mem.height /\ mem'.count = mem.count
    BY ZenonT(30), <1>1, <1>2, <1>4 DEF Loaded
<1>7. State'
    BY <1>1, <1>2 DEF State
<1>8. Loaded'
    BY <1>1, <1>2, <1>6 DEF Loaded
<1>9. Tells(arg)'
    BY <1>1, <1>2, <1>4, <1>5 DEF Tells, Ready
<1>10. Persist'
    <2>1. "chain" \notin done' /\ "file" \notin done' /\ "state" \notin done' /\ "trim" \notin done'
        BY <1>1
    <2> QED BY <1>1, <1>2, <1>4, <1>5, <1>6, <1>9, <2>1 DEF Persist, Ready
<1> QED BY <1>1, <1>7, <1>8, <1>10 DEF LedgerInv

\* The first batch of Commit: the journal of the block joins those there are.
LEMMA CommitStep ==
    ASSUME LedgerInv, Commit
    PROVE  LedgerInv'
<1> DEFINE h == mem.height
           min == IF mem.min = 0 THEN h + 1 ELSE sdb.min
           jnl == [i \in DOMAIN sdb.jnl \cup {h + 1} |-> IF i = h + 1 THEN arg ELSE sdb.jnl[i]]
<1>1. /\ mode = "persist" /\ "state" \notin done /\ mode' = "persist"
      /\ sdb' = [content |-> Append(sdb.content, arg[Len(arg)]), jnl |-> jnl, min |-> min, max |-> h + 1]
      /\ mem' = [mem EXCEPT !.min = IF mem.min = 0 THEN h + 1 ELSE mem.min, !.max = h + 1]
      /\ done' = done \cup {"state"}
      /\ UNCHANGED <<file, cdb, arg>>
    BY DEF Commit
<1>2. State /\ Loaded /\ Persist
    BY <1>1 DEF LedgerInv
<1>3. /\ arg \in Seq(Block) /\ Len(arg) = h + 1 /\ h \in Nat /\ h < MaxHeight
      /\ sdb.content = Prefix(arg, h)
    BY <1>1, <1>2 DEF Persist, Loaded
<1>4. sdb.max = h
    BY <1>2, <1>3, PrefixFacts DEF State
<1>5. sdb'.content = arg
    <2>1. Prefix(arg, h + 1) = Append(Prefix(arg, h), arg[h + 1])
        BY <1>3, PrefixNext
    <2>2. Prefix(arg, h + 1) = arg
        BY <1>3, PrefixWhole
    <2> QED BY <1>1, <1>3, <2>1, <2>2
<1>6. mem.min = 0 => h = 0
    BY <1>2, <1>4, StateFacts
<1>7. /\ min \in 1..(h + 1) /\ (h = 0 \/ min <= h) /\ (h # 0 => min = sdb.min)
      /\ (IF mem.min = 0 THEN h + 1 ELSE mem.min) = min
    BY <1>2, <1>3, <1>4, <1>6, StateFacts
<1>8. DOMAIN jnl = {i \in 1..(h + 1) : i >= min}
    <2>1. DOMAIN jnl = {i \in 1..h : i >= sdb.min} \cup {h + 1}
        BY <1>2, <1>4 DEF State
    <2> QED BY <1>3, <1>7, <2>1
<1>9. \A i \in DOMAIN jnl : jnl[i] = Prefix(arg, i)
    <2>1. Prefix(arg, h + 1) = arg
        BY <1>3, PrefixWhole
    <2>2. \A i \in DOMAIN sdb.jnl : i \in 1..h /\ sdb.jnl[i] = Prefix(Prefix(arg, h), i)
        BY <1>2, <1>3, <1>4 DEF State
    <2>3. \A i \in DOMAIN sdb.jnl : sdb.jnl[i] = Prefix(arg, i)
        BY <1>3, <2>2, PrefixTwice
    <2> QED BY <1>3, <2>1, <2>2, <2>3
<1> HIDE DEF min, jnl
<1>10. sdb'.jnl = jnl /\ sdb'.min = min /\ sdb'.max = h + 1
    BY <1>1
<1>11. /\ mem' \in [min : Nat, max : Nat, prev : Seq(Block), height : 0..MaxHeight, count : Nat]
       /\ mem'.min = min /\ mem'.max = h + 1 /\ mem'.prev = mem.prev
       /\ mem'.height = h /\ mem'.count = mem.count
    <2>1. mem' = [mem EXCEPT !.min = min, !.max = h + 1]
        BY ZenonT(30), <1>1, <1>7
    <2>2. min \in Nat /\ h + 1 \in Nat
        BY <1>3, <1>7
    <2> QED BY ZenonT(30), <1>2, <2>1, <2>2 DEF Loaded
<1>12. State'
    <2>1. sdb' = [content |-> sdb'.content, jnl |-> sdb'.jnl, min |-> sdb'.min, max |-> sdb'.max]
        BY <1>1
    <2> QED BY <1>3, <1>5, <1>7, <1>8, <1>9, <1>10, <2>1, LedgerAssumption DEF State
<1>13. Loaded'
    BY <1>1, <1>2, <1>10, <1>11 DEF Loaded
<1>14. Persist'
    <2>1. Prefix(arg, h + 1) = arg
        BY <1>3, PrefixWhole
    <2>2. "state" \in done' /\ ("chain" \in done' <=> "chain" \in done) /\ ("file" \in done' <=> "file" \in done)
        BY <1>1
    <2>3. Back(h)'
        BY <1>7, <1>10, <1>11 DEF Back
    <2>4. Tells(arg)'
        BY <1>1, <1>2 DEF Tells, Persist
    <2> QED BY <1>1, <1>2, <1>5, <1>10, <1>11, <2>1, <2>2, <2>3, <2>4 DEF Persist
<1> QED BY <1>1, <1>12, <1>13, <1>14 DEF LedgerInv

\* The second batch: of the journals, those before the window go.
LEMMA TrimStep ==
    ASSUME LedgerInv, removeJournalsBeforeBlock
    PROVE  LedgerInv'
<1> DEFINE height == mem.max - Window
           jnl == Restrict(sdb.jnl, {i \in DOMAIN sdb.jnl : i >= height})
<1>1. /\ mode = "persist" /\ "state" \in done /\ mode' = "persist" /\ done' = done \cup {"trim"}
      /\ IF mem.max > Window /\ height > mem.min
         THEN sdb' = [sdb EXCEPT !.jnl = jnl, !.min = height] /\ mem' = [mem EXCEPT !.min = height]
         ELSE UNCHANGED <<sdb, mem>>
      /\ UNCHANGED <<file, cdb, arg>>
    BY DEF removeJournalsBeforeBlock
<1>2. State /\ Loaded /\ Persist
    BY <1>1 DEF LedgerInv
<1>3. /\ arg \in Seq(Block) /\ Len(arg) = mem.height + 1 /\ mem.height \in Nat /\ mem.height < MaxHeight
      /\ sdb.content = Prefix(arg, mem.height + 1) /\ mem.max = sdb.max
    BY <1>1, <1>2 DEF Persist, Loaded
<1>4. sdb.max = mem.height + 1
    BY <1>2, <1>3, PrefixFacts DEF State
<1>5. /\ "state" \in done' /\ done' \subseteq {"state", "trim", "file", "chain"}
      /\ ("chain" \in done' <=> "chain" \in done) /\ ("file" \in done' <=> "file" \in done)
    BY <1>1, <1>2 DEF Loaded
<1>6. CASE mem.max > Window /\ height > mem.min
    <2>1. height \in 2..mem.height /\ mem.min = sdb.min /\ sdb.min \in Nat
        BY <1>2, <1>3, <1>4, <1>6, LedgerAssumption, StateFacts
    <2>2. DOMAIN jnl = {i \in 1..sdb.max : i >= height} /\ \A i \in DOMAIN jnl : jnl[i] = sdb.jnl[i] /\ i \in DOMAIN sdb.jnl
        BY <1>2, <1>3, <1>4, <1>6, <2>1 DEF State, Restrict
    <2> HIDE DEF height, jnl
    <2>3. /\ sdb'.content = sdb.content /\ sdb'.jnl = jnl /\ sdb'.min = height /\ sdb'.max = sdb.max
          /\ sdb' = [content |-> sdb'.content, jnl |-> sdb'.jnl, min |-> sdb'.min, max |-> sdb'.max]
        <3>1. sdb = [content |-> sdb.content, jnl |-> sdb.jnl, min |-> sdb.min, max |-> sdb.max]
            BY <1>2 DEF State
        <3>2. sdb' = [sdb EXCEPT !.jnl = jnl, !.min = height]
            BY <1>1, <1>6
        <3>3. sdb' = [content |-> sdb.content, jnl |-> jnl, min |-> height, max |-> sdb.max]
            BY ZenonT(30), <3>1, <3>2
        <3> QED BY <3>3
    <2>4. /\ mem' \in [min : Nat, max : Nat, prev : Seq(Block), height : 0..MaxHeight, count : Nat]
          /\ mem'.min = height /\ mem'.max = mem.max /\ mem'.prev = mem.prev
          /\ mem'.height = mem.height /\ mem'.count = mem.count
        BY <1>1, <1>2, <1>6, <2>1 DEF Loaded
    <2>5. State'
        <3>1. \A i \in DOMAIN sdb'.jnl : sdb'.jnl[i] = Prefix(sdb'.content, i)
            BY <1>2, <2>2, <2>3 DEF State
        <3>2. DOMAIN sdb'.jnl = {i \in 1..sdb'.max : i >= sdb'.min}
            BY <2>2, <2>3
        <3>3. sdb'.max # 0 /\ 1 <= sdb'.min /\ sdb'.min <= sdb'.max /\ sdb'.min \in 0..MaxHeight
            BY <1>3, <1>4, <2>1, <2>3, LedgerAssumption
        <3>4. sdb'.content \in Seq(Block) /\ sdb'.max = Len(sdb'.content) /\ sdb'.max <= MaxHeight
            BY <1>2, <2>3 DEF State
        <3> QED BY <2>3, <3>1, <3>2, <3>3, <3>4 DEF State
    <2>6. Loaded'
        BY <1>1, <1>2, <1>5, <2>3, <2>4 DEF Loaded
    <2>7. Persist'
        <3>1. Back(mem.height)'
            BY <2>1, <2>3, <2>4 DEF Back
        <3>2. Tells(arg)'
            BY <1>1, <1>2 DEF Tells, Persist
        <3> QED BY <1>1, <1>2, <1>5, <2>3, <2>4, <3>1, <3>2 DEF Persist
    <2> QED BY <1>1, <2>5, <2>6, <2>7 DEF LedgerInv
<1>7. CASE ~(mem.max > Window /\ height > mem.min)
    <2>1. UNCHANGED <<sdb, mem>>
        BY <1>1, <1>7
    <2>2. State'
        BY <1>2, <2>1 DEF State
    <2>3. Loaded'
        BY <1>1, <1>2, <1>5, <2>1 DEF Loaded
    <2>4. Persist'
        BY <1>1, <1>2, <1>5, <2>1 DEF Persist, Tells, Back
    <2> QED BY <1>1, <2>2, <2>3, <2>4 DEF LedgerInv
<1> QED BY <1>6, <1>7

\* AppendBlock: the file accepts the block, since it holds those before it.
LEMMA FileStep ==
    ASSUME LedgerInv, AppendBlock
    PROVE  LedgerInv'
<1>1. mode = "persist" /\ "file" \notin done /\ UNCHANGED <<sdb, cdb, mem, arg>>
    BY DEF AppendBlock
<1>2. State /\ Loaded /\ Persist
    BY <1>1 DEF LedgerInv
<1>3. Len(file) = mem.height /\ arg \in Seq(Block) /\ Len(arg) = mem.height + 1 /\ mem.height \in Nat
    BY <1>1, <1>2 DEF Persist, Loaded
<1>4. file' = Append(file, arg) /\ done' = done \cup {"file"} /\ mode' = "persist"
    BY <1>1, <1>3 DEF AppendBlock
<1>5. /\ file' \in Seq(Seq(Block)) /\ Len(file') = mem.height + 1 /\ file'[mem.height + 1] = arg
      /\ \A i \in 1..mem.height : file'[i] = file[i]
    BY <1>2, <1>3, <1>4, AppendProperties DEF Loaded
<1>6. Tells(arg)'
    <2>1. Prefix(arg, mem.height + 1) = arg
        BY <1>3, PrefixWhole
    <2>2. \A i \in 1..mem.height : file[i] = Prefix(arg, i)
        BY <1>2, <1>3 DEF Persist, Tells
    <2>3. ASSUME NEW i \in 1..(mem.height + 1) PROVE file'[i] = Prefix(arg, i)
        <3>1. i \in 1..mem.height \/ i = mem.height + 1
            BY <1>3
        <3> QED BY <1>5, <2>1, <2>2, <3>1
    <2> QED BY <1>1, <1>3, <1>5, <2>3 DEF Tells
<1>7. /\ "file" \in done' /\ done' \subseteq {"state", "trim", "file", "chain"}
      /\ \A w \in {"state", "trim", "chain"} : w \in done' <=> w \in done
    BY <1>2, <1>4 DEF Loaded
<1>8. State'
    BY <1>1, <1>2 DEF State
<1>9. Loaded'
    BY <1>1, <1>2, <1>4, <1>5, <1>7 DEF Loaded
<1>10. Persist'
    BY <1>1, <1>2, <1>5, <1>6, <1>7 DEF Persist, Back
<1> QED BY <1>4, <1>8, <1>9, <1>10 DEF LedgerInv

\* persistChainMeta: the count of the block is added to that of the blocks before it.
LEMMA MetaStep ==
    ASSUME LedgerInv, persistChainMeta
    PROVE  LedgerInv'
<1>1. /\ mode = "persist" /\ mode' = "persist" /\ "chain" \notin done /\ done' = done \cup {"chain"}
      /\ cdb' = [height |-> mem.height + 1, count |-> mem.count + IF arg[Len(arg)] \in Busy THEN 1 ELSE 0]
      /\ UNCHANGED <<sdb, file, mem, arg>>
    BY DEF persistChainMeta
<1>2. State /\ Loaded /\ Persist
    BY <1>1 DEF LedgerInv
<1>3. /\ arg \in Seq(Block) /\ Len(arg) = mem.height + 1 /\ mem.height \in Nat /\ mem.height < MaxHeight
      /\ mem.count = InterchainTxCount(Prefix(arg, mem.height)) /\ mem.count \in Nat
    BY <1>2 DEF Persist, Loaded
<1>4. Prefix(arg, mem.height + 1) = Append(Prefix(arg, mem.height), arg[mem.height + 1])
    BY <1>3, PrefixNext
<1>5. Prefix(arg, mem.height) \in Seq(Block) /\ arg[mem.height + 1] \in Block
    <2>1. arg \in [1..Len(arg) -> Block]
        BY <1>3, LenProperties
    <2> QED BY <1>3, <2>1, PrefixFacts
<1>6. cdb'.height = mem.height + 1 /\ cdb'.count = InterchainTxCount(Prefix(arg, mem.height + 1))
    BY ZenonT(30), <1>1, <1>3, <1>4, <1>5, CountFacts
<1>7. cdb' \in [height : 0..MaxHeight, count : Nat]
    BY <1>1, <1>3, LedgerAssumption
<1>8. /\ "chain" \in done' /\ done' \subseteq {"state", "trim", "file", "chain"}
      /\ \A w \in {"state", "trim", "file"} : w \in done' <=> w \in done
    BY <1>1, <1>2 DEF Loaded
<1>9. State'
    BY <1>1, <1>2 DEF State
<1>10. Loaded'
    BY <1>1, <1>2, <1>7, <1>8 DEF Loaded
<1>11. Persist'
    BY <1>1, <1>2, <1>6, <1>8 DEF Persist, Back, Tells
<1> QED BY <1>1, <1>9, <1>10, <1>11 DEF LedgerInv

\* UpdateChainMeta: everything is written, and the node takes the next block.
LEMMA UpdateStep ==
    ASSUME LedgerInv, UpdateChainMeta
    PROVE  LedgerInv'
<1>1. /\ mode = "persist" /\ done = {"state", "trim", "file", "chain"} /\ mode' = "ready" /\ done' = {}
      /\ mem' = [mem EXCEPT !.height = cdb.height, !.count = cdb.count]
      /\ UNCHANGED <<sdb, file, cdb>>
    BY DEF UpdateChainMeta
<1>2. State /\ Loaded /\ Persist
    BY <1>1 DEF LedgerInv
<1>3. "state" \in done /\ "file" \in done /\ "chain" \in done
    BY <1>1
<1>4. /\ arg \in Seq(Block) /\ Len(arg) = mem.height + 1 /\ mem.prev = arg /\ Tells(arg)
      /\ Len(file) = mem.height + 1 /\ sdb.content = Prefix(arg, mem.height + 1) /\ mem.max = sdb.max
      /\ cdb.height = mem.height + 1 /\ cdb.count = InterchainTxCount(Prefix(arg, mem.height + 1))
    BY <1>2, <1>3 DEF Persist
<1>5. sdb.content = arg /\ sdb.max = mem.height + 1
    <2>1. Prefix(arg, Len(arg)) = arg
        BY <1>4, PrefixWhole
    <2> QED BY <1>2, <1>4, <2>1 DEF State
<1>6. /\ mem' \in [min : Nat, max : Nat, prev : Seq(Block), height : 0..MaxHeight, count : Nat]
      /\ mem'.min = mem.min /\ mem'.max = mem.max /\ mem'.prev = mem.prev
      /\ mem'.height = cdb.height /\ mem'.count = cdb.count
    BY ZenonT(30), <1>1, <1>2 DEF Loaded
<1>7. State'
    BY <1>1, <1>2 DEF State
<1>8. Loaded'
    BY <1>1, <1>2, <1>6 DEF Loaded
<1>9. Ready'
    BY <1>1, <1>4, <1>5, <1>6 DEF Ready, Tells
<1> QED BY <1>1, <1>7, <1>8, <1>9 DEF LedgerInv

-----------------------------------------------------------------------------
(* Going back.                                                                *)

\* A prefix of a history whose roots the file holds, if the file is not longer.
LEMMA TellsPrefix ==
    ASSUME NEW s \in Seq(Block), NEW n \in 0..Len(s), Tells(s), file \in Seq(Seq(Block)), Len(file) <= n
    PROVE  Tells(Prefix(s, n))
<1>1. Len(Prefix(s, n)) = n /\ Len(file) \in Nat /\ n \in Nat
    BY PrefixFacts, LenProperties
<1>2. ASSUME NEW i \in 1..Len(file) PROVE file[i] = Prefix(Prefix(s, n), i)
    <2>1. i \in 0..n
        BY <1>1
    <2> QED BY <2>1, PrefixTwice DEF Tells
<1> QED BY <1>1, <1>2 DEF Tells

\* The journal of the state's own height holds its root.
LEMMA OwnJournal ==
    ASSUME State, Loaded
    PROVE  getBlockJournal(sdb.max) = sdb.content
<1>1. CASE sdb.max = 0
    <2>1. sdb.content = <<>>
        BY ZenonT(30), <1>1, EmptySeq DEF State
    <2>2. sdb.max \notin DOMAIN sdb.jnl
        BY <1>1 DEF State
    <2> QED BY <2>1, <2>2 DEF getBlockJournal
<1>2. CASE sdb.max # 0
    <2>1. sdb.max \in DOMAIN sdb.jnl
        BY <1>2, StateFacts DEF State
    <2>2. sdb.jnl[sdb.max] = Prefix(sdb.content, sdb.max)
        BY <2>1 DEF State
    <2> QED BY <2>1, <2>2, StateFacts DEF getBlockJournal
<1> QED BY <1>1, <1>2

\* rollbackBlocks: a height that is accepted has a journal.
LEMMA RollbackStep ==
    ASSUME LedgerInv, NEW height \in 1..MaxHeight, rollbackBlocks(height)
    PROVE  LedgerInv'
<1>1. /\ mode = "ready" /\ height < mem.height /\ arg' = height
      /\ mode' = IF RollbackRefused(mem, height) = "no" THEN "rollback" ELSE "halted"
      /\ UNCHANGED <<sdb, file, cdb, mem, done>>
    BY DEF rollbackBlocks
<1>2. State /\ Loaded /\ Ready
    BY <1>1 DEF LedgerInv
<1>3. State'
    BY <1>1, <1>2 DEF State
<1>4. Loaded'
    BY <1>1, <1>2 DEF Loaded
<1>5. CASE RollbackRefused(mem, height) = "no"
    <2>1. sdb.max # 0 /\ mem.min = sdb.min /\ sdb.max \in 1..MaxHeight
        BY <1>1, <1>2, StateFacts DEF Ready
    <2>2. sdb.min <= height /\ height <= sdb.max
        BY <1>1, <1>2, <1>5, <2>1, StateFacts DEF RollbackRefused, Ready
    <2>3. file[Len(file)] = sdb.content
        <3>1. Len(file) \in 1..Len(file) /\ Len(file) = sdb.max
            BY <1>2, <2>1 DEF Ready
        <3> QED BY <1>2, <3>1, StateFacts DEF Ready, Tells
    <2>4. Undoing'
        <3>1. Tells(file[Len(file)])'
            BY <1>1, <1>2, <2>3 DEF Ready, Tells
        <3> QED BY <1>1, <1>2, <2>1, <2>2, <2>3, <3>1, StateFacts DEF Ready, Undoing, State
    <2> QED BY <1>1, <1>3, <1>4, <1>5, <2>2, <2>4 DEF LedgerInv
<1>6. CASE RollbackRefused(mem, height) # "no"
    BY <1>1, <1>3, <1>4, <1>6 DEF LedgerInv
<1> QED BY <1>5, <1>6

\* One height of RollbackState finds its journal and leaves those before it.
LEMMA RevertState ==
    ASSUME State, Loaded, revertJournal, arg \in Nat, sdb.max > arg,
           sdb.min <= arg \/ (arg = 0 /\ sdb.max = 1)
    PROVE  /\ State' /\ Loaded' /\ mode' = mode /\ UNCHANGED <<file, cdb, mem, arg>>
           /\ sdb'.content = Prefix(sdb.content, sdb.max - 1) /\ sdb'.max = sdb.max - 1 /\ sdb'.min = sdb.min
<1> DEFINE top == sdb.max
           jnl == Restrict(sdb.jnl, DOMAIN sdb.jnl \ {top})
<1>1. top \in 1..MaxHeight /\ 1 <= sdb.min /\ sdb.min <= top /\ sdb.min \in Nat /\ mem.min = sdb.min
    BY StateFacts
<1>2. top \in DOMAIN sdb.jnl
    BY <1>1 DEF State
<1>3. /\ sdb' = [sdb EXCEPT !.content = Prefix(sdb.content, Len(sdb.content) - 1), !.jnl = jnl, !.max = top - 1]
      /\ mode' = mode /\ UNCHANGED <<file, cdb, mem, done, arg>>
    BY <1>2 DEF revertJournal
<1>4. sdb' = [content |-> Prefix(sdb.content, top - 1), jnl |-> jnl, min |-> sdb.min, max |-> top - 1]
    <2>1. sdb = [content |-> sdb.content, jnl |-> sdb.jnl, min |-> sdb.min, max |-> sdb.max]
        BY DEF State
    <2>2. Len(sdb.content) = top
        BY DEF State
    <2> QED BY ZenonT(30), <1>3, <2>1, <2>2
<1>5. DOMAIN jnl = {i \in 1..(top - 1) : i >= sdb.min}
    <2>1. DOMAIN sdb.jnl = {i \in 1..top : i >= sdb.min}
        BY DEF State
    <2>2. DOMAIN jnl = DOMAIN sdb.jnl \ {top}
        BY DEF Restrict
    <2> QED BY <1>1, <2>1, <2>2
<1>6. sdb.content \in Seq(Block) /\ Len(sdb.content) = top /\ top - 1 \in 0..top
    BY <1>1 DEF State
<1>7. Prefix(sdb.content, top - 1) \in Seq(Block) /\ Len(Prefix(sdb.content, top - 1)) = top - 1
    BY <1>6, PrefixFacts
<1>8. \A i \in DOMAIN jnl : jnl[i] = Prefix(Prefix(sdb.content, top - 1), i)
    <2> TAKE i \in DOMAIN jnl
    <2>1. i \in DOMAIN sdb.jnl /\ jnl[i] = sdb.jnl[i]
        BY DEF Restrict
    <2>2. sdb.jnl[i] = Prefix(sdb.content, i)
        BY <2>1 DEF State
    <2>3. i \in 0..(top - 1)
        BY <1>5
    <2>4. Prefix(Prefix(sdb.content, top - 1), i) = Prefix(sdb.content, i)
        BY <1>6, <2>3, PrefixTwice
    <2> QED BY <2>1, <2>2, <2>4
<1>9. IF top - 1 = 0 THEN sdb.min <= 1 ELSE 1 <= sdb.min /\ sdb.min <= top - 1
    BY <1>1
<1> HIDE DEF jnl
<1>10. sdb'.content = Prefix(sdb.content, top - 1) /\ sdb'.jnl = jnl /\ sdb'.min = sdb.min /\ sdb'.max = top - 1
    BY <1>4
<1>11. State'
    <2>1. sdb' = [content |-> sdb'.content, jnl |-> sdb'.jnl, min |-> sdb'.min, max |-> sdb'.max]
        BY <1>4
    <2>2. sdb'.max <= MaxHeight /\ sdb'.min \in 0..MaxHeight
        BY <1>1, <1>10, LedgerAssumption
    <2>3. DOMAIN sdb'.jnl = {i \in 1..sdb'.max : i >= sdb'.min}
        BY <1>5, <1>10
    <2>4. \A i \in DOMAIN sdb'.jnl : sdb'.jnl[i] = Prefix(sdb'.content, i)
        BY <1>8, <1>10
    <2>5. IF sdb'.max = 0 THEN sdb'.min <= 1 ELSE 1 <= sdb'.min /\ sdb'.min <= sdb'.max
        BY <1>9, <1>10
    <2>6. sdb'.content \in Seq(Block) /\ sdb'.max = Len(sdb'.content)
        BY <1>7, <1>10
    <2> QED BY <2>1, <2>2, <2>3, <2>4, <2>5, <2>6 DEF State
<1>12. Loaded'
    BY <1>1, <1>3, <1>10 DEF Loaded
<1> QED BY <1>3, <1>10, <1>11, <1>12

\* revertJournal.
LEMMA RevertStep ==
    ASSUME LedgerInv, revertJournal
    PROVE  LedgerInv'
<1>0. State /\ Loaded /\ mode \in {"rollback", "recover"} /\ sdb.max > arg
    BY DEF LedgerInv, revertJournal
<1>1. sdb.content \in Seq(Block) /\ Len(sdb.content) = sdb.max /\ sdb.max \in Nat /\ file \in Seq(Seq(Block))
    BY <1>0, StateFacts DEF State, Loaded
<1>2. CASE mode = "recover"
    <2>1. Recover
        BY <1>2 DEF LedgerInv
    <2>2. arg \in Nat /\ arg = cdb.height /\ sdb.max = arg + 1 /\ (arg = 0 \/ sdb.min <= arg)
        BY <1>0, <1>1, <2>1 DEF Recover, Behind, Back, Loaded
    <2>3. /\ State' /\ Loaded' /\ mode' = mode /\ UNCHANGED <<file, cdb, mem, arg>>
          /\ sdb'.content = Prefix(sdb.content, arg) /\ sdb'.max = arg /\ sdb'.min = sdb.min
        <3>1. sdb.min <= arg \/ (arg = 0 /\ sdb.max = 1)
            BY <2>2
        <3>2. sdb.max - 1 = arg
            BY <2>2
        <3> QED BY <1>0, <2>2, <3>1, <3>2, RevertState
    <2>4. Tells(Prefix(sdb.content, arg))
        <3>1. arg \in 0..Len(sdb.content) /\ Tells(sdb.content) /\ Len(file) <= arg
            BY <1>1, <2>1, <2>2 DEF Recover, Behind
        <3> QED BY <1>1, <3>1, TellsPrefix
    <2>5. Prefix(Prefix(sdb.content, arg), arg) = Prefix(sdb.content, arg)
        <3>1. arg \in 0..Len(sdb.content) /\ arg \in 0..arg
            BY <1>1, <2>2
        <3> QED BY <1>1, <3>1, PrefixTwice
    <2>6. Behind'
        BY <2>1, <2>2, <2>3, <2>4, <2>5 DEF Recover, Behind, Back, Tells
    <2>7. Recover'
        BY <2>1, <2>3, <2>6 DEF Recover
    <2> QED BY <1>2, <2>3, <2>7 DEF LedgerInv
<1>3. CASE mode = "rollback"
    <2> DEFINE root == file[Len(file)]
    <2>1. Undoing /\ sdb.min <= arg /\ arg <= sdb.max
        BY <1>3 DEF LedgerInv
    <2>2. arg \in 1..Len(file) /\ Len(file) \in Nat
        BY <1>1, <2>1, LenProperties DEF Undoing
    <2>3. /\ State' /\ Loaded' /\ mode' = mode /\ UNCHANGED <<file, cdb, mem, arg>>
          /\ sdb'.content = Prefix(sdb.content, sdb.max - 1) /\ sdb'.max = sdb.max - 1 /\ sdb'.min = sdb.min
        BY <1>0, <2>1, <2>2, RevertState
    <2>4. /\ root \in Seq(Block) /\ Len(root) = Len(file)
          /\ sdb.max <= Len(root) /\ sdb.content = Prefix(root, sdb.max)
        <3>1. file \in [1..Len(file) -> Seq(Block)]
            BY <1>1, LenProperties
        <3> QED BY <2>1, <2>2, <3>1 DEF Undoing
    <2>5. Prefix(Prefix(root, sdb.max), sdb.max - 1) = Prefix(root, sdb.max - 1)
        <3> HIDE DEF root
        <3>1. sdb.max \in 0..Len(root) /\ sdb.max - 1 \in 0..sdb.max
            BY <1>0, <1>1, <2>2, <2>4
        <3> QED BY <2>4, <3>1, PrefixTwice
    <2>6. Undoing'
        <3>1. sdb'.content = Prefix(file[Len(file)], sdb'.max)
            BY <2>3, <2>4, <2>5
        <3>2. sdb'.max <= Len(file)
            BY <1>1, <2>2, <2>3, <2>4
        <3> QED BY <2>1, <2>3, <3>1, <3>2 DEF Undoing, Tells
    <2>7. sdb'.min <= arg' /\ arg' <= sdb'.max
        BY <1>0, <1>1, <2>1, <2>2, <2>3
    <2> QED BY <1>3, <2>3, <2>6, <2>7 DEF LedgerInv
<1> QED BY <1>0, <1>2, <1>3

\* The end of RollbackState: the previous journal is that of the height reached.
LEMMA RollbackStateStep ==
    ASSUME LedgerInv, RollbackState
    PROVE  LedgerInv'
<1>1. /\ mode \in {"rollback", "recover"} /\ sdb.max <= arg
      /\ mem' = [mem EXCEPT !.prev = getBlockJournal(arg), !.max = arg, !.min = IF arg = 0 THEN 0 ELSE mem.min]
      /\ mode' = IF mode = "recover" THEN "ready" ELSE "truncate"
      /\ UNCHANGED <<sdb, file, cdb, done, arg>>
    BY DEF RollbackState
<1>2. State /\ Loaded
    BY DEF LedgerInv
<1>3. mode = "recover" => Recover
    BY DEF LedgerInv
<1>4. mode = "rollback" => Undoing /\ arg <= sdb.max
    BY DEF LedgerInv
<1>5. sdb.max = arg /\ arg \in Nat
    BY <1>1, <1>2, <1>3, <1>4, StateFacts DEF Recover, Behind, Undoing, Loaded
<1>6. getBlockJournal(arg) = sdb.content /\ sdb.content \in Seq(Block) /\ Prefix(sdb.content, sdb.max) = sdb.content
    BY <1>2, <1>5, OwnJournal, StateFacts DEF State
<1>7. /\ mem' \in [min : Nat, max : Nat, prev : Seq(Block), height : 0..MaxHeight, count : Nat]
      /\ mem'.min = IF arg = 0 THEN 0 ELSE mem.min
      /\ mem'.max = arg /\ mem'.prev = sdb.content /\ mem'.height = mem.height /\ mem'.count = mem.count
    BY ZenonT(30), <1>1, <1>2, <1>5, <1>6 DEF Loaded
<1>8. State'
    BY <1>1, <1>2 DEF State
<1>9. Loaded'
    BY <1>1, <1>2, <1>5, <1>7 DEF Loaded
<1>10. CASE mode = "recover"
    <2>1. Ready'
        BY <1>1, <1>3, <1>5, <1>6, <1>7, <1>10 DEF Ready, Recover, Behind, Tells
    <2> QED BY <1>1, <1>8, <1>9, <1>10, <2>1 DEF LedgerInv
<1>11. CASE mode = "rollback"
    <2>1. Undoing'
        BY <1>1, <1>4, <1>7, <1>11 DEF Undoing, Tells
    <2> QED BY <1>1, <1>5, <1>7, <1>8, <1>9, <1>11, <2>1 DEF LedgerInv
<1> QED BY <1>1, <1>10, <1>11

\* removeChainDataOnBlock: the file loses its last block, the count what the block held.
LEMMA RemoveStep ==
    ASSUME LedgerInv, removeChainDataOnBlock
    PROVE  LedgerInv'
<1> DEFINE n == Len(file)
           root == file[n]
<1>1. /\ mode = "truncate" /\ mode' = "truncate" /\ n > arg /\ file' = Prefix(file, n - 1)
      /\ mem' = [mem EXCEPT !.count = mem.count - IF root[n] \in Busy THEN 1 ELSE 0]
      /\ UNCHANGED <<sdb, cdb, done, arg>>
    BY DEF removeChainDataOnBlock
<1>2. State /\ Loaded /\ Undoing /\ sdb.max = arg /\ mem.max = arg /\ mem.prev = sdb.content
    BY <1>1 DEF LedgerInv
<1>3. file \in Seq(Seq(Block)) /\ n \in Nat /\ file \in [1..n -> Seq(Block)] /\ arg \in 1..(n - 1) /\ n <= MaxHeight
    <2>1. file \in Seq(Seq(Block))
        BY <1>2 DEF Loaded
    <2>2. n \in Nat /\ file \in [1..n -> Seq(Block)]
        BY <2>1, LenProperties
    <2> QED BY <1>1, <1>2, <2>1, <2>2 DEF Undoing
<1>4. root \in Seq(Block) /\ Len(root) = n /\ \A i \in 1..n : file[i] = Prefix(root, i)
    <2>1. n \in 1..n
        BY <1>3
    <2>2. root \in Seq(Block)
        BY <1>3, <2>1
    <2>3. Len(root) = n /\ \A i \in 1..n : file[i] = Prefix(root, i)
        BY <1>2 DEF Undoing, Tells
    <2> QED BY <2>2, <2>3
<1>5. file' \in Seq(Seq(Block)) /\ Len(file') = n - 1 /\ \A i \in 1..(n - 1) : file'[i] = file[i]
    <2>1. n - 1 \in 0..Len(file)
        BY <1>3
    <2> QED BY ZenonT(30), <1>1, <1>3, <2>1, PrefixFacts
<1> HIDE DEF n, root
<1>6. file'[Len(file')] = Prefix(root, n - 1)
    <2>1. n - 1 \in 1..(n - 1) /\ n - 1 \in 1..n
        BY <1>3
    <2> QED BY <1>4, <1>5, <2>1
<1>7. n - 1 \in 0..Len(root) /\ Prefix(root, n - 1) \in Seq(Block) /\ Len(Prefix(root, n - 1)) = n - 1
    <2>1. n - 1 \in 0..Len(root)
        BY <1>3, <1>4
    <2> QED BY <1>4, <2>1, PrefixFacts
<1>8. Tells(file[Len(file)])'
    <2>1. ASSUME NEW i \in 1..(n - 1) PROVE file'[i] = Prefix(Prefix(root, n - 1), i)
        <3>1. i \in 0..(n - 1) /\ i \in 1..n
            BY <1>3
        <3>2. Prefix(Prefix(root, n - 1), i) = Prefix(root, i)
            BY <1>4, <1>7, <3>1, PrefixTwice
        <3> QED BY <1>4, <1>5, <3>1, <3>2
    <2> QED BY <1>3, <1>5, <1>6, <1>7, <2>1 DEF Tells
<1>9. /\ mem.count - (IF root[n] \in Busy THEN 1 ELSE 0) = InterchainTxCount(Prefix(root, n - 1))
      /\ InterchainTxCount(Prefix(root, n - 1)) \in Nat
    <2>1. Prefix(root, (n - 1) + 1) = Append(Prefix(root, n - 1), root[(n - 1) + 1])
        <3>1. n - 1 \in 0..(Len(root) - 1)
            BY <1>3, <1>4
        <3> QED BY <1>4, <3>1, PrefixNext
    <2>2. (n - 1) + 1 = n /\ Prefix(root, n) = root
        BY <1>3, <1>4, PrefixWhole
    <2>3. root[n] \in Block
        <3>1. root \in [1..n -> Block] /\ n \in 1..n
            BY <1>3, <1>4, LenProperties
        <3> QED BY <3>1
    <2>4. root = Append(Prefix(root, n - 1), root[n])
        BY <2>1, <2>2
    <2>5. mem.count = InterchainTxCount(root)
        BY <1>2 DEF Undoing, root, n
    <2>6. /\ InterchainTxCount(Prefix(root, n - 1)) \in Nat
          /\ InterchainTxCount(Append(Prefix(root, n - 1), root[n]))
                = InterchainTxCount(Prefix(root, n - 1)) + IF root[n] \in Busy THEN 1 ELSE 0
        BY <1>7, <2>3, CountFacts
    <2>7. mem.count = InterchainTxCount(Prefix(root, n - 1)) + IF root[n] \in Busy THEN 1 ELSE 0
        BY ZenonT(30), <2>4, <2>5, <2>6
    <2> QED BY <2>6, <2>7
<1>10. /\ mem' \in [min : Nat, max : Nat, prev : Seq(Block), height : 0..MaxHeight, count : Nat]
       /\ mem'.min = mem.min /\ mem'.max = mem.max /\ mem'.prev = mem.prev
       /\ mem'.height = mem.height /\ mem'.count = InterchainTxCount(Prefix(root, n - 1))
    <2>1. mem' = [mem EXCEPT !.count = InterchainTxCount(Prefix(root, n - 1))]
        BY <1>1, <1>9
    <2> QED BY SMTT(30), <1>2, <1>9, <2>1 DEF Loaded
<1>11. State'
    BY <1>1, <1>2 DEF State
<1>12. Loaded'
    BY <1>1, <1>2, <1>5, <1>10 DEF Loaded
<1>13. Undoing'
    <2>1. sdb.content = Prefix(root, arg)
        BY <1>2 DEF Undoing, root, n
    <2>2. Prefix(Prefix(root, n - 1), arg) = Prefix(root, arg)
        <3>1. arg \in 0..(n - 1)
            BY <1>3
        <3> QED BY <1>4, <1>7, <3>1, PrefixTwice
    <2>3. sdb'.content = Prefix(file'[Len(file')], sdb'.max) /\ sdb'.max <= Len(file')
        BY <1>1, <1>2, <1>3, <1>5, <1>6, <2>1, <2>2
    <2>4. arg' \in 1..Len(file') /\ Len(file') <= MaxHeight
        BY <1>1, <1>3, <1>5, LedgerAssumption
    <2> QED BY <1>5, <1>6, <1>7, <1>8, <1>10, <2>3, <2>4 DEF Undoing
<1> QED BY <1>1, <1>2, <1>10, <1>11, <1>12, <1>13 DEF LedgerInv

\* The end of RollbackBlockChain.
LEMMA ChainStep ==
    ASSUME LedgerInv, RollbackBlockChain
    PROVE  LedgerInv'
<1>1. /\ mode = "truncate" /\ mode' = "ready" /\ Len(file) = arg /\ cdb' = [height |-> arg, count |-> mem.count]
      /\ mem' = [mem EXCEPT !.height = arg] /\ UNCHANGED <<sdb, file, done>>
    BY DEF RollbackBlockChain
<1>2. State /\ Loaded /\ Undoing /\ sdb.max = arg /\ mem.max = arg /\ mem.prev = sdb.content
    BY <1>1 DEF LedgerInv
<1>3. arg \in 0..MaxHeight
    BY <1>2, StateFacts
<1>4. file[Len(file)] = sdb.content
    <2>1. Len(file) \in 1..Len(file) /\ file \in [1..Len(file) -> Seq(Block)]
        BY <1>1, <1>2, LenProperties DEF Undoing, Loaded
    <2>2. file[Len(file)] \in Seq(Block) /\ Len(file[Len(file)]) = arg
        BY <1>1, <1>2, <2>1 DEF Undoing
    <2> QED BY <1>2, <2>2, PrefixWhole DEF Undoing
<1>5. /\ mem' \in [min : Nat, max : Nat, prev : Seq(Block), height : 0..MaxHeight, count : Nat]
      /\ mem'.min = mem.min /\ mem'.max = mem.max /\ mem'.prev = mem.prev
      /\ mem'.height = arg /\ mem'.count = mem.count
    BY ZenonT(30), <1>1, <1>2, <1>3 DEF Loaded
<1>6. State'
    BY <1>1, <1>2 DEF State
<1>7. Loaded'
    BY <1>1, <1>2, <1>3, <1>5 DEF Loaded
<1>8. Ready'
    BY <1>1, <1>2, <1>4, <1>5 DEF Ready, Undoing, Tells
<1> QED BY <1>1, <1>6, <1>7, <1>8 DEF LedgerInv

-----------------------------------------------------------------------------
(* Crash and start.                                                           *)

\* A crash at one of the points of SafePoint leaves the chain at the state's height or one
\* behind it, with the journal that leads back.
LEMMA CrashStep ==
    ASSUME LedgerInv, CrashPoints \subseteq SafePoint, Crash
    PROVE  LedgerInv'
<1>1. Point \in SafePoint /\ mode' = "down" /\ UNCHANGED <<sdb, file, cdb, mem, done, arg>>
    BY DEF Crash
<1>2. State /\ Loaded /\ file \in Seq(Seq(Block)) /\ Len(file) \in Nat
    <2>1. State /\ Loaded
        BY DEF LedgerInv
    <2>2. file \in Seq(Seq(Block))
        BY <2>1 DEF Loaded
    <2> QED BY <2>1, <2>2, LenProperties
<1>3. State'
    BY <1>1, <1>2 DEF State
<1>4. Loaded'
    BY <1>1, <1>2 DEF Loaded
<1>5. sdb.content \in Seq(Block) /\ Len(sdb.content) = sdb.max /\ sdb.max \in Nat
      /\ Prefix(sdb.content, sdb.max) = sdb.content
    BY <1>2, StateFacts DEF State
<1>6. mode \in {"ready", "recover", "persist"}
    BY ZenonT(30), <1>1, <1>2 DEF Point, SafePoint, Loaded
<1>7. CASE mode = "ready"
    <2>1. Ready
        BY <1>7 DEF LedgerInv
    <2>2. Behind
        BY <1>2, <1>5, <2>1, StateFacts DEF Ready, Behind, Back
    <2> QED BY <1>1, <1>3, <1>4, <2>2 DEF LedgerInv, Behind, Back, Tells
<1>8. CASE mode = "recover"
    <2>1. Behind
        BY <1>8 DEF LedgerInv, Recover
    <2> QED BY <1>1, <1>3, <1>4, <2>1 DEF LedgerInv, Behind, Back, Tells
<1>9. CASE mode = "persist"
    <2> DEFINE h == mem.height
               k == IF "chain" \in done THEN h + 1 ELSE h
               m == IF "state" \in done THEN h + 1 ELSE h
    <2>1. Persist
        BY <1>9 DEF LedgerInv
    <2>2. ("file" \in done <=> "chain" \in done) /\ ("chain" \in done => "state" \in done)
        <3>1. done \in SafePoint
            BY <1>1, <1>9 DEF Point
        <3> QED BY <3>1 DEF SafePoint
    <2>3. /\ arg \in Seq(Block) /\ Len(arg) = h + 1 /\ h \in Nat /\ Tells(arg) /\ Len(file) = k
          /\ sdb.content = Prefix(arg, m) /\ cdb.height = k /\ cdb.count = InterchainTxCount(Prefix(arg, k))
        BY <1>2, <2>1, <2>2 DEF Persist, Loaded
    <2>4. k \in 0..m /\ m \in 0..Len(arg) /\ m <= k + 1
        BY <2>2, <2>3
    <2>5. sdb.max = m
        <3> HIDE DEF m
        <3>1. Len(Prefix(arg, m)) = m
            BY <2>3, <2>4, PrefixFacts
        <3> QED BY <1>5, <2>3, <3>1
    <2>6. Tells(sdb.content)
        BY <1>2, <2>3, <2>4, TellsPrefix
    <2>7. Prefix(sdb.content, k) = Prefix(arg, k)
        BY <2>3, <2>4, PrefixTwice
    <2>8. Back(k)
        <3>1. CASE k = m
            BY <1>2, <2>5, <3>1, StateFacts DEF Back
        <3>2. CASE k # m
            <4>1. "state" \in done /\ k = h
                BY <2>2, <3>2
            <4> QED BY <2>1, <4>1 DEF Persist
        <3> QED BY <3>1, <3>2
    <2> HIDE DEF k, m
    <2>9. Behind
        BY <2>3, <2>4, <2>5, <2>6, <2>7, <2>8 DEF Behind
    <2> QED BY <1>1, <1>3, <1>4, <2>9 DEF LedgerInv, Behind, Back, Tells
<1> QED BY <1>6, <1>7, <1>8, <1>9

\* New: the ledgers load, and the state is where the chain is or goes back to it.
LEMMA NewStep ==
    ASSUME LedgerInv, New
    PROVE  LedgerInv'
<1> DEFINE loaded == NewChainLedgerImpl(NewSimpleLedger)
<1>1. /\ mode = "down" /\ mem' = loaded /\ arg' = cdb.height /\ done' = {}
      /\ mode' = IF \/ RollbackRefused(loaded, cdb.height) # "no"
                    \/ sdb.max # 0 /\ loaded.prev = <<>> THEN "stuck"
                 ELSE IF sdb.max = cdb.height THEN "ready" ELSE "recover"
      /\ UNCHANGED <<sdb, file, cdb>>
    BY DEF New
<1>2. State /\ Loaded /\ Behind
    BY <1>1 DEF LedgerInv
<1>3. /\ loaded = [min |-> sdb.min, max |-> sdb.max, prev |-> sdb.content,
                   height |-> cdb.height, count |-> cdb.count]
    <2>1. getBlockJournal(sdb.max) = sdb.content
        BY <1>2, OwnJournal
    <2> QED BY <2>1 DEF NewChainLedgerImpl, NewSimpleLedger
<1>4. /\ sdb.min \in Nat /\ sdb.max \in Nat /\ sdb.content \in Seq(Block) /\ cdb.height \in 0..MaxHeight
      /\ cdb.count \in Nat /\ Prefix(sdb.content, sdb.max) = sdb.content /\ Len(sdb.content) = sdb.max
    BY <1>2, StateFacts DEF State, Loaded
<1>5. sdb.max # 0 => sdb.content # <<>>
    BY <1>4, EmptySeq
<1>6. RollbackRefused(loaded, cdb.height) = "no"
    BY <1>2, <1>3, <1>4, StateFacts DEF RollbackRefused, Behind, Back
<1> HIDE DEF loaded
<1>7. mode' = IF sdb.max = cdb.height THEN "ready" ELSE "recover"
    BY <1>1, <1>3, <1>5, <1>6
<1>8. /\ mem' \in [min : Nat, max : Nat, prev : Seq(Block), height : 0..MaxHeight, count : Nat]
      /\ mem'.min = sdb.min /\ mem'.max = sdb.max /\ mem'.prev = sdb.content
      /\ mem'.height = cdb.height /\ mem'.count = cdb.count
    BY <1>1, <1>3, <1>4
<1>9. State'
    BY <1>1, <1>2 DEF State
<1>10. Loaded'
    BY <1>1, <1>2, <1>7, <1>8 DEF Loaded
<1>11. CASE sdb.max = cdb.height
    <2>1. Ready'
        BY <1>1, <1>2, <1>4, <1>8, <1>11 DEF Ready, Behind, Tells
    <2> QED BY <1>7, <1>9, <1>10, <1>11, <2>1 DEF LedgerInv
<1>12. CASE sdb.max # cdb.height
    <2>1. Recover'
        BY <1>1, <1>2, <1>8 DEF Recover, Behind, Back, Tells
    <2> QED BY <1>7, <1>9, <1>10, <1>12, <2>1 DEF LedgerInv
<1> QED BY <1>11, <1>12

-----------------------------------------------------------------------------
\* The invariant holds of an empty ledger, and of every state after.
THEOREM LedgerInvariant == CrashPoints \subseteq SafePoint => (Spec => []LedgerInv)
<1> SUFFICES ASSUME CrashPoints \subseteq SafePoint PROVE Spec => []LedgerInv
    OBVIOUS
<1>1. Init => LedgerInv
    <2> SUFFICES ASSUME Init PROVE LedgerInv
        OBVIOUS
    <2>1. /\ sdb = [content |-> <<>>, jnl |-> <<>>, min |-> 0, max |-> 0] /\ file = <<>>
          /\ cdb = [height |-> 0, count |-> 0] /\ mode = "ready" /\ done = {}
          /\ mem = [min |-> 0, max |-> 0, prev |-> <<>>, height |-> 0, count |-> 0]
        BY DEF Init
    <2>2. sdb.content = <<>> /\ sdb.jnl = <<>> /\ sdb.min = 0 /\ sdb.max = 0
        BY <2>1
    <2>3. DOMAIN sdb.jnl = {} /\ {i \in 1..0 : i >= 0} = {}
        BY <2>2
    <2>4. InterchainTxCount(<<>>) = 0
        <3>1. {i \in DOMAIN <<>> : <<>>[i] \in Busy} = {}
            OBVIOUS
        <3> QED BY <3>1, FS_EmptySet DEF InterchainTxCount
    <2>5. State
        BY <2>1, <2>2, <2>3, LedgerAssumption DEF State
    <2>6. Loaded
        BY <2>1, LedgerAssumption DEF Loaded
    <2>7. Ready
        BY <2>1, <2>2, <2>4 DEF Ready, Tells
    <2> QED BY <2>1, <2>5, <2>6, <2>7 DEF LedgerInv
<1>2. LedgerInv /\ [Next]_vars => LedgerInv'
    <2> SUFFICES ASSUME LedgerInv, [Next]_vars PROVE LedgerInv'
        OBVIOUS
    <2>1. CASE UNCHANGED vars
        <3>1. /\ sdb' = sdb /\ file' = file /\ cdb' = cdb /\ mem' = mem /\ mode' = mode
              /\ done' = done /\ arg' = arg
            BY <2>1 DEF vars
        <3>2. State' /\ Loaded' BY ZenonT(30), <3>1 DEF LedgerInv, State, Loaded
        <3>3. (Ready => Ready') /\ (Persist => Persist')
            BY ZenonT(30), <3>1 DEF Ready, Persist, Tells, Back
        <3>4. (Behind => Behind') /\ (Recover => Recover') /\ (Undoing => Undoing')
            BY ZenonT(30), <3>1 DEF Behind, Recover, Undoing, Tells, Back
        <3> QED BY ZenonT(30), <3>1, <3>2, <3>3, <3>4 DEF LedgerInv
    <2>2. CASE Next
        BY <2>2, FlushStep, CommitStep, TrimStep, FileStep, MetaStep, UpdateStep, RollbackStep, RevertStep,
           RollbackStateStep, RemoveStep, ChainStep, CrashStep, NewStep DEF Next
    <2> QED BY <2>1, <2>2
<1> QED BY <1>1, <1>2, PTL DEF Spec

\* What the stores and the process hold is well formed; in particular a rollback never takes
\* the unsigned count of interchain transactions below zero (RollbackBlockChain).
THEOREM LedgerTypeCorrect == CrashPoints \subseteq SafePoint => (Spec => []TypeOK)
<1> SUFFICES ASSUME CrashPoints \subseteq SafePoint PROVE Spec => []TypeOK
    OBVIOUS
<1>1. LedgerInv => TypeOK
    <2> SUFFICES ASSUME LedgerInv PROVE TypeOK
        OBVIOUS
    <2>1. State /\ Loaded
        BY DEF LedgerInv
    <2>2. sdb.max \in 0..MaxHeight
        BY <2>1, StateFacts
    <2> QED BY <2>1, <2>2 DEF State, Loaded, TypeOK
<1> QED BY <1>1, LedgerInvariant, PTL

\* Whenever the node takes a block, the state database, the block file and the chain
\* database tell the same history, after any number of crashes between the writes of
\* PersistBlockData that SafePoint allows, of recoveries (New) and of rollbacks.
THEOREM LedgerStoresAgree == CrashPoints \subseteq SafePoint => (Spec => []StoresAgree)
<1> SUFFICES ASSUME CrashPoints \subseteq SafePoint PROVE Spec => []StoresAgree
    OBVIOUS
<1>1. LedgerInv => StoresAgree
    <2> SUFFICES ASSUME LedgerInv, mode = "ready" PROVE StoresAgree
        BY DEF StoresAgree
    <2>1. State /\ Loaded /\ Ready
        BY DEF LedgerInv
    <2>2. file = [i \in 1..mem.height |-> Prefix(sdb.content, i)]
        <3>1. file \in [1..Len(file) -> Seq(Block)]
            BY <2>1, LenProperties DEF Loaded
        <3>2. Len(file) = mem.height /\ \A i \in 1..Len(file) : file[i] = Prefix(sdb.content, i)
            BY <2>1 DEF Ready, Tells
        <3> QED BY <3>1, <3>2
    <2> QED BY <2>1, <2>2 DEF State, Ready, StoresAgree
<1> QED BY <1>1, LedgerInvariant, PTL

\* Every height that RollbackState accepts can be reached: the journals are there
\* (Commit, removeJournalsBeforeBlock, revertJournal).
THEOREM LedgerJournalsComplete == CrashPoints \subseteq SafePoint => (Spec => []JournalsComplete)
<1> SUFFICES ASSUME CrashPoints \subseteq SafePoint PROVE Spec => []JournalsComplete
    OBVIOUS
<1>1. LedgerInv => JournalsComplete
    <2> SUFFICES ASSUME LedgerInv, mode = "ready", sdb.max > 0 PROVE JournalsComplete
        BY DEF JournalsComplete
    <2>1. State /\ Loaded
        BY DEF LedgerInv
    <2>2. mem.min = sdb.min /\ 1 <= sdb.min /\ sdb.min \in Nat /\ sdb.max \in Nat
        BY <2>1, StateFacts
    <2>3. DOMAIN sdb.jnl = {i \in 1..sdb.max : i >= sdb.min}
        BY <2>1 DEF State
    <2>4. DOMAIN sdb.jnl = sdb.min..sdb.max
        BY <2>2, <2>3
    <2>5. \A i \in DOMAIN sdb.jnl : sdb.jnl[i] = Prefix(sdb.content, i)
        BY <2>1 DEF State
    <2> QED BY <2>2, <2>4, <2>5 DEF JournalsComplete
<1> QED BY <1>1, LedgerInvariant, PTL

\* The node always starts again and appends the next block, if it crashes at these points
\* only; that it does not at others is what the violated run shows.
THEOREM LedgerRecoverable == CrashPoints \subseteq SafePoint => (Spec => []Recoverable)
<1> SUFFICES ASSUME CrashPoints \subseteq SafePoint PROVE Spec => []Recoverable
    OBVIOUS
<1>1. LedgerInv => Recoverable
    BY DEF LedgerInv, Loaded, Recoverable
<1> QED BY <1>1, LedgerInvariant, PTL
=============================================================================
