----------------------------- MODULE StateSyncer -----------------------------
(***************************************************************************)
(* Block synchronization (pkg/order/syncer) between an ordering node that  *)
(* fell behind and the peers that answer it (pkg/peermgr/handle.go).       *)
(* "cft": SyncCFTBlocks under recoverFromSnapshot of the raft node.        *)
(* "bft": SyncBFTBlocks, headers of a quorum first, then the blocks.       *)
(* A block's hash is the chain that leads to it, so a peer's ledger is a   *)
(* sequence of block contents and a hash is a prefix of it.                *)
(***************************************************************************)
EXTENDS Naturals, Sequences, FiniteSets, SequencesExt

CONSTANTS PeerIds,      \* peerIds, in the order they are asked
          Quorum,
          BlockFetch,   \* blockFetch
          Mode,         \* "cft" or "bft"
          Target,       \* height to reach
          Reliable,     \* peers that always answer and hold the target
          Forked        \* peers whose ledger is not the quorum's

Peer == ToSet(PeerIds)
QuorumAssumption == Quorum \in 1..Cardinality(Peer) /\ Quorum > Cardinality(Forked)

Main == [h \in 1..Target |-> h]
Fork == [h \in 1..Target |-> IF h = 1 THEN 1 ELSE Target + h]
Hash(chain, h) == SubSeq(chain, 1, h)
Parent(hash) == Front(hash)

VARIABLES
    chains,     \* peer -> its ledger
    bad,        \* badPeers
    wrong,      \* history: peers that returned a bad block or header
    from,       \* the begin height of the call
    ranges,     \* the ranges still to fetch
    pc,         \* what the call does next
    ask,        \* bft: position in peerIds
    votes,      \* bft: latestBlockHeaderCounter
    parent,     \* bft: parentBlockHash
    latest,     \* bft: hash of the latest quorum header
    ch,         \* blockCh
    ledger,     \* executed height
    exec        \* the blocks passed to the executor, lastExec of them
vars == <<chains, bad, wrong, from, ranges, pc, ask, votes, parent, latest, ch, ledger, exec>>

Fail == <<>>
Nil == <<>>
lastExec == Len(exec)

-----------------------------------------------------------------------------
\* calcRangeHeight: ranges end at multiples of blockFetch.
OverlappingRanges[b \in Nat, e \in Nat] ==   \* mutant: the next range begins at the end of the last
    IF b >= e THEN <<[begin |-> b, end |-> e]>>
    ELSE LET stop == (b \div BlockFetch + 1) * BlockFetch IN
         <<[begin |-> b, end |-> IF stop > e THEN e ELSE stop]>> \o
         (IF stop >= e THEN <<>> ELSE OverlappingRanges[stop, e])
rangesFrom[n \in Nat, b \in Nat, e \in Nat] ==
    IF b > e THEN <<>>
    ELSE LET stop == IF (n + 1) * BlockFetch > e THEN e ELSE (n + 1) * BlockFetch
         IN <<[begin |-> b, end |-> stop]>> \o rangesFrom[n + 1, stop + 1, e]
Overlapping(b, e) == OverlappingRanges[b, e]
calcRangeHeight(b, e) == rangesFrom[b \div BlockFetch, b, e]

\* handleGetBlocksPack and handleGetBlockHeadersPack: all of the range, or no answer.
handleGetBlocksPack(p, r) ==
    IF r.end > Len(chains[p]) THEN Fail
    ELSE [i \in 1..(r.end - r.begin + 1) |-> Hash(chains[p], r.begin + i - 1)]
handleGetBlockHeadersPack(p, r) == handleGetBlocksPack(p, r)

\* fetchBlocks and fetchBlockHeaders: Send may fail.
fetchBlocks(p, r) ==
    {handleGetBlocksPack(p, r)} \cup (IF p \in Reliable THEN {} ELSE {Fail})
fetchBlockHeaders(p, r) ==
    {handleGetBlockHeadersPack(p, r)} \cup (IF p \in Reliable THEN {} ELSE {Fail})

verifyBlockHeaders(parentHash, headers) ==
    /\ headers # <<>>
    /\ \A i \in DOMAIN headers :
          Parent(headers[i]) = IF i = 1 THEN parentHash ELSE headers[i - 1]
verifyBlock(header, block) == header = block

\* randPeers: the peers one of which is drawn.
randPeers == Peer \ bad

-----------------------------------------------------------------------------
\* A peer's ledger: any prefix of its chain, grown while it executes.
Init ==
    /\ chains \in [Peer -> {SubSeq(Main, 1, n) : n \in 0..Target} \cup {Fork}]
    /\ \A p \in Peer : (p \in Forked) <=> chains[p] = Fork
    /\ \A p \in Reliable : Len(chains[p]) = Target
    /\ \E n \in 1..Target, k \in 1..Target :
          /\ k <= n /\ k < Target /\ (Mode = "bft" => n = k)
          /\ ledger = k
          /\ exec = SubSeq(Main, 1, n)
          /\ from = k + 1
    /\ ranges = <<>>
    /\ parent = Hash(Main, ledger)
    /\ bad = {} /\ wrong = {}
    /\ pc = "begin"
    /\ ask = 1 /\ votes = [x \in {} |-> 0] /\ latest = <<>> /\ ch = <<>>

Grow(p) ==
    /\ p \notin Forked /\ Len(chains[p]) < Target
    /\ chains' = [chains EXCEPT ![p] = Hash(Main, Len(@) + 1)]
    /\ UNCHANGED <<bad, wrong, from, ranges, pc, ask, votes, parent, latest, ch, ledger, exec>>

\* The first statement of both calls.
Begin ==
    /\ pc = "begin"
    /\ ranges' = calcRangeHeight(from, Target)
    /\ pc' = IF Mode = "cft" THEN "fetch" ELSE "headers"
    /\ UNCHANGED <<chains, bad, wrong, from, ask, votes, parent, latest, ch, ledger, exec>>

\* SyncCFTBlocks: one attempt of the retry loop, and the end of the call.
SyncCFTBlocks ==
    /\ pc = "fetch"
    /\ \/ /\ ranges = <<>>
          /\ ch' = Append(ch, Nil) /\ pc' = "sent"
          /\ UNCHANGED <<bad, ranges>>
       \/ /\ ranges # <<>>
          /\ \E p \in randPeers : \E got \in fetchBlocks(p, Head(ranges)) :
                IF got = Fail THEN bad' = bad \cup {p} /\ UNCHANGED <<ranges, ch>>
                ELSE ch' = ch \o got /\ ranges' = Tail(ranges) /\ UNCHANGED bad
          /\ UNCHANGED pc
    /\ UNCHANGED <<chains, wrong, from, ask, votes, parent, latest, ledger, exec>>

Expected(b) == b # Nil /\ Len(b) = lastExec + 1
recoverFromSnapshot ==
    /\ Mode = "cft" /\ ch # <<>>
    /\ ch' = Tail(ch)
    /\ exec' = IF Expected(Head(ch)) THEN Append(exec, Last(Head(ch))) ELSE exec
    /\ IF Head(ch) = Nil
       THEN IF lastExec = Target THEN pc' = "done" /\ UNCHANGED from
            ELSE from' = ledger + 1 /\ pc' = "begin"
       ELSE UNCHANGED <<pc, from>>
    /\ UNCHANGED <<chains, ranges, bad, wrong, ask, votes, parent, latest, ledger>>

\* The executor behind commitC.
Execute ==
    /\ ledger < lastExec
    /\ ledger' = ledger + 1
    /\ UNCHANGED <<chains, bad, wrong, from, ranges, pc, ask, votes, parent, latest, ch, exec>>

-----------------------------------------------------------------------------
\* syncQuorumRangeBlockHeaders: one peer after the other until a quorum
\* reported the same latest header.
Voted(h) == [x \in DOMAIN votes \cup {h} |->
    (IF x \in DOMAIN votes THEN votes[x] ELSE 0) + (IF x = h THEN 1 ELSE 0)]
AtQuorum(v) == {h \in DOMAIN v : v[h] >= Quorum}
syncQuorumRangeBlockHeaders ==
    /\ pc = "headers" /\ ranges # <<>>
    /\ IF ask > Len(PeerIds)
       THEN pc' = "failed" /\ UNCHANGED <<bad, wrong, ask, votes, latest>>
       ELSE \E got \in fetchBlockHeaders(PeerIds[ask], Head(ranges)) :
            LET p == PeerIds[ask]
                ok == got # Fail /\ verifyBlockHeaders(parent, got)
                v == IF ok THEN Voted(Last(got)) ELSE votes IN
            /\ bad' = IF got # Fail /\ ~ok THEN bad \cup {p} ELSE bad
            /\ wrong' = IF got # Fail /\ ~ok THEN wrong \cup {p} ELSE wrong
            /\ votes' = v
            /\ IF AtQuorum(v) = {}
               THEN ask' = ask + 1 /\ UNCHANGED <<pc, latest>>
               ELSE /\ latest' = CHOOSE h \in AtQuorum(v) : TRUE
                    /\ pc' = "blocks" /\ ask' = 1
    /\ UNCHANGED <<chains, from, ranges, parent, ch, ledger, exec>>

\* syncRangeBlocks: the blocks of the first peer whose blocks all match.
syncRangeBlocks ==
    /\ pc = "blocks"
    /\ IF ask > Len(PeerIds)
       THEN pc' = "failed" /\ UNCHANGED <<bad, wrong, ask, votes, parent, ranges, ch>>
       ELSE \E got \in fetchBlocks(PeerIds[ask], Head(ranges)) :
            LET p == PeerIds[ask]
                header(i) == Hash(latest, Head(ranges).begin + i - 1)
                ok == \A i \in DOMAIN got : verifyBlock(header(i), got[i]) IN
            IF got = Fail \/ ~ok
            THEN /\ bad' = bad \cup {p}
                 /\ wrong' = IF got = Fail THEN wrong ELSE wrong \cup {p}
                 /\ ask' = ask + 1
                 /\ UNCHANGED <<pc, votes, parent, ranges, ch>>
            ELSE /\ ch' = ch \o got
                 /\ parent' = Last(got)
                 /\ ranges' = Tail(ranges)
                 /\ pc' = "headers" /\ ask' = 1 /\ votes' = [x \in {} |-> 0]
                 /\ UNCHANGED <<bad, wrong>>
    /\ UNCHANGED <<chains, from, latest, ledger, exec>>

\* SyncBFTBlocks: the end of the call.
SyncBFTBlocks ==
    /\ pc = "headers" /\ ranges = <<>>
    /\ ch' = Append(ch, Nil) /\ pc' = "done"
    /\ UNCHANGED <<chains, bad, wrong, from, ranges, ask, votes, parent, latest, ledger, exec>>

Sync == Begin \/ SyncCFTBlocks \/ syncQuorumRangeBlockHeaders \/ syncRangeBlocks \/ SyncBFTBlocks
Next == Sync \/ recoverFromSnapshot \/ Execute \/ \E p \in Peer : Grow(p)
\* The goroutine of the call and the reader of its channel both run on.
Spec == Init /\ [][Next]_vars /\ WF_vars(Sync) /\ WF_vars(recoverFromSnapshot)

-----------------------------------------------------------------------------
(* Properties. *)
\* Types of the state.
TypeOK ==
    /\ bad \subseteq Peer /\ wrong \subseteq Peer
    /\ from \in 1..Target /\ ledger \in 0..Target /\ ask \in 1..(Len(PeerIds) + 1)
    /\ pc \in {"begin", "fetch", "sent", "headers", "blocks", "done", "failed"}
    /\ lastExec <= Target

\* The ranges of a call cover its heights in order, each height once, whatever
\* multiple of blockFetch the call begins below (calcRangeHeight).
Heights(rs) == FlattenSeq([i \in DOMAIN rs |->
    [k \in 1..(rs[i].end - rs[i].begin + 1) |-> rs[i].begin + k - 1]])
RangesPartition ==
    pc # "begin" =>
    LET rs == calcRangeHeight(from, Target)
    IN Heights(rs) = [k \in 1..(Target - from + 1) |-> from + k - 1]

\* The blocks passed to the executor are the chain without gap or repetition,
\* although a call refetches what commitC still holds (recoverFromSnapshot).
ExecutedChain == exec = SubSeq(Main, 1, Len(exec))

\* The call has ended without an error and, with crash faults, the node has reached the
\* height of the snapshot.
Synced == pc = "done" /\ (Mode = "cft" => lastExec = Target)

\* Every block SyncBFTBlocks hands over is the quorum's, in order, although
\* peers on another branch answer too; all of them when it ends without error.
BlocksOfQuorum ==
    Mode = "bft" =>
       /\ \A i \in DOMAIN ch : ch[i] # Nil => ch[i] = Hash(Main, from + i - 1)
       /\ pc = "done" => Len(ch) = Target - from + 2
=============================================================================
