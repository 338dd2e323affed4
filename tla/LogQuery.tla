------------------------------- MODULE LogQuery -------------------------------
(* eth_getLogs and eth_getFilterLogs: a query goes through a range of blocks, *)
(* one after the other, while blocks are added.  A block whose bloom filter   *)
(* cannot contain what is asked for is skipped; of the others the logs are    *)
(* compared with the criteria.                                                *)
EXTENDS Integers, Sequences, SequencesExt

CONSTANTS
    Logs,        \* the logs that contracts emit: an address and topics
    BlockLogs,   \* the sequences of logs a block may have
    Criteria,    \* addresses and topics asked for
    Begins, Ends,   \* the block numbers asked for; -1 is the latest, -2 pending
    Bit,         \* the bit of the bloom filter of an address or topic
    MaxHeight    \* bound: blocks

VARIABLES
    chain,   \* per block its logs
    q        \* the query: what is asked, the head when it began, where it is

vars == <<chain, q>>

NoQuery == [state |-> "none"]

Init == chain = <<>> /\ q = NoQuery

AddBlock(b) ==
    /\ Len(chain) < MaxHeight
    /\ chain' = Append(chain, b)
    /\ UNCHANGED q

-----------------------------------------------------------------------------
(* Criteria.  An empty set of addresses or of topics at a position is a       *)
(* wildcard.                                                                  *)

Matches(log, c) ==
    /\ c.addresses # {} => log.address \in c.addresses
    /\ Len(c.topics) <= Len(log.topics)
    /\ \A i \in DOMAIN c.topics : c.topics[i] # {} => log.topics[i] \in c.topics[i]

FilterLogs(logs, c) == SelectSeq(logs, LAMBDA l : Matches(l, c))

\* The bloom filter of a block has the bits of every address and topic in it.
Bloom(logs) == {Bit[x] : x \in UNION {{l.address} \cup ToSet(l.topics) : l \in ToSet(logs)}}

BloomLookup(bloom, x) == Bit[x] \in bloom

EveryAddress(bloom, c) ==
    /\ \A a \in c.addresses : BloomLookup(bloom, a)
    /\ \A i \in DOMAIN c.topics : c.topics[i] # {} => \E t \in c.topics[i] : BloomLookup(bloom, t)

bloomFilter(bloom, c) ==
    /\ c.addresses # {} => \E a \in c.addresses : BloomLookup(bloom, a)
    /\ \A i \in DOMAIN c.topics : c.topics[i] # {} => \E t \in c.topics[i] : BloomLookup(bloom, t)

blockLogs(h, c) == IF bloomFilter(Bloom(chain[h]), c) THEN FilterLogs(chain[h], c) ELSE <<>>

-----------------------------------------------------------------------------
(* The range.                                                                 *)

\* GetBlockHeaders(n, n): none for 0, above the head, and for a negative number,
\* which becomes a large one.
HasHeader(n) == n \in 1..Len(chain)

\* GetLogs and Filter.Logs: the latest block is the head of that moment.  Queries
\* share nothing, so one is followed.
Ask(c, begin, end) ==
    /\ q.state = "none"
    /\ Len(chain) > 0
    /\ LET head == Len(chain)
       IN  q' = [state |-> "running", c |-> c, from |-> begin, to |-> end, head |-> head,
                 at |-> IF begin = -1 THEN head ELSE begin,
                 end |-> IF end = -1 THEN head ELSE end, logs |-> <<>>]
    /\ UNCHANGED chain

\* One turn of the loop; it ends the query at the first block it cannot get.
unindexedLogs ==
    /\ q.state = "running"
    /\ q' = IF q.at <= q.end /\ HasHeader(q.at)
            THEN [q EXCEPT !.logs = @ \o blockLogs(q.at, q.c), !.at = @ + 1]
            ELSE [q EXCEPT !.state = "answered"]
    /\ UNCHANGED chain

Next ==
    \/ \E b \in BlockLogs : AddBlock(b)
    \/ \E c \in Criteria, begin \in Begins, end \in Ends : Ask(c, begin, end)
    \/ unindexedLogs

Spec == Init /\ [][Next]_vars

-----------------------------------------------------------------------------
\* What the query must find in the blocks from..to, straight from the criteria.
Found(from, to) ==
    FoldLeft(LAMBDA r, h : r \o SelectSeq(chain[h], LAMBDA l :
                                 /\ q.c.addresses = {} \/ l.address \in q.c.addresses
                                 /\ \A i \in DOMAIN q.c.topics :
                                      i \in DOMAIN l.topics /\ (q.c.topics[i] = {} \/ l.topics[i] \in q.c.topics[i])),
             <<>>, [i \in 1..(to - from + 1) |-> from + i - 1])

Lowest == IF q.from = -1 THEN q.head ELSE q.from
Highest(limit) == IF q.to = -1 THEN q.head ELSE IF q.to < limit THEN q.to ELSE limit

TypeOK ==
    /\ chain \in Seq(BlockLogs) /\ Len(chain) <= MaxHeight
    /\ q.state \in {"none", "running", "answered"}
    /\ q.state # "none" => q.logs \in Seq(Logs) /\ q.head \in 1..Len(chain)

\* An answered query for a range of blocks has, in order, every log of the range
\* that fits the criteria and no other: all of those up to the head of the time
\* when it was asked and perhaps those of blocks added since, although most
\* blocks were looked at through their bloom filter only.
Exact ==
    q.state = "answered" /\ Lowest >= 1 =>
        \E limit \in q.head..Len(chain) : q.logs = Found(Lowest, Highest(limit))
=============================================================================
