------------------------------ MODULE MCNetwork -------------------------------
(***************************************************************************)
(* What a node exchanges with others, for TLC: the filters of the Ethereum *)
(* API; the synchronisation of blocks, from peers that may fail and from   *)
(* peers of which one is on another branch; the main pier of an appchain;  *)
(* the delivery of blocks to piers; and the rounds of threshold            *)
(* signatures.  A behaviour runs the part that its first state names and   *)
(* leaves the variables of the others as they begin.                       *)
(***************************************************************************)
EXTENDS EventFilters, TLC

CONSTANTS Parts,                   \* the parts that are run
          p1, p2, c1,              \* filters, the last of a connection
          v1, v2, v3, v4,          \* nodes
          m1, m2, m3,              \* piers
          a, b, a1, a2,            \* appchains and the streams of their piers
          Remote, NoFeed, NoStream,
          r1, r2, NoOne            \* requests for signatures

VARIABLES part,
          chains, bad, wrong, from, ranges, pc, ask, votes, parent, latest, blockCh, ledger, exec,
          clock, calls, status, chanMap, buf, stuck, closed, rpc, asks, stale, replies, held,
          panicked,
          height, subscribed, sending, waiting, reported, tasks, count, piers, subs, feed,
          stream, since, ch, read,
          req, round, answers, produced

syncVars == <<chains, bad, wrong, from, ranges, pc, ask, votes, parent, latest, blockCh,
              ledger, exec>>
pierVars == <<clock, calls, status, chanMap, buf, stuck, closed, rpc, asks, stale, replies,
              held, panicked>>
streamVars == <<height, subscribed, sending, waiting, reported, tasks, count, piers, subs,
                feed, stream, since, ch, read>>
tssVars == <<req, round, answers, produced>>

-----------------------------------------------------------------------------
\* A log filter, and a filter of mined and pending logs.
Wanted == [f \in Filters |-> IF f = p2 THEN "mined" ELSE "logs"]

\* Peers that may fail; and four of which one is on another branch.
Cft == INSTANCE StateSyncer WITH
  ch <- blockCh, PeerIds <- <<v1, v2, v3>>, Quorum <- 2, BlockFetch <- 2, Mode <- "cft",
  Target <- 5, Reliable <- {}, Forked <- {}
Bft == INSTANCE StateSyncer WITH
  ch <- blockCh, PeerIds <- <<v1, v2, v3, v4>>, Quorum <- 3, BlockFetch <- 2, Mode <- "bft",
  Target <- 5, Reliable <- {}, Forked <- {v2}

\* Two piers at one node and a third at another; answers may be late.
Lease == INSTANCE PierMaster WITH
  Node <- {v1, v2}, Pier <- {m1, m2, m3}, Home <- (m1 :> v1 @@ m2 :> v1 @@ m3 :> v2),
  Timeout <- 1, Timely <- FALSE, Wants <- {"set"}, MaxTime <- 1, MaxCalls <- 3

\* A pier that connects, leaves and connects again.
Blocks == INSTANCE Delivery WITH
  got <- read, Piers <- {a, b}, Streams <- {a1, a2}, FeedOf <- (a1 :> a @@ a2 :> a),
  Leaving <- {a1, a2}, Slow <- {}, Capacity <- 1, Overlap <- FALSE, ListenFirst <- TRUE,
  MaxHeight <- 2

\* Two requests at different nodes, of which the third spoils rounds; and a node that
\* stores nothing while the others disagree.
Rounds == INSTANCE TssSigning WITH
  Peers <- {v1, v2, v3}, Faulty <- {v3}, Requests <- {r1, r2}, Home <- (r1 :> v1 @@ r2 :> v2),
  Info <- [p \in {v1, v2, v3} |-> {v1, v2, v3}], Quorum <- 2, Blames <- TRUE, Lossy <- FALSE
Stored == (v1 :> {v1, v2, v3} @@ v2 :> {v1, v2, v3} @@ v3 :> {v2, v3, v4} @@ v4 :> {})
Newcomer == INSTANCE TssSigning WITH
  Peers <- {v1, v2, v3, v4}, Faulty <- {v3}, Requests <- {r1, r2}, Home <- (r1 :> v1 @@ r2 :> v4),
  Info <- Stored, Quorum <- 3, Blames <- FALSE, Lossy <- TRUE

ASSUME /\ Cft!QuorumAssumption /\ Bft!QuorumAssumption
       /\ Blocks!FeedAssumption /\ Rounds!TssAssumption /\ Newcomer!TssAssumption

-----------------------------------------------------------------------------
PartsInit ==
  /\ part \in Parts
  /\ Init
  /\ IF part = "bft" THEN Bft!Init
     ELSE Cft!Init /\ (part = "cft" \/ (ledger = 1 /\ exec = <<1>> /\ chains = [p \in {v1, v2, v3} |-> <<>>]))
  /\ Lease!Init
  /\ Blocks!Init
  /\ Rounds!Init

SyncNext == (part = "cft" /\ Cft!Next) \/ (part = "bft" /\ Bft!Next)
TssNext == (part = "rounds" /\ Rounds!Next) \/ (part = "newcomer" /\ Newcomer!Next)

PartsNext ==
  \/ part = "filters" /\ Next /\ UNCHANGED <<part, syncVars, pierVars, streamVars, tssVars>>
  \/ SyncNext /\ UNCHANGED <<part, vars, pierVars, streamVars, tssVars>>
  \/ part = "piers" /\ Lease!Next /\ UNCHANGED <<part, vars, syncVars, streamVars, tssVars>>
  \/ part = "blocks" /\ Blocks!Next /\ UNCHANGED <<part, vars, syncVars, pierVars, tssVars>>
  \/ TssNext /\ UNCHANGED <<part, vars, syncVars, pierVars, streamVars>>

partsVars == <<part, vars, syncVars, pierVars, streamVars, tssVars>>
PartsSpec == PartsInit /\ [][PartsNext]_partsVars

-----------------------------------------------------------------------------
\* The ranges of a call cover its heights once and in order (calcRangeHeight), and the
\* blocks passed to the executor are the chain without gap or repetition, although a call
\* fetches again what commitC still holds (recoverFromSnapshot); what SyncBFTBlocks hands
\* over are the quorum's blocks, although peers on another branch answer too.
SyncedChain ==
  CASE part = "cft" -> Cft!TypeOK /\ Cft!RangesPartition /\ Cft!ExecutedChain
    [] part = "bft" -> Bft!TypeOK /\ Bft!BlocksOfQuorum
    [] OTHER -> TRUE

\* A node never replaces a main pier that is alive by another one (setMaster),
\* whatever calls and messages of other nodes arrive in between.
NoTakeover == [][part = "piers" => Lease!TypeOK /\ Lease!KeepsMaster]_partsVars

\* A block executed while a stream of a pier is open was sent to the client, is in the
\* channel, or some goroutine still has to send it (PutBlockAndMeta gives up only when
\* the counter of piers is zero).
NoBlockLost == part = "blocks" => Blocks!TypeOK /\ Blocks!NothingLost

\* A client is given only signatures that a round of a quorum of parties, none of them
\* faulty, has made (VerifyTssSigns); a node that stores nothing works only with parties
\* that a quorum of the others stores (getConsensusTssInfoParties).
Genuine ==
  CASE part = "rounds" -> Rounds!TypeOK /\ Rounds!Genuine
    [] part = "newcomer" -> Newcomer!TypeOK /\ Newcomer!Genuine /\ Newcomer!InfoAgreed
    [] OTHER -> TRUE
=============================================================================
