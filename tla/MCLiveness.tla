------------------------------ MODULE MCLiveness ------------------------------
(***************************************************************************)
(* What must happen in the end, for TLC: requests time out, a solo node    *)
(* packages what it was sent, a node catches up with its peers, blocks     *)
(* reach the piers and events the filters, and calls return.  A behaviour  *)
(* runs the part that its first state names and leaves the variables of    *)
(* the others as they begin; every part has the fairness of its module.    *)
(***************************************************************************)
EXTENDS Integers, Sequences, TLC

CONSTANTS Parts,                   \* the parts that are run
          hub, svcA, svcB,         \* a hub and two services of its chains
          v1, v2, v3, v4, v5,      \* nodes
          m1, m2, m3,              \* piers
          chainA, chainB, a1, r1,  \* appchains, the stream of a pier and a remote one
          Remote, NoFeed, NoStream,
          p2, c1,                  \* filters, the last of a connection
          q1, NoOne                \* a request for a signature

VARIABLES
  part,
  currentHeight, block, ibtpTimeout, down, interchainCounter, receiptCounter,
  sourceInterchainCounter, sourceReceiptCounter, indexMap, indexReceiptMap,
  invokeRecords, inCounter, record, timeoutList, told,
  beat, sent, recvC, txSet, cache, slice, loop, hand, again, timer, pool, lastExec,
  proposer, taken, commitC, ledger, reports, chain,
  chains, bad, wrong, from, ranges, pc, ask, votes, parent, latest, blockCh, synced, exec,
  clock, calls, status, chanMap, buf, stuck, closed, rpc, asks, stale, replies, held, panicked,
  height, subscribed, sending, waiting, reported, tasks, count, piers, subs, feed, stream,
  since, ch, read,
  queue, index, eventLoop, made, g, inHand, listed, deadline, got, unsub, expired, handed,
  returned, emitted,
  req, round, answers, produced

interchainVars ==
  <<currentHeight, block, ibtpTimeout, down, interchainCounter, receiptCounter,
    sourceInterchainCounter, sourceReceiptCounter, indexMap, indexReceiptMap,
    invokeRecords, inCounter, record, timeoutList, told>>
soloVars == <<beat, sent, recvC, txSet, cache, slice, loop, hand, again, timer, pool, lastExec,
              proposer, taken, commitC, ledger, reports, chain>>
syncVars == <<chains, bad, wrong, from, ranges, pc, ask, votes, parent, latest, blockCh,
              synced, exec>>
pierVars == <<clock, calls, status, chanMap, buf, stuck, closed, rpc, asks, stale, replies,
              held, panicked>>
streamVars == <<height, subscribed, sending, waiting, reported, tasks, count, piers, subs,
                feed, stream, since, ch, read>>
filterVars == <<queue, index, eventLoop, made, g, inHand, listed, deadline, got, unsub, expired,
                handed, returned, emitted>>
tssVars == <<req, round, answers, produced>>

-----------------------------------------------------------------------------
Begun == {"SUCCESS", "FAILURE", "BEGIN_FAILURE", "BEGIN_ROLLBACK", "ROLLBACK"}
Flags == {<<"none", "BEGIN_FAILURE">>, <<"BEGIN_FAILURE", "FAILURE">>,
          <<"BEGIN_ROLLBACK", "ROLLBACK">>} \cup {<<"BEGIN", x>> : x \in Begun}

\* A request each way between two services.
Timing == INSTANCE Interchain WITH
  Service <- {svcA, svcB}, HubOf <- [x \in {svcA, svcB} |-> hub], BxhId <- hub,
  BxhService <- {}, Ordered <- [x \in {svcA, svcB} |-> TRUE], NotifyFlags <- Flags,
  Channel <- {<<svcA, svcB>>, <<svcB, svcA>>}, Index <- {1}, TimeoutHeight <- {0, 1, 2},
  Switchable <- {svcB}, MaxUint64 <- 6, MaxHeight <- 4, MaxRequests <- 1

\* A batch that three transactions do not fill.
T(a, n, t) == [acc |-> a, nonce |-> n, stamp |-> t]
Three == {T(1, 0, 2), T(1, 1, 1), T(2, 0, 1)}
Batching == INSTANCE Solo WITH
  Tx <- Three, BatchSize <- 4, SliceSize <- 2,
  IsTimed <- FALSE, CommitCap <- 1, Period <- 2, MaxHeight <- 9

\* Three peers of which one is reliable; five of which one is on another branch.
Cft == INSTANCE StateSyncer WITH
  ch <- blockCh, ledger <- synced, PeerIds <- <<v1, v2, v3>>, Quorum <- 2, BlockFetch <- 2,
  Mode <- "cft", Target <- 5, Reliable <- {v2}, Forked <- {}
Bft == INSTANCE StateSyncer WITH
  ch <- blockCh, ledger <- synced, PeerIds <- <<v5, v2, v1, v3, v4>>, Quorum <- 3,
  BlockFetch <- 2, Mode <- "bft", Target <- 5, Reliable <- {v1, v3, v4}, Forked <- {v2}

\* A pier at each of three nodes.
Asking == INSTANCE PierMaster WITH
  Node <- {v1, v2, v3}, Pier <- {m1, m2, m3}, Home <- (m1 :> v1 @@ m2 :> v2 @@ m3 :> v3),
  Timeout <- 1, Timely <- TRUE, Wants <- {"check"}, MaxTime <- 0, MaxCalls <- 3

\* A pier that reads, and a remote client that does not and may leave.
Blocks == INSTANCE Delivery WITH
  got <- read, Piers <- {chainA, chainB}, Streams <- {a1, r1},
  FeedOf <- (a1 :> chainA @@ r1 :> Remote), Slow <- {r1}, Leaving <- {r1}, Capacity <- 1,
  Overlap <- FALSE, ListenFirst <- TRUE, MaxHeight <- 2

\* A filter of mined and pending logs, and the logs of a connection.
Events == INSTANCE EventFilters WITH
  loop <- eventLoop, hand <- inHand, timer <- deadline, sent <- handed, Filters <- {p2, c1},
  Pushed <- {c1}, TypeOf <- (p2 :> "mined" @@ c1 :> "logs"), MaxEvents <- 2

\* A request among four parties of which two spoil rounds.
Signing == INSTANCE TssSigning WITH
  Peers <- {v1, v2, v3, v4}, Faulty <- {v2, v4}, Requests <- {q1}, Home <- (q1 :> v1),
  Info <- [p \in {v1, v2, v3, v4} |-> {v1, v2, v3, v4}], Quorum <- 3, Blames <- TRUE,
  Lossy <- TRUE

-----------------------------------------------------------------------------
PartsInit ==
  /\ part \in Parts
  /\ Timing!Init
  /\ part = "timeouts" \/ ibtpTimeout = [id \in DOMAIN ibtpTimeout |-> 1]
  /\ Batching!Init
  /\ IF part = "bft" THEN Bft!Init ELSE Cft!Init
  /\ \/ part \in {"cft", "bft"}
     \/ synced = 1 /\ exec = <<1>> /\ \A p \in {v1, v3} : chains[p] = <<>>
  /\ Asking!Init
  /\ Blocks!Init
  /\ Events!Init
  /\ Signing!Init

PartsNext ==
  \/ /\ part = "timeouts" /\ Timing!Next
     /\ UNCHANGED <<part, soloVars, syncVars, pierVars, streamVars, filterVars, tssVars>>
  \/ /\ part = "solo" /\ Batching!Next
     /\ UNCHANGED <<part, interchainVars, syncVars, pierVars, streamVars, filterVars, tssVars>>
  \/ /\ (part = "cft" /\ Cft!Next) \/ (part = "bft" /\ Bft!Next)
     /\ UNCHANGED <<part, interchainVars, soloVars, pierVars, streamVars, filterVars, tssVars>>
  \/ /\ part = "piers" /\ Asking!Next
     /\ UNCHANGED <<part, interchainVars, soloVars, syncVars, streamVars, filterVars, tssVars>>
  \/ /\ part = "blocks" /\ Blocks!Next
     /\ UNCHANGED <<part, interchainVars, soloVars, syncVars, pierVars, filterVars, tssVars>>
  \/ /\ part = "events" /\ Events!Next
     /\ UNCHANGED <<part, interchainVars, soloVars, syncVars, pierVars, streamVars, tssVars>>
  \/ /\ part = "signing" /\ Signing!Next
     /\ UNCHANGED <<part, interchainVars, soloVars, syncVars, pierVars, streamVars, filterVars>>

\* The variables of the part that runs.
active ==
  CASE part = "timeouts" -> interchainVars
    [] part = "solo" -> beat
    [] part \in {"cft", "bft"} -> syncVars
    [] part = "piers" -> pierVars
    [] part = "blocks" -> streamVars
    [] part = "events" -> filterVars
    [] part = "signing" -> tssVars

\* The goroutines that run on, part by part: Goroutine(n) is the n-th of the part that runs.
Goroutine(n) ==
  /\ UNCHANGED part
  /\ CASE part = "timeouts" -> n = 1 /\ Timing!CloseBlock
       [] part = "solo" -> n = 1 /\ Batching!CanGo /\ beat' = ~beat
       [] part = "cft" -> (n = 1 /\ Cft!Sync) \/ (n = 2 /\ Cft!recoverFromSnapshot)
       [] part = "bft" -> n = 1 /\ Bft!Sync
       [] part = "piers" ->
            \/ n \in 1..3 /\ Asking!CallStep(<<m1, m2, m3>>[n])
            \/ n = 4 /\ \E p \in {m1, m2, m3}, v \in {v1, v2, v3} : Asking!MessageStep(p, v)
       [] part = "blocks" ->
            \/ n \in 1..2 /\ Blocks!listenEvent(n)
            \/ n \in 3..4 /\ Blocks!PutBlockAndMeta(n - 2)
            \/ n \in 5..6 /\ Blocks!Step(n - 4, TRUE)
            \/ n \in 7..8 /\ Blocks!Step(n - 6, FALSE)
            \/ n = 9 /\ Blocks!Subscribed
            \/ n = 10 /\ Blocks!Handlers(a1)
       [] part = "events" ->
            /\ \/ n = 1 /\ Events!eventLoop
               \/ n = 2 /\ Events!Timeouts
               \/ n \in 3..4 /\ Events!Goroutine(<<p2, c1>>[n - 2])
            /\ UNCHANGED emitted
       [] part = "signing" ->
            \/ n = 1 /\ Signing!Own(q1)
            \/ n = 2 /\ (Signing!KeySigned(q1) \/ Signing!KeySignFails(q1))

PartsSpec ==
  /\ PartsInit
  /\ [][PartsNext]_<<part, interchainVars, soloVars, syncVars, pierVars, streamVars,
                     filterVars, tssVars>>
  /\ \A n \in 1..10 : WF_active(Goroutine(n))

-----------------------------------------------------------------------------
\* A request that is not answered in time is rolled back: a transaction whose timeout
\* height is within the blocks that come does not stay in BEGIN (setTimeoutRollback).
TimeoutFires ==
  \A id \in {<<<<svcA, svcB>>, 1>>, <<<<svcB, svcA>>, 1>>} :
    []<>~(part = "timeouts" /\ Timing!Expiring(id))

\* Batches come by size or by time (batch_timeout, "Block packaging time period"): no
\* transaction whose predecessors were sent waits for ever.  A node that is behind reaches
\* the height of the snapshot with one reliable peer (SyncCFTBlocks, randPeers), and ends
\* without error with a quorum of them although one is on another branch (SyncBFTBlocks).
BlocksComeOut ==
  /\ \A t \in Three :
       []<>~(part = "solo" /\ Batching!Executable(t) /\ ~Batching!Executed(t))
  /\ []<>~(part = "cft" /\ ~Cft!Synced)
  /\ []<>~(part = "bft" /\ ~Bft!Synced)

\* A client that reads gets every block executed while it is connected, whatever the
\* clients of other streams do (Router, handleBlockSubscription); no filter keeps an event
\* that the loop has taken up from another one for ever (eventLoop).
AllReached ==
  /\ \A h \in 1..2 : []<>~(part = "blocks" /\ Blocks!Awaited(a1, h))
  /\ \A f \in {p2, c1}, e \in 1..2 : []<>~(part = "events" /\ Events!Awaited(f, e))

\* Calls return: with three nodes and answers in time those of a pier that asks for the
\* main pier, although a second answer comes (writeChan); whoever calls Unsubscribe,
\* although the event loop may be waiting for the same filter; and a request for a
\* signature, since every round that fails leaves fewer signers (GetTssSigns).
CallsReturn ==
  /\ \A p \in {m1, m2, m3} : []<>~(part = "piers" /\ rpc[p].pc # "idle")
  /\ \A f \in {p2, c1} : []<>~(part = "events" /\ unsub[f] = "asking")
  /\ []<>~(part = "signing" /\ req[q1].state \in {"loop", "run"})
=============================================================================
