------------------------------ MODULE MCServices -------------------------------
(***************************************************************************)
(* The service side of the interchain contract for TLC, in four parts: the *)
(* broker of the hub's own contracts, transactions between hubs,           *)
(* transactions of hub services and of unordered services, and the ratings *)
(* of a service.  The parts share no state; a behaviour runs the one that  *)
(* its first state names and leaves the others as they begin.              *)
(***************************************************************************)
EXTENDS Broker, TLC

CONSTANTS Parts,                        \* the parts that are run
          hub, otherHub,                \* this hub and another one
          a, b, u, w, x, y,             \* the services of MCInterchain
          h1, a1, a2,                   \* services of the broker
          x1, x2, x3                    \* callers that rate a service

VARIABLES
  part,
  currentHeight, block, ibtpTimeout, down, interchainCounter, receiptCounter,
  sourceInterchainCounter, sourceReceiptCounter, indexMap, indexReceiptMap,
  invokeRecords, brokerIn, record, timeoutList, told,
  evaluations, score, records, count, rate, residue

\* pb.StatusChange.NotifyFlags, source half.
Flags ==
  LET Begun == {"SUCCESS", "FAILURE", "BEGIN_FAILURE", "BEGIN_ROLLBACK", "ROLLBACK"}
  IN  {<<"none", "BEGIN_FAILURE">>} \cup {<<"BEGIN", s>> : s \in Begun}
        \cup {<<"BEGIN_FAILURE", "FAILURE">>, <<"BEGIN_ROLLBACK", "ROLLBACK">>}

IService  == {a, b, u, w, x, y}
IHubOf    == [s \in IService |-> IF s \in {x, y} THEN otherHub ELSE hub]
IOrdered  == [s \in IService |-> s # u]

Hubs == INSTANCE Interchain WITH
  Service <- IService, HubOf <- IHubOf, Ordered <- IOrdered, BxhId <- hub,
  BxhService <- {w}, NotifyFlags <- Flags, inCounter <- brokerIn,
  Channel <- {<<a, x>>, <<x, b>>, <<x, y>>}, Switchable <- {otherHub},
  Index <- 1..2, TimeoutHeight <- {1}, MaxUint64 <- 5, MaxHeight <- 2, MaxRequests <- 2

Services == INSTANCE Interchain WITH
  Service <- IService, HubOf <- IHubOf, Ordered <- IOrdered, BxhId <- hub,
  BxhService <- {w}, NotifyFlags <- Flags, inCounter <- brokerIn,
  Channel <- {<<a, w>>, <<a, u>>}, Switchable <- {<<a, u>>},
  Index <- 1..2, TimeoutHeight <- {1}, MaxUint64 <- 5, MaxHeight <- 2, MaxRequests <- 2

Rated == INSTANCE Ratings WITH
  Caller <- {x1, x2, x3}, Scores <- {0, 1, 5, 6}, Scale <- 420, MaxInvoke <- 4

interchainVars ==
  <<currentHeight, block, ibtpTimeout, down, interchainCounter, receiptCounter,
    sourceInterchainCounter, sourceReceiptCounter, indexMap, indexReceiptMap,
    invokeRecords, brokerIn, record, timeoutList, told>>
ratingVars == <<evaluations, score, records, count, rate, residue>>

PartsInit ==
  /\ part \in Parts
  /\ Init
  /\ IF part = "services" THEN Services!Init ELSE Hubs!Init
  /\ Rated!Init

PartsNext ==
  \/ part = "broker" /\ Next /\ UNCHANGED <<part, interchainVars, ratingVars>>
  \/ part = "hubs" /\ Hubs!Next /\ UNCHANGED <<part, vars, ratingVars>>
  \/ part = "services" /\ Services!Next /\ UNCHANGED <<part, vars, ratingVars>>
  \/ part = "ratings" /\ Rated!Next /\ UNCHANGED <<part, vars, interchainVars>>

PartsSpec == PartsInit /\ [][PartsNext]_<<part, vars, interchainVars, ratingVars>>
-----------------------------------------------------------------------------
\* The counters both ends of a channel keep agree (updateIndex and the checks of
\* checkIBTP), also for a channel to or from another hub, where this hub keeps the
\* books of one end only, for services of the hub itself and for unordered ones.
CountersAgree ==
  /\ part = "hubs" => Hubs!CounterConsistency
  /\ part = "services" => Services!CounterConsistency

\* The running score of EvaluateService, kept without the past scores, is the mean of
\* the evaluations on record, and InvokeCount is the number of calls RecordInvokeService
\* has recorded caller by caller.
RatingsExact == Rated!ScoreIsMean /\ Rated!CountMatches
=============================================================================
