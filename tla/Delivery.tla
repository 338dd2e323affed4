-------------------------------- MODULE Delivery --------------------------------
(***************************************************************************)
(* From an executed block to its readers: postBlockEvent of the executor,  *)
(* the event loop of app/feedhub.go, the router's subscriptions of piers   *)
(* (router/interchain.go) and the streams of api/grpc/subscribe.go.        *)
(*                                                                         *)
(* Every hand-over runs in a goroutine of its own.  A task is one such     *)
(* goroutine at work on a block: it ranges over feeds, and in a feed sends *)
(* to the streams subscribed when it took the feed's lock, waiting for     *)
(* room in their channels.  A feed is a pier's, or Remote, the feed of the *)
(* block streams.  The feeds of go-ethereum are external.  What a wrapper  *)
(* holds is left out: a block is its height.                               *)
(***************************************************************************)
EXTENDS Integers, Sequences, FiniteSets

CONSTANTS Piers, Streams, Remote, NoFeed, NoStream,
          FeedOf,           \* stream -> the pier it stands for, or Remote
          Leaving,          \* streams whose client may disconnect
          Slow,             \* streams whose client does not read
          Capacity,         \* bound for blockChanNumber
          Overlap,          \* whether a pier may open a second stream
          ListenFirst,      \* whether the event loop subscribes before the first block
          MaxHeight

Feeds == Piers \cup {Remote}

FeedAssumption ==
    /\ FeedOf \in [Streams -> Feeds] /\ Remote \notin Piers
    /\ NoFeed \notin Feeds /\ NoStream \notin Streams
    /\ IsFiniteSet(Streams) /\ MaxHeight \in Nat
Heights == 1..MaxHeight

VARIABLES height,        \* executed blocks
          subscribed,    \* whether listenEvent has subscribed to blockFeed
          sending,       \* heights whose blockFeed.Send has not got the lock
          waiting,       \* heights whose PutBlockAndMeta has not begun
          reported,      \* heights ReportState was called with
          tasks,         \* goroutines that send to streams
          count, piers,  \* the router's counter and its map of feeds
          subs,          \* pier -> the stored subscription
          feed,          \* feed -> streams subscribed
          stream,        \* stream -> "off", "open", "cut", "leaving" or "gone"
          since,         \* stream -> height when it subscribed
          ch, got        \* stream -> its channel, and the blocks sent to its client

vars == <<height, subscribed, sending, waiting, reported, tasks, count, piers,
          subs, feed, stream, since, ch, got>>
exec == <<height, subscribed, sending, waiting, reported>>
router == <<count, piers, subs>>

-----------------------------------------------------------------------------
(* The executor and the event loop.                                        *)

Task(h, fs) == [h |-> h, start |-> fs, seen |-> {}, at |-> NoFeed, left |-> {}]

Settle(t) == IF t.left = {} THEN [t EXCEPT !.at = NoFeed] ELSE t

postBlockEvent(h) ==
    /\ sending' = sending \cup {h}
    /\ tasks' = tasks \cup {Task(h, {Remote})}

(* Mutant: the local feed is served only while the remote one is free. *)
RemoteFirst ==
    /\ height < MaxHeight /\ (ListenFirst => subscribed)
    /\ height' = height + 1
    /\ IF \E t \in tasks : t.at = Remote
       THEN tasks' = tasks \cup {Task(height + 1, {Remote})} /\ sending' = sending
       ELSE postBlockEvent(height + 1)
    /\ UNCHANGED <<subscribed, waiting, reported, router, feed, stream, since, ch, got>>

processExecuteEvent ==
    /\ height < MaxHeight /\ (ListenFirst => subscribed)
    /\ height' = height + 1
    /\ postBlockEvent(height + 1)
    /\ UNCHANGED <<subscribed, waiting, reported, router, feed, stream, since, ch, got>>

(* listenEvent, its beginning. *)
Subscribed ==
    /\ ~subscribed /\ subscribed' = TRUE
    /\ UNCHANGED <<height, sending, waiting, reported, tasks, router, feed, stream, since, ch, got>>

(* listenEvent takes a block and starts two goroutines, of which ReportState *)
(* only hands the block to the ordering node; without a subscriber the event *)
(* is gone.                                                                  *)
listenEvent(h) ==
    /\ h \in sending /\ sending' = sending \ {h}
    /\ IF subscribed THEN reported' = reported \cup {h} /\ waiting' = waiting \cup {h}
       ELSE UNCHANGED <<reported, waiting>>
    /\ UNCHANGED <<height, subscribed, tasks, router, feed, stream, since, ch, got>>

-----------------------------------------------------------------------------
(* The router.                                                             *)

PutBlockAndMeta(h) ==
    /\ h \in waiting /\ waiting' = waiting \ {h}
    /\ tasks' = IF count = 0 THEN tasks ELSE tasks \cup {Task(h, piers)}
    /\ UNCHANGED <<height, subscribed, sending, reported, router, feed, stream, since, ch, got>>

(* Range may or may not visit a pier that is added meanwhile; a Send waits   *)
(* for the feed's lock.                                                      *)
Enter(t, f) ==
    /\ t.at = NoFeed
    /\ f \in (IF Remote \in t.start THEN {Remote} ELSE piers) \ t.seen
    /\ \A u \in tasks : u.at # f
    /\ tasks' = (tasks \ {t}) \cup {Settle([t EXCEPT !.at = f, !.seen = @ \cup {f}, !.left = feed[f]])}
    /\ UNCHANGED <<exec, router, feed, stream, since, ch, got>>

Send(t, s) ==
    /\ s \in t.left
    /\ Len(ch[s]) < (IF FeedOf[s] = Remote THEN 1 ELSE Capacity)
    /\ ch' = [ch EXCEPT ![s] = Append(@, t.h)]
    /\ tasks' = (tasks \ {t}) \cup {Settle([t EXCEPT !.left = @ \ {s}])}
    /\ UNCHANGED <<exec, router, feed, stream, since, got>>

RangeEnds(t) ==
    /\ t.at = NoFeed /\ t.start \subseteq t.seen
    /\ tasks' = tasks \ {t}
    /\ UNCHANGED <<exec, router, feed, stream, since, ch, got>>

(* Mutant: only a pier that is new is counted. *)
CountsNew(p, s) ==
    /\ piers' = piers \cup {p} /\ feed' = [feed EXCEPT ![p] = @ \cup {s}]
    /\ subs' = [subs EXCEPT ![p] = s]
    /\ count' = IF p \in piers THEN count ELSE count + 1

AddPier(p, s) ==
    /\ piers' = piers \cup {p} /\ feed' = [feed EXCEPT ![p] = @ \cup {s}]
    /\ subs' = [subs EXCEPT ![p] = s]
    /\ count' = count + 1

(* Unsubscribe also reaches a Send in progress. *)
Unsubscribe(f, s) ==
    /\ feed' = [feed EXCEPT ![f] = @ \ {s}]
    /\ tasks' = {IF t.at = f THEN Settle([t EXCEPT !.left = @ \ {s}]) ELSE t : t \in tasks}

-----------------------------------------------------------------------------
(* The streams: handleInterchainTxWrapperSubscription for piers and          *)
(* handleNewBlockSubscription for Remote.                                    *)

Subscribe(s) ==
    LET f == FeedOf[s]
    IN  /\ stream[s] = "off" /\ stream' = [stream EXCEPT ![s] = "open"]
        /\ Overlap \/ \A r \in Streams \ {s} : FeedOf[r] = f /\ f # Remote => stream[r] \in {"off", "gone"}
        /\ since' = [since EXCEPT ![s] = height]
        /\ IF f = Remote THEN feed' = [feed EXCEPT ![f] = @ \cup {s}] /\ UNCHANGED router
           ELSE AddPier(f, s)
        /\ UNCHANGED <<exec, tasks, ch, got>>

Read(s) ==
    /\ stream[s] = "open" /\ ch[s] # <<>>
    /\ ch' = [ch EXCEPT ![s] = Tail(@)]
    /\ got' = [got EXCEPT ![s] = @ \cup {Head(ch[s])}]
    /\ UNCHANGED <<exec, tasks, router, feed, stream, since>>

(* The client is gone; the handler has not noticed. *)
Disconnect(s) ==
    /\ s \in Leaving /\ stream[s] = "open" /\ stream' = [stream EXCEPT ![s] = "cut"]
    /\ UNCHANGED <<exec, tasks, router, feed, since, ch, got>>

(* RemovePier, up to Unsubscribe: the subscription it finds need not be the  *)
(* one of this stream.                                                       *)
RemovePier(s) ==
    LET p == FeedOf[s]
    IN  /\ stream[s] = "cut" /\ p # Remote
        /\ IF subs[p] = NoStream
           THEN stream' = [stream EXCEPT ![s] = "gone"] /\ UNCHANGED <<feed, tasks>>
           ELSE stream' = [stream EXCEPT ![s] = "leaving"] /\ Unsubscribe(p, subs[p])
        /\ UNCHANGED <<exec, router, since, ch, got>>

PierRemoved(s) ==
    /\ stream[s] = "leaving" /\ stream' = [stream EXCEPT ![s] = "gone"]
    /\ subs' = [subs EXCEPT ![FeedOf[s]] = NoStream]
    /\ count' = count - 1
    /\ UNCHANGED <<exec, tasks, piers, feed, since, ch, got>>

(* A block stream notices when it next sends. *)
RemoteLeaves(s) ==
    /\ stream[s] = "cut" /\ FeedOf[s] = Remote /\ ch[s] # <<>>
    /\ stream' = [stream EXCEPT ![s] = "gone"]
    /\ Unsubscribe(Remote, s)
    /\ UNCHANGED <<exec, router, since, ch, got>>

-----------------------------------------------------------------------------
Init ==
    /\ height = 0 /\ subscribed = FALSE /\ tasks = {}
    /\ sending = {} /\ waiting = {} /\ reported = {}
    /\ count = 0 /\ piers = {}
    /\ subs = [p \in Piers |-> NoStream] /\ feed = [f \in Feeds |-> {}]
    /\ stream = [s \in Streams |-> "off"] /\ since = [s \in Streams |-> 0]
    /\ ch = [s \in Streams |-> <<>>] /\ got = [s \in Streams |-> {}]

Step(h, remote) ==
    \E t \in tasks :
        /\ t.h = h /\ remote = (Remote \in t.start)
        /\ (\E f \in Feeds : Enter(t, f)) \/ (\E s \in Streams : Send(t, s)) \/ RangeEnds(t)

Server ==
    \/ Subscribed
    \/ \E h \in Heights : listenEvent(h) \/ PutBlockAndMeta(h)
    \/ \E h \in Heights, remote \in BOOLEAN : Step(h, remote)

Handlers(s) == Read(s) \/ RemovePier(s) \/ PierRemoved(s) \/ RemoteLeaves(s)

Next ==
    \/ processExecuteEvent \/ Server
    \/ \E s \in Streams : Subscribe(s) \/ Disconnect(s) \/ Handlers(s)

(* Goroutines that can run do: one that waits for a lock or for room in a    *)
(* channel goes on when it gets it, since feeds serve waiting senders in     *)
(* turn.  Clients that are not Slow read.                                    *)
Fairness ==
    /\ WF_vars(Subscribed)
    /\ \A h \in Heights : WF_vars(listenEvent(h)) /\ WF_vars(PutBlockAndMeta(h))
    /\ \A h \in Heights, remote \in BOOLEAN : WF_vars(Step(h, remote))
    /\ \A s \in Streams \ Slow : WF_vars(Handlers(s))

Spec == Init /\ [][Next]_vars
FairSpec == Spec /\ Fairness

-----------------------------------------------------------------------------
(* Every part of the state has its type; one task at a time is in a feed,    *)
(* and it has someone left to send to.                                       *)
TypeOK ==
    /\ height \in 0..MaxHeight /\ subscribed \in BOOLEAN
    /\ sending \cup waiting \cup reported \subseteq 1..height
    /\ \A t \in tasks : t.at \in t.seen \cup {NoFeed} /\ (t.left # {} <=> t.at # NoFeed)
    /\ \A f \in Feeds : Cardinality({t \in tasks : t.at = f}) <= 1
    /\ count \in Int
    /\ \A s \in Streams : Len(ch[s]) <= Capacity

UnderWay(h, s) ==
    \/ FeedOf[s] # Remote /\ h \in sending \cup waiting
    \/ \E t \in tasks : t.h = h /\ (s \in t.left \/ FeedOf[s] \in t.start \ t.seen)

(* A block executed while a stream is open is not lost on the way to it: it  *)
(* was sent to the client, is in the channel, or some goroutine still has to *)
(* send it (PutBlockAndMeta gives up only when the counter of piers is zero).*)
NothingLost ==
    \A s \in Streams, h \in Heights :
        stream[s] = "open" /\ h <= height /\ h > since[s] =>
            h \in got[s] \/ UnderWay(h, s) \/ \E k \in DOMAIN ch[s] : ch[s][k] = h

(* A block that was executed while the client of a stream is connected and   *)
(* that the client has not been sent yet.                                    *)
Awaited(s, h) == stream[s] = "open" /\ h <= height /\ h > since[s] /\ h \notin got[s]
=============================================================================
