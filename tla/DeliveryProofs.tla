---------------------------- MODULE DeliveryProofs -----------------------------
(***************************************************************************)
(* Proofs about Delivery, for all piers and streams, capacities of their   *)
(* channels and numbers of blocks, when a pier opens one stream at a time  *)
(* and the event loop listens before the first block is executed.          *)
(***************************************************************************)
EXTENDS Delivery, FiniteSetTheorems, SequenceTheorems, TLAPS

(***************************************************************************)
(* The inductive invariant.  The router: a stream that is served is in its *)
(* feed, a pier's is the stored subscription of the pier and the only one  *)
(* of it, and the counter counts the streams of piers.                     *)
(***************************************************************************)
Here(s) == stream[s] \in {"open", "cut", "leaving"}
Served(s) == stream[s] \in {"open", "cut"}
Counted == {s \in Streams : FeedOf[s] # Remote /\ Here(s)}

RouterInv ==
    /\ stream \in [Streams -> {"off", "open", "cut", "leaving", "gone"}]
    /\ feed \in [Feeds -> SUBSET Streams] /\ subs \in [Piers -> Streams \cup {NoStream}]
    /\ \A s \in Streams : Served(s) => s \in feed[FeedOf[s]]
    /\ \A s \in Streams : stream[s] = "leaving" => FeedOf[s] # Remote
    /\ \A s \in Counted : FeedOf[s] \in piers
    /\ \A s \in Counted : Served(s) => subs[FeedOf[s]] = s
    /\ \A r, s \in Counted : FeedOf[r] = FeedOf[s] => r = s
    /\ count = Cardinality(Counted)

\* A task that is in no feed has nobody left, and the event loop has subscribed before
\* a block is on its way to it.
TaskSet ==
    {t \in [h : Heights, start : SUBSET Feeds, seen : SUBSET Feeds,
            at : Feeds \cup {NoFeed}, left : SUBSET Streams] : t.at = NoFeed => t.left = {}}

TasksInv ==
    /\ tasks \subseteq TaskSet
    /\ sending # {} => subscribed
    /\ sending \subseteq Heights /\ waiting \subseteq Heights
    /\ piers \subseteq Piers /\ height \in 0..MaxHeight

\* Where a block is that a stream is to get.
Carries(t, h, s) == t.h = h /\ (s \in t.left \/ FeedOf[s] \in t.start \ t.seen)
Carried(h, s) == \E t \in tasks : Carries(t, h, s)
InChannel(h, s) == \E k \in DOMAIN ch[s] : ch[s][k] = h
Kept(h, s) ==
    h \in got[s] \/ InChannel(h, s) \/ Carried(h, s) \/ (FeedOf[s] # Remote /\ h \in sending \cup waiting)

BlocksInv ==
    /\ ch \in [Streams -> Seq(Heights)] /\ got \in [Streams -> SUBSET Heights]
    /\ since \in [Streams -> Nat]
    /\ \A s \in Streams, h \in Heights : stream[s] = "open" /\ h <= height /\ h > since[s] => Kept(h, s)

One == FeedAssumption /\ ~Overlap /\ ListenFirst

-----------------------------------------------------------------------------
(* The router.                                                                *)

\* Steps that leave the router and the streams alone.
LEMMA RouterAside ==
    ASSUME RouterInv, UNCHANGED <<count, piers, subs, feed, stream>>
    PROVE  RouterInv'
BY DEF RouterInv, Served, Counted, Here

\* A stream joins, or leaves, those that are counted.
LEMMA CountedFinite ==
    ASSUME One
    PROVE  IsFiniteSet(Counted)
BY FS_Subset DEF One, FeedAssumption, Counted

\* Subscribe: of a pier only when it has no other stream.
LEMMA SubscribeRouter ==
    ASSUME One, RouterInv, NEW s \in Streams, Subscribe(s)
    PROVE  RouterInv'
<1> DEFINE f == FeedOf[s]
<1>1. /\ stream[s] = "off" /\ stream' = [stream EXCEPT ![s] = "open"]
      /\ feed' = [feed EXCEPT ![f] = @ \cup {s}]
      /\ f # Remote => /\ piers' = piers \cup {f} /\ subs' = [subs EXCEPT ![f] = s]
                       /\ count' = count + 1
      /\ f = Remote => UNCHANGED <<count, piers, subs>>
    BY DEF Subscribe, AddPier, router
<1>2. \A r \in Streams \ {s} : FeedOf[r] = f /\ f # Remote => stream[r] \in {"off", "gone"}
    BY DEF Subscribe, One
<1>3. f \in Feeds /\ Remote \notin Piers /\ \A r \in Streams : FeedOf[r] \in Feeds
    BY DEF One, FeedAssumption
<1>4. stream'[s] = "open" /\ \A r \in Streams : r # s => stream'[r] = stream[r]
    BY <1>1 DEF RouterInv
<1>5. feed' \in [Feeds -> SUBSET Streams] /\ s \in feed'[f] /\ \A x \in Feeds : feed[x] \subseteq feed'[x]
    BY <1>1, <1>3 DEF RouterInv
<1>6. Counted' = IF f = Remote THEN Counted ELSE Counted \cup {s}
    BY <1>1, <1>4 DEF Counted, Here
<1>7. \A r \in Counted : r # s /\ (f # Remote => FeedOf[r] # f)
    BY <1>1, <1>2 DEF Counted, Here
<1>8. \A r \in Streams : Served(r)' => r \in feed'[FeedOf[r]]
    BY <1>3, <1>4, <1>5 DEF RouterInv, Served
<1>9. /\ stream' \in [Streams -> {"off", "open", "cut", "leaving", "gone"}]
      /\ \A r \in Streams : stream'[r] = "leaving" => FeedOf[r] # Remote
    BY <1>1, <1>4 DEF RouterInv
<1>10. CASE f = Remote
    <2>1. \A r \in Counted : Served(r)' => Served(r)
        BY <1>4, <1>7 DEF Served, Counted
    <2>2. Counted' = Counted /\ UNCHANGED <<count, piers, subs>>
        BY <1>1, <1>6, <1>10
    <2> QED BY <1>5, <1>8, <1>9, <2>1, <2>2 DEF RouterInv
<1>11. CASE f # Remote
    <2>1. /\ piers' = piers \cup {f} /\ subs' = [subs EXCEPT ![f] = s] /\ count' = count + 1
          /\ Counted' = Counted \cup {s} /\ f \in Piers
        BY <1>1, <1>3, <1>6, <1>11 DEF Feeds
    <2>2. subs' \in [Piers -> Streams \cup {NoStream}] /\ subs'[f] = s
          /\ \A p \in Piers : p # f => subs'[p] = subs[p]
        BY <2>1 DEF RouterInv
    <2>3. \A r \in Counted : FeedOf[r] \in Piers /\ FeedOf[r] # f /\ (Served(r)' => Served(r))
        BY <1>3, <1>4, <1>7, <1>11 DEF Counted, Feeds, Served
    <2>4. \A r \in Counted' : FeedOf[r] \in piers'
        BY <2>1 DEF RouterInv
    <2>5. \A r \in Counted' : Served(r)' => subs'[FeedOf[r]] = r
        BY <2>1, <2>2, <2>3 DEF RouterInv
    <2>6. \A q, r \in Counted' : FeedOf[q] = FeedOf[r] => q = r
        BY <2>1, <2>3 DEF RouterInv
    <2>7. count' = Cardinality(Counted')
        <3>1. IsFiniteSet(Counted) /\ s \notin Counted
            BY <1>7, CountedFinite
        <3> QED BY ZenonT(30), <2>1, <3>1, FS_AddElement DEF RouterInv
    <2> QED BY <1>5, <1>8, <1>9, <2>2, <2>4, <2>5, <2>6, <2>7 DEF RouterInv
<1> QED BY <1>10, <1>11

\* Disconnect: the stream is still served.
LEMMA DisconnectRouter ==
    ASSUME RouterInv, NEW s \in Streams, Disconnect(s)
    PROVE  RouterInv'
<1>1. /\ stream[s] = "open" /\ stream' = [stream EXCEPT ![s] = "cut"]
      /\ UNCHANGED <<count, piers, subs, feed>>
    BY DEF Disconnect, router
<1>2. stream'[s] = "cut" /\ \A r \in Streams : r # s => stream'[r] = stream[r]
    BY <1>1 DEF RouterInv
<1>3. Counted' = Counted
    BY <1>1, <1>2 DEF Counted, Here
<1>4. \A r \in Streams : Served(r)' => Served(r)
    BY <1>1, <1>2 DEF Served
<1>5. /\ stream' \in [Streams -> {"off", "open", "cut", "leaving", "gone"}]
      /\ \A r \in Streams : stream'[r] = "leaving" => FeedOf[r] # Remote
    BY <1>1, <1>2 DEF RouterInv
<1>6. Counted \subseteq Streams
    BY DEF Counted
<1> QED BY <1>1, <1>3, <1>4, <1>5, <1>6 DEF RouterInv

\* RemovePier finds the subscription of its own stream.
LEMMA RemovesOwn ==
    ASSUME One, RouterInv, NEW s \in Streams, RemovePier(s)
    PROVE  /\ FeedOf[s] # Remote /\ subs[FeedOf[s]] = s /\ stream[s] = "cut"
           /\ stream' = [stream EXCEPT ![s] = "leaving"]
           /\ Unsubscribe(FeedOf[s], s) /\ UNCHANGED <<exec, router, since, ch, got>>
<1>1. stream[s] = "cut" /\ FeedOf[s] # Remote /\ UNCHANGED <<exec, router, since, ch, got>>
    BY DEF RemovePier
<1>2. subs[FeedOf[s]] = s
    BY <1>1 DEF RouterInv, Counted, Here, Served
<1>3. s # NoStream
    BY DEF One, FeedAssumption
<1> QED BY <1>1, <1>2, <1>3 DEF RemovePier

\* RemovePier and RemoteLeaves take a stream that is not served any more out of its feed.
LEMMA UnsubscribeRouter ==
    ASSUME One, RouterInv, NEW s \in Streams, Unsubscribe(FeedOf[s], s),
           UNCHANGED <<count, piers, subs>>, stream[s] = "cut",
           NEW to \in {"leaving", "gone"}, stream' = [stream EXCEPT ![s] = to],
           to = "leaving" <=> FeedOf[s] # Remote
    PROVE  RouterInv'
<1>1. feed' = [feed EXCEPT ![FeedOf[s]] = @ \ {s}]
    BY DEF Unsubscribe
<1>2. stream'[s] = to /\ \A r \in Streams : r # s => stream'[r] = stream[r]
    BY DEF RouterInv
<1>3. Counted' = Counted
    BY <1>2 DEF Counted, Here
<1>4. \A r \in Streams : Served(r)' => Served(r) /\ r # s
    BY <1>2 DEF Served
<1>5. \A r \in Streams : FeedOf[r] \in Feeds
    BY DEF One, FeedAssumption
<1>6. feed' \in [Feeds -> SUBSET Streams]
    BY ZenonT(30), <1>1 DEF RouterInv
<1>7. \A r \in Streams : Served(r)' => r \in feed'[FeedOf[r]]
    BY <1>1, <1>4, <1>5 DEF RouterInv
<1>8. /\ stream' \in [Streams -> {"off", "open", "cut", "leaving", "gone"}]
      /\ \A r \in Streams : stream'[r] = "leaving" => FeedOf[r] # Remote
    BY <1>2 DEF RouterInv
<1>9. Counted \subseteq Streams
    BY DEF Counted
<1> QED BY <1>3, <1>4, <1>6, <1>7, <1>8, <1>9 DEF RouterInv

\* PierRemoved: the stream was counted.
LEMMA RemovedRouter ==
    ASSUME One, RouterInv, NEW s \in Streams, PierRemoved(s)
    PROVE  RouterInv'
<1>1. /\ stream[s] = "leaving" /\ stream' = [stream EXCEPT ![s] = "gone"]
      /\ subs' = [subs EXCEPT ![FeedOf[s]] = NoStream] /\ count' = count - 1
      /\ UNCHANGED <<piers, feed>> /\ FeedOf[s] # Remote
    BY DEF PierRemoved, RouterInv
<1>2. stream'[s] = "gone" /\ \A r \in Streams : r # s => stream'[r] = stream[r]
    BY <1>1 DEF RouterInv
<1>3. Counted' = Counted \ {s} /\ s \in Counted /\ Counted \subseteq Streams
    BY <1>1, <1>2 DEF Counted, Here
<1>4. \A r \in Streams : Served(r)' => Served(r)
    BY <1>1, <1>2 DEF Served
<1>5. \A r \in Counted' : FeedOf[r] # FeedOf[s]
    BY <1>3 DEF RouterInv
<1>6. \A r \in Counted : FeedOf[r] \in Piers
    BY DEF Counted, One, FeedAssumption, Feeds
<1>7. \A r \in Counted' : subs'[FeedOf[r]] = subs[FeedOf[r]]
    BY <1>1, <1>3, <1>5, <1>6 DEF RouterInv
<1>8. subs' \in [Piers -> Streams \cup {NoStream}]
    BY ZenonT(30), <1>1 DEF RouterInv
<1>9. count' = Cardinality(Counted')
    <2>1. IsFiniteSet(Counted)
        BY CountedFinite
    <2> QED BY ZenonT(30), <1>1, <1>3, <2>1, FS_RemoveElement DEF RouterInv
<1>10. /\ stream' \in [Streams -> {"off", "open", "cut", "leaving", "gone"}]
       /\ \A r \in Streams : stream'[r] = "leaving" => FeedOf[r] # Remote
    BY <1>1, <1>2 DEF RouterInv
<1> QED BY <1>1, <1>3, <1>4, <1>7, <1>8, <1>9, <1>10 DEF RouterInv

\* Every step.
LEMMA RouterStep ==
    ASSUME One, RouterInv, [Next]_vars
    PROVE  RouterInv'
<1>1. CASE processExecuteEvent \/ Server \/ UNCHANGED vars
    <2>1. UNCHANGED <<count, piers, subs, feed, stream>>
        BY ZenonT(30), <1>1 DEF processExecuteEvent, Server, Subscribed, listenEvent, PutBlockAndMeta, Step, Enter,
                    Send, RangeEnds, router, vars
    <2> QED BY <2>1, RouterAside
<1>2. ASSUME NEW s \in Streams, Handlers(s) PROVE RouterInv'
    <2>1. CASE Read(s)
        <3>1. UNCHANGED <<count, piers, subs, feed, stream>>
            BY <2>1 DEF Read, router
        <3> QED BY <3>1, RouterAside
    <2>2. CASE RemovePier(s)
        <3>1. /\ FeedOf[s] # Remote /\ stream[s] = "cut" /\ stream' = [stream EXCEPT ![s] = "leaving"]
              /\ Unsubscribe(FeedOf[s], s) /\ UNCHANGED <<count, piers, subs>>
            BY <2>2, RemovesOwn DEF router
        <3> QED BY ZenonT(30), <3>1, UnsubscribeRouter
    <2>3. CASE RemoteLeaves(s)
        <3>1. /\ FeedOf[s] = Remote /\ stream[s] = "cut" /\ stream' = [stream EXCEPT ![s] = "gone"]
              /\ Unsubscribe(FeedOf[s], s) /\ UNCHANGED <<count, piers, subs>>
            BY <2>3 DEF RemoteLeaves, router
        <3> QED BY ZenonT(30), <3>1, UnsubscribeRouter
    <2> QED BY <1>2, <2>1, <2>2, <2>3, RemovedRouter DEF Handlers
<1> QED BY <1>1, <1>2, SubscribeRouter, DisconnectRouter DEF Next

-----------------------------------------------------------------------------
(* The tasks.                                                                 *)

\* Settle lets go of the feed when nobody is left, and changes nothing else.
LEMMA SettleFacts ==
    ASSUME NEW t \in [h : Heights, start : SUBSET Feeds, seen : SUBSET Feeds,
                      at : Feeds \cup {NoFeed}, left : SUBSET Streams]
    PROVE  t.at # NoFeed \/ t.left = {} =>
               /\ Settle(t) \in TaskSet /\ Settle(t).h = t.h /\ Settle(t).left = t.left
               /\ Settle(t).start = t.start /\ Settle(t).seen = t.seen
<1>1. CASE t.left = {}
    <2>1. Settle(t) = [t EXCEPT !.at = NoFeed]
        BY <1>1 DEF Settle
    <2> QED BY <1>1, <2>1 DEF TaskSet
<1>2. CASE t.left # {}
    <2>1. Settle(t) = t
        BY <1>2 DEF Settle
    <2> QED BY <1>2, <2>1 DEF TaskSet
<1> QED BY <1>1, <1>2

\* A new task.
LEMMA NewTask ==
    ASSUME One, NEW h \in Heights, NEW fs \in SUBSET Feeds
    PROVE  Task(h, fs) \in TaskSet /\ \A s \in Streams : FeedOf[s] \in fs => Carries(Task(h, fs), h, s)
BY DEF Task, TaskSet, Carries

\* A task that takes the lock of a feed carries its block to the streams of the feed.
LEMMA EnterTasks ==
    ASSUME One, RouterInv, TasksInv, NEW t \in tasks, NEW f \in Feeds, Enter(t, f)
    PROVE  /\ tasks' \subseteq TaskSet
           /\ \A s \in Streams, h \in Heights : Served(s) /\ Carried(h, s) => Carried(h, s)'
<1> DEFINE e == [t EXCEPT !.at = f, !.seen = @ \cup {f}, !.left = feed[f]]
<1>1. t.at = NoFeed /\ tasks' = (tasks \ {t}) \cup {Settle(e)}
    BY DEF Enter
<1>2. t \in TaskSet /\ t.left = {}
    BY <1>1 DEF TasksInv, TaskSet
<1>3. feed[f] \in SUBSET Streams /\ f # NoFeed
    BY DEF RouterInv, One, FeedAssumption
<1>4. /\ e \in [h : Heights, start : SUBSET Feeds, seen : SUBSET Feeds, at : Feeds \cup {NoFeed}, left : SUBSET Streams]
      /\ e.at # NoFeed /\ e.h = t.h /\ e.start = t.start /\ e.seen = t.seen \cup {f} /\ e.left = feed[f]
    BY ZenonT(30), <1>2, <1>3 DEF TaskSet
<1> HIDE DEF e
<1>5. /\ Settle(e) \in TaskSet /\ Settle(e).h = t.h /\ Settle(e).left = feed[f]
      /\ Settle(e).start = t.start /\ Settle(e).seen = t.seen \cup {f}
    BY <1>4, SettleFacts
<1>6. ASSUME NEW s \in Streams, NEW h \in Heights, Served(s), Carried(h, s) PROVE Carried(h, s)'
    <2>1. PICK u \in tasks : Carries(u, h, s)
        BY <1>6 DEF Carried
    <2>2. CASE u # t
        BY <1>1, <2>1, <2>2 DEF Carried, Carries
    <2>3. CASE u = t
        <3>1. t.h = h /\ FeedOf[s] \in t.start \ t.seen
            BY <1>2, <2>1, <2>3 DEF Carries
        <3>2. FeedOf[s] = f => s \in feed[f]
            BY <1>6 DEF RouterInv
        <3>3. Carries(Settle(e), h, s)
            BY <1>5, <3>1, <3>2 DEF Carries
        <3> QED BY <1>1, <3>3 DEF Carried, Carries
    <2> QED BY <2>2, <2>3
<1> QED BY <1>1, <1>5, <1>6 DEF TasksInv

\* A task that sends to a stream goes on carrying its block to the others.
LEMMA SendTasks ==
    ASSUME One, TasksInv, NEW t \in tasks, NEW r \in Streams, Send(t, r)
    PROVE  /\ tasks' \subseteq TaskSet
           /\ \A s \in Streams, h \in Heights : Carried(h, s) => Carried(h, s)' \/ (s = r /\ h = t.h)
<1> DEFINE e == [t EXCEPT !.left = @ \ {r}]
<1>1. r \in t.left /\ tasks' = (tasks \ {t}) \cup {Settle(e)}
    BY DEF Send
<1>2. t \in TaskSet /\ t.at # NoFeed
    BY <1>1 DEF TasksInv, TaskSet
<1>3. /\ e \in [h : Heights, start : SUBSET Feeds, seen : SUBSET Feeds, at : Feeds \cup {NoFeed}, left : SUBSET Streams]
      /\ e.at # NoFeed /\ e.h = t.h /\ e.start = t.start /\ e.seen = t.seen /\ e.left = t.left \ {r}
    BY <1>2 DEF TaskSet
<1> HIDE DEF e
<1>4. /\ Settle(e) \in TaskSet /\ Settle(e).h = t.h /\ Settle(e).left = t.left \ {r}
      /\ Settle(e).start = t.start /\ Settle(e).seen = t.seen
    BY <1>3, SettleFacts
<1>5. ASSUME NEW s \in Streams, NEW h \in Heights, Carried(h, s), ~(s = r /\ h = t.h) PROVE Carried(h, s)'
    <2>1. PICK u \in tasks : Carries(u, h, s)
        BY <1>5 DEF Carried
    <2>2. CASE u # t
        BY <1>1, <2>1, <2>2 DEF Carried, Carries
    <2>3. CASE u = t
        <3>1. Carries(Settle(e), h, s)
            BY <1>4, <1>5, <2>1, <2>3 DEF Carries
        <3> QED BY <1>1, <3>1 DEF Carried, Carries
    <2> QED BY <2>2, <2>3
<1> QED BY <1>1, <1>4, <1>5 DEF TasksInv

\* A task that has been in every feed it started with carries nothing.
LEMMA EndTasks ==
    ASSUME TasksInv, NEW t \in tasks, RangeEnds(t)
    PROVE  /\ tasks' \subseteq TaskSet
           /\ \A s \in Streams, h \in Heights : Carried(h, s) => Carried(h, s)'
<1>1. t.at = NoFeed /\ t.start \subseteq t.seen /\ tasks' = tasks \ {t}
    BY DEF RangeEnds
<1>2. t.left = {}
    BY <1>1 DEF TasksInv, TaskSet
<1>3. \A s \in Streams, h \in Heights : ~Carries(t, h, s)
    BY <1>1, <1>2 DEF Carries
<1> QED BY <1>1, <1>3 DEF TasksInv, Carried, Carries

\* Unsubscribe takes one stream from the task that is in the feed.
LEMMA UnsubscribeTasks ==
    ASSUME One, TasksInv, NEW f \in Feeds, NEW r \in Streams, Unsubscribe(f, r)
    PROVE  /\ tasks' \subseteq TaskSet
           /\ \A s \in Streams, h \in Heights : s # r /\ Carried(h, s) => Carried(h, s)'
<1> DEFINE Out(t) == IF t.at = f THEN Settle([t EXCEPT !.left = @ \ {r}]) ELSE t
<1>1. tasks' = {Out(t) : t \in tasks}
    BY DEF Unsubscribe
<1>2. ASSUME NEW t \in tasks
      PROVE  /\ Out(t) \in TaskSet /\ Out(t).h = t.h /\ t.left \ {r} \subseteq Out(t).left
             /\ Out(t).start = t.start /\ Out(t).seen = t.seen
    <2>1. t \in TaskSet
        BY DEF TasksInv
    <2>2. CASE t.at # f
        BY <2>1, <2>2
    <2>3. CASE t.at = f
        <3> DEFINE e == [t EXCEPT !.left = @ \ {r}]
        <3>1. /\ e \in [h : Heights, start : SUBSET Feeds, seen : SUBSET Feeds,
                        at : Feeds \cup {NoFeed}, left : SUBSET Streams]
              /\ e.at = f /\ e.h = t.h /\ e.start = t.start /\ e.seen = t.seen /\ e.left = t.left \ {r}
            BY <2>1, <2>3 DEF TaskSet
        <3>2. Out(t) = Settle(e) /\ f # NoFeed
            BY <2>3 DEF One, FeedAssumption
        <3> HIDE DEF e, Out
        <3> QED BY <3>1, <3>2, SettleFacts
    <2> QED BY <2>2, <2>3
<1> HIDE DEF Out
<1>3. ASSUME NEW s \in Streams, NEW h \in Heights, s # r, Carried(h, s) PROVE Carried(h, s)'
    <2>1. PICK t \in tasks : Carries(t, h, s)
        BY <1>3 DEF Carried
    <2>2. Carries(Out(t), h, s)
        BY <1>2, <1>3, <2>1 DEF Carries
    <2> QED BY <1>1, <2>2 DEF Carried, Carries
<1> QED BY <1>1, <1>2, <1>3

-----------------------------------------------------------------------------
(* The blocks.                                                                *)

Inv == TasksInv /\ BlocksInv

\* What is kept for an open stream stays so when the step opens no stream, executes no
\* block and keeps the channels' types.
LEMMA KeptFrame ==
    ASSUME BlocksInv, UNCHANGED <<since, height>>,
           ch' \in [Streams -> Seq(Heights)], got' \in [Streams -> SUBSET Heights],
           \A s \in Streams : stream'[s] = "open" => stream[s] = "open",
           \A s \in Streams, h \in Heights : stream'[s] = "open" /\ Kept(h, s) => Kept(h, s)'
    PROVE  BlocksInv'
BY DEF BlocksInv

\* A step of the tasks alone.
LEMMA TasksOnly ==
    ASSUME Inv, UNCHANGED <<exec, piers, stream, since, ch, got>>, tasks' \subseteq TaskSet,
           \A s \in Streams, h \in Heights : stream[s] = "open" /\ Carried(h, s) => Carried(h, s)'
    PROVE  Inv'
<1>1. UNCHANGED <<height, subscribed, sending, waiting, ch, got, since, stream>>
    BY DEF exec
<1>2. TasksInv'
    BY <1>1 DEF Inv, TasksInv
<1>3. \A s \in Streams, h \in Heights : InChannel(h, s)' = InChannel(h, s)
    BY <1>1 DEF InChannel
<1>4. \A s \in Streams, h \in Heights : stream'[s] = "open" /\ Kept(h, s) => Kept(h, s)'
    BY <1>1, <1>3 DEF Kept
<1>5. BlocksInv'
    BY <1>1, <1>4, KeptFrame DEF Inv, BlocksInv
<1> QED BY <1>2, <1>5 DEF Inv

\* processExecuteEvent: the new block is on its way to every stream.
LEMMA ExecuteBlocks ==
    ASSUME One, Inv, processExecuteEvent
    PROVE  Inv'
<1> DEFINE n == height + 1
<1>1. /\ height < MaxHeight /\ subscribed /\ height' = n
      /\ sending' = sending \cup {n} /\ tasks' = tasks \cup {Task(n, {Remote})}
      /\ UNCHANGED <<subscribed, waiting, piers, stream, since, ch, got>>
    BY DEF processExecuteEvent, postBlockEvent, One, router
<1>2. n \in Heights /\ height \in Nat /\ MaxHeight \in Nat /\ n \in 0..MaxHeight
    BY <1>1 DEF Inv, TasksInv, Heights, One, FeedAssumption
<1>3. /\ Task(n, {Remote}) \in TaskSet
      /\ \A s \in Streams : FeedOf[s] \in {Remote} => Carries(Task(n, {Remote}), n, s)
    BY <1>2, NewTask DEF Feeds
<1>4. TasksInv'
    BY <1>1, <1>2, <1>3 DEF Inv, TasksInv
<1>5. \A s \in Streams, h \in Heights : Carried(h, s) => Carried(h, s)'
    BY <1>1 DEF Carried, Carries
<1>6. \A s \in Streams, h \in Heights : Kept(h, s) => Kept(h, s)'
    BY <1>1, <1>5 DEF Kept, InChannel
<1>7. ASSUME NEW s \in Streams, NEW h \in Heights, h = n PROVE Kept(h, s)'
    <2>1. FeedOf[s] = Remote => Carried(h, s)'
        BY SMTT(30), <1>1, <1>3, <1>7 DEF Carried, Carries
    <2> QED BY <1>1, <1>7, <2>1 DEF Kept
<1>8. ASSUME NEW s \in Streams, NEW h \in Heights, stream'[s] = "open", h <= height', h > since'[s]
      PROVE  Kept(h, s)'
    <2>1. h \in Nat /\ (h = n \/ h <= height)
        BY <1>1, <1>2, <1>8 DEF Heights
    <2>2. stream[s] = "open" /\ h > since[s]
        BY <1>1, <1>8
    <2> QED BY <1>6, <1>7, <2>1, <2>2 DEF Inv, BlocksInv
<1> QED BY <1>1, <1>4, <1>8 DEF Inv, BlocksInv

\* listenEvent: a block that has been sent finds the event loop subscribed.
LEMMA ListenBlocks ==
    ASSUME Inv, NEW n \in Heights, listenEvent(n)
    PROVE  Inv'
<1>1. /\ n \in sending /\ subscribed /\ sending' = sending \ {n} /\ waiting' = waiting \cup {n}
      /\ UNCHANGED <<height, subscribed, tasks, piers, stream, since, ch, got>>
    BY DEF listenEvent, Inv, TasksInv, router
<1>2. TasksInv'
    BY <1>1 DEF Inv, TasksInv
<1>3. \A s \in Streams, h \in Heights : (InChannel(h, s)' = InChannel(h, s)) /\ (Carried(h, s)' = Carried(h, s))
    BY <1>1 DEF InChannel, Carried
<1>4. sending \cup waiting \subseteq (sending \cup waiting)'
    BY <1>1
<1>5. \A s \in Streams, h \in Heights : Kept(h, s) => Kept(h, s)'
    BY <1>1, <1>3, <1>4 DEF Kept
<1>6. BlocksInv'
    BY <1>1, <1>5, KeptFrame DEF Inv, BlocksInv
<1> QED BY <1>2, <1>6 DEF Inv

\* PutBlockAndMeta: a pier with an open stream is counted and in the map.
LEMMA PutBlocks ==
    ASSUME One, RouterInv, Inv, NEW n \in Heights, PutBlockAndMeta(n)
    PROVE  Inv'
<1>1. /\ n \in waiting /\ waiting' = waiting \ {n}
      /\ tasks' = IF count = 0 THEN tasks ELSE tasks \cup {Task(n, piers)}
      /\ UNCHANGED <<height, subscribed, sending, piers, stream, since, ch, got>>
    BY DEF PutBlockAndMeta, router
<1>2. piers \in SUBSET Feeds
    BY DEF Inv, TasksInv, Feeds
<1>3. /\ Task(n, piers) \in TaskSet
      /\ \A s \in Streams : FeedOf[s] \in piers => Carries(Task(n, piers), n, s)
    BY <1>2, NewTask
<1>4. tasks \subseteq tasks' /\ tasks' \subseteq TaskSet
    BY <1>1, <1>3 DEF Inv, TasksInv
<1>5. TasksInv'
    BY <1>1, <1>4 DEF Inv, TasksInv
<1>6. \A s \in Streams, h \in Heights : Carried(h, s) => Carried(h, s)'
    BY <1>4 DEF Carried, Carries
<1>7. ASSUME NEW s \in Streams, stream[s] = "open", FeedOf[s] # Remote PROVE Carried(n, s)'
    <2>1. s \in Counted /\ FeedOf[s] \in piers
        BY <1>7 DEF Counted, Here, RouterInv
    <2>2. count # 0
        BY <2>1, CountedFinite, FS_EmptySet DEF RouterInv
    <2>3. Task(n, piers) \in tasks' /\ Carries(Task(n, piers), n, s)
        BY <1>1, <1>3, <2>1, <2>2
    <2> QED BY <2>3 DEF Carried, Carries
<1>8. ASSUME NEW s \in Streams, NEW h \in Heights, stream'[s] = "open", Kept(h, s) PROVE Kept(h, s)'
    <2>1. InChannel(h, s)' = InChannel(h, s) /\ stream[s] = "open"
        BY <1>1, <1>8 DEF InChannel
    <2>2. h \in sending \cup waiting => h \in (sending \cup waiting)' \/ h = n
        BY <1>1
    <2> QED BY <1>1, <1>6, <1>7, <1>8, <2>1, <2>2 DEF Kept
<1>9. BlocksInv'
    BY <1>1, <1>8, KeptFrame DEF Inv, BlocksInv
<1> QED BY <1>5, <1>9 DEF Inv

\* Send: the block is in the channel of the stream it was carried to.
LEMMA SendBlocks ==
    ASSUME One, Inv, NEW t \in tasks, NEW r \in Streams, Send(t, r)
    PROVE  Inv'
<1>1. ch' = [ch EXCEPT ![r] = Append(@, t.h)] /\ UNCHANGED <<height, subscribed, sending, waiting, piers, stream, since, got>>
    BY DEF Send, exec, router
<1>2. /\ tasks' \subseteq TaskSet
      /\ \A s \in Streams, h \in Heights : Carried(h, s) => Carried(h, s)' \/ (s = r /\ h = t.h)
    BY SendTasks DEF Inv
<1>3. TasksInv'
    BY <1>1, <1>2 DEF Inv, TasksInv
<1>4. t.h \in Heights /\ ch \in [Streams -> Seq(Heights)]
    BY DEF Inv, TasksInv, TaskSet, BlocksInv
<1>5. ch' \in [Streams -> Seq(Heights)]
    BY <1>1, <1>4
<1>6. /\ \A s \in Streams : s # r => ch'[s] = ch[s]
      /\ ch'[r] = Append(ch[r], t.h) /\ ch[r] \in Seq(Heights)
    BY <1>1, <1>4
<1>7. /\ Len(ch[r]) + 1 \in DOMAIN ch'[r] /\ ch'[r][Len(ch[r]) + 1] = t.h
      /\ \A k \in DOMAIN ch[r] : k \in DOMAIN ch'[r] /\ ch'[r][k] = ch[r][k]
    BY <1>4, <1>6
<1>8. ASSUME NEW s \in Streams, NEW h \in Heights, InChannel(h, s) PROVE InChannel(h, s)'
    BY <1>6, <1>7, <1>8 DEF InChannel
<1>9. ASSUME NEW h \in Heights, h = t.h PROVE InChannel(h, r)'
    BY <1>7, <1>9 DEF InChannel
<1>10. \A s \in Streams, h \in Heights : Kept(h, s) => Kept(h, s)'
    BY <1>1, <1>2, <1>8, <1>9 DEF Kept
<1>11. BlocksInv'
    BY <1>1, <1>5, <1>10, KeptFrame DEF Inv, BlocksInv
<1> QED BY <1>3, <1>11 DEF Inv

\* Read: the block at the head of the channel is sent to the client.
LEMMA ReadBlocks ==
    ASSUME Inv, NEW r \in Streams, Read(r)
    PROVE  Inv'
<1>1. /\ ch[r] # <<>> /\ ch' = [ch EXCEPT ![r] = Tail(@)]
      /\ got' = [got EXCEPT ![r] = @ \cup {Head(ch[r])}]
      /\ UNCHANGED <<height, subscribed, sending, waiting, tasks, piers, stream, since>>
    BY DEF Read, exec, router
<1>2. TasksInv'
    BY <1>1 DEF Inv, TasksInv
<1>3. ch \in [Streams -> Seq(Heights)] /\ got \in [Streams -> SUBSET Heights] /\ ch[r] \in Seq(Heights)
    BY DEF Inv, BlocksInv
<1>4. Tail(ch[r]) \in Seq(Heights) /\ Head(ch[r]) \in Heights /\ Head(ch[r]) = ch[r][1]
    BY <1>1, <1>3
<1>5. ch' \in [Streams -> Seq(Heights)] /\ got' \in [Streams -> SUBSET Heights]
    BY <1>1, <1>3, <1>4
<1>6. /\ \A s \in Streams : s # r => ch'[s] = ch[s] /\ got'[s] = got[s]
      /\ ch'[r] = Tail(ch[r]) /\ got'[r] = got[r] \cup {Head(ch[r])}
    BY <1>1, <1>3
<1>7. ASSUME NEW k \in DOMAIN ch[r], k # 1
      PROVE  k - 1 \in DOMAIN ch'[r] /\ ch'[r][k - 1] = ch[r][k]
    <2>1. k \in 1..Len(ch[r]) /\ k \in Int
        BY <1>3
    <2>2. k - 1 \in 1..(Len(ch[r]) - 1) /\ Len(ch[r]) \in Nat
        BY <1>3, <1>7, <2>1
    <2> QED BY <1>1, <1>3, <1>6, <2>1, <2>2
<1>8. ASSUME NEW s \in Streams, NEW h \in Heights, InChannel(h, s) PROVE InChannel(h, s)' \/ h \in got'[s]
    <2>1. CASE s # r
        BY <1>6, <1>8, <2>1 DEF InChannel
    <2>2. CASE s = r
        <3>1. PICK k \in DOMAIN ch[r] : ch[r][k] = h
            BY <1>8, <2>2 DEF InChannel
        <3>2. CASE k = 1
            BY <1>4, <1>6, <2>2, <3>1, <3>2
        <3>3. CASE k # 1
            BY <1>7, <2>2, <3>1, <3>3 DEF InChannel
        <3> QED BY <3>2, <3>3
    <2> QED BY <2>1, <2>2
<1>9. \A s \in Streams : got[s] \subseteq got'[s]
    BY <1>6
<1>10. \A s \in Streams, h \in Heights : Carried(h, s)' = Carried(h, s)
    BY <1>1 DEF Carried
<1>11. \A s \in Streams, h \in Heights : Kept(h, s) => Kept(h, s)'
    BY <1>1, <1>8, <1>9, <1>10 DEF Kept
<1>12. BlocksInv'
    BY ZenonT(30), <1>1, <1>5, <1>11, KeptFrame DEF Inv, BlocksInv
<1> QED BY <1>2, <1>12 DEF Inv

\* Subscribe: every block that was executed is of before.
LEMMA SubscribeBlocks ==
    ASSUME One, RouterInv, Inv, NEW r \in Streams, Subscribe(r)
    PROVE  Inv'
<1>1. /\ stream' = [stream EXCEPT ![r] = "open"] /\ since' = [since EXCEPT ![r] = height]
      /\ UNCHANGED <<height, subscribed, sending, waiting, tasks, ch, got>>
      /\ piers' = piers \/ (FeedOf[r] # Remote /\ piers' = piers \cup {FeedOf[r]})
    BY DEF Subscribe, AddPier, router, exec
<1>2. TasksInv'
    BY <1>1 DEF Inv, TasksInv, One, FeedAssumption, Feeds
<1>3. height \in Nat
    BY DEF Inv, TasksInv
<1>4. since' \in [Streams -> Nat] /\ since'[r] = height /\ \A s \in Streams : s # r => since'[s] = since[s]
    BY ZenonT(30), <1>1, <1>3 DEF Inv, BlocksInv
<1>5. \A s \in Streams : s # r => stream'[s] = stream[s]
    BY <1>1 DEF RouterInv
<1>6. \A s \in Streams, h \in Heights : Kept(h, s)' = Kept(h, s)
    BY <1>1 DEF Kept, InChannel, Carried
<1>7. ASSUME NEW s \in Streams, NEW h \in Heights, stream'[s] = "open", h <= height', h > since'[s]
      PROVE  Kept(h, s)'
    <2>1. s # r
        BY <1>1, <1>3, <1>4, <1>7 DEF Heights
    <2> QED BY <1>1, <1>4, <1>5, <1>6, <1>7, <2>1 DEF Inv, BlocksInv
<1>8. ch' \in [Streams -> Seq(Heights)] /\ got' \in [Streams -> SUBSET Heights]
    BY <1>1 DEF Inv, BlocksInv
<1>9. BlocksInv'
    BY <1>4, <1>7, <1>8 DEF BlocksInv
<1> QED BY <1>2, <1>9 DEF Inv

\* A stream that leaves, or whose client does, and at most its own tasks are disturbed.
LEMMA LeaveBlocks ==
    ASSUME RouterInv, Inv, NEW r \in Streams, NEW to \in {"cut", "leaving", "gone"},
           stream' = [stream EXCEPT ![r] = to], UNCHANGED <<exec, piers, since, ch, got>>,
           tasks' \subseteq TaskSet,
           \A s \in Streams, h \in Heights : s # r /\ Carried(h, s) => Carried(h, s)'
    PROVE  Inv'
<1>1. UNCHANGED <<height, subscribed, sending, waiting>>
    BY DEF exec
<1>2. TasksInv'
    BY <1>1 DEF Inv, TasksInv
<1>3. \A s \in Streams : stream'[s] = "open" => s # r /\ stream[s] = "open"
    BY DEF RouterInv
<1>4. \A s \in Streams, h \in Heights : InChannel(h, s)' = InChannel(h, s)
    BY DEF InChannel
<1>5. \A s \in Streams, h \in Heights : stream'[s] = "open" /\ Kept(h, s) => Kept(h, s)'
    BY <1>1, <1>3, <1>4 DEF Kept
<1>6. BlocksInv'
    BY <1>1, <1>3, <1>5, KeptFrame DEF Inv, BlocksInv
<1> QED BY <1>2, <1>6 DEF Inv

\* Every step of the server.
LEMMA ServerStep ==
    ASSUME One, RouterInv, Inv, Server
    PROVE  Inv'
<1>1. CASE Subscribed
    <2>1. UNCHANGED <<height, sending, waiting, tasks, piers, stream, since, ch, got>> /\ subscribed'
        BY <1>1 DEF Subscribed, router
    <2>2. TasksInv'
        BY <2>1 DEF Inv, TasksInv
    <2>3. \A s \in Streams, h \in Heights : Kept(h, s)' = Kept(h, s)
        BY <2>1 DEF Kept, InChannel, Carried
    <2>4. BlocksInv'
        BY <2>1, <2>3, KeptFrame DEF Inv, BlocksInv
    <2> QED BY <2>2, <2>4 DEF Inv
<1>2. ASSUME NEW t \in tasks, NEW f \in Feeds, Enter(t, f) PROVE Inv'
    <2>1. UNCHANGED <<exec, piers, stream, since, ch, got>>
        BY <1>2 DEF Enter, router
    <2>2. /\ tasks' \subseteq TaskSet
          /\ \A s \in Streams, h \in Heights : Served(s) /\ Carried(h, s) => Carried(h, s)'
        BY <1>2, EnterTasks DEF Inv
    <2>3. \A s \in Streams : stream[s] = "open" => Served(s)
        BY DEF Served
    <2> QED BY <2>1, <2>2, <2>3, TasksOnly
<1>3. ASSUME NEW t \in tasks, RangeEnds(t) PROVE Inv'
    <2>1. UNCHANGED <<exec, piers, stream, since, ch, got>>
        BY <1>3 DEF RangeEnds, router
    <2>2. tasks' \subseteq TaskSet /\ \A s \in Streams, h \in Heights : Carried(h, s) => Carried(h, s)'
        BY <1>3, EndTasks DEF Inv
    <2> QED BY <2>1, <2>2, TasksOnly
<1>4. ASSUME NEW h \in Heights, NEW remote \in BOOLEAN, Step(h, remote) PROVE Inv'
    BY <1>2, <1>3, <1>4, SendBlocks DEF Step
<1> QED BY <1>1, <1>4, ListenBlocks, PutBlocks DEF Server

\* Every step of a stream.
LEMMA StreamStep ==
    ASSUME One, RouterInv, Inv, NEW s \in Streams, Subscribe(s) \/ Disconnect(s) \/ Handlers(s)
    PROVE  Inv'
<1>1. FeedOf[s] \in Feeds
    BY DEF One, FeedAssumption
<1>2. UNCHANGED tasks =>
          tasks' \subseteq TaskSet /\ \A r \in Streams, h \in Heights : r # s /\ Carried(h, r) => Carried(h, r)'
    BY DEF Inv, TasksInv, Carried
<1>3. CASE Disconnect(s)
    <2>1. stream' = [stream EXCEPT ![s] = "cut"] /\ UNCHANGED <<exec, tasks, piers, since, ch, got>>
        BY <1>3 DEF Disconnect, router
    <2> QED BY ZenonT(30), <1>2, <2>1, LeaveBlocks
<1>4. CASE RemovePier(s)
    <2>1. /\ stream' = [stream EXCEPT ![s] = "leaving"] /\ Unsubscribe(FeedOf[s], s)
          /\ UNCHANGED <<exec, piers, since, ch, got>>
        BY <1>4, RemovesOwn DEF router
    <2>2. tasks' \subseteq TaskSet /\ \A r \in Streams, h \in Heights : r # s /\ Carried(h, r) => Carried(h, r)'
        BY <1>1, <2>1, UnsubscribeTasks DEF Inv
    <2> QED BY ZenonT(30), <2>1, <2>2, LeaveBlocks
<1>5. CASE PierRemoved(s)
    <2>1. stream' = [stream EXCEPT ![s] = "gone"] /\ UNCHANGED <<exec, tasks, piers, since, ch, got>>
        BY <1>5 DEF PierRemoved
    <2> QED BY ZenonT(30), <1>2, <2>1, LeaveBlocks
<1>6. CASE RemoteLeaves(s)
    <2>1. /\ stream' = [stream EXCEPT ![s] = "gone"] /\ Unsubscribe(FeedOf[s], s)
          /\ UNCHANGED <<exec, piers, since, ch, got>>
        BY <1>6 DEF RemoteLeaves, router
    <2>2. tasks' \subseteq TaskSet /\ \A r \in Streams, h \in Heights : r # s /\ Carried(h, r) => Carried(h, r)'
        BY <1>1, <2>1, UnsubscribeTasks DEF Inv
    <2> QED BY ZenonT(30), <2>1, <2>2, LeaveBlocks
<1> QED BY <1>3, <1>4, <1>5, <1>6, SubscribeBlocks, ReadBlocks DEF Handlers

\* The inductive invariant holds at first and is kept by every step.
LEMMA DeliveryInit ==
    ASSUME One, Init
    PROVE  RouterInv /\ Inv
<1>1. stream = [s \in Streams |-> "off"] /\ \A s \in Streams : stream[s] = "off"
    BY DEF Init
<1>2. Counted = {}
    BY <1>1 DEF Counted, Here
<1>3. \A s \in Streams : ~Served(s)
    BY <1>1 DEF Served
<1>4. RouterInv
    BY <1>1, <1>2, <1>3, FS_EmptySet DEF Init, RouterInv
<1>5. TasksInv
    BY DEF Init, TasksInv, One, FeedAssumption
<1>6. <<>> \in Seq(Heights)
    OBVIOUS
<1>7. BlocksInv
    BY <1>1, <1>6 DEF Init, BlocksInv
<1> QED BY <1>4, <1>5, <1>7 DEF Inv

LEMMA DeliveryStep ==
    ASSUME One, RouterInv, Inv, [Next]_vars
    PROVE  (RouterInv /\ Inv)'
<1>1. RouterInv'
    BY RouterStep
<1>2. UNCHANGED vars => Inv'
    BY SMTT(30) DEF vars, Inv, TasksInv, BlocksInv, Kept, InChannel, Carried
<1>3. Inv'
    BY <1>2, ExecuteBlocks, ServerStep, StreamStep DEF Next
<1> QED BY <1>1, <1>3

\* What is kept is not lost.
LEMMA DeliveryKeeps ==
    ASSUME Inv
    PROVE  NothingLost
<1>1. \A s \in Streams, h \in Heights :
          Kept(h, s) => h \in got[s] \/ UnderWay(h, s) \/ \E k \in DOMAIN ch[s] : ch[s][k] = h
    BY DEF Kept, UnderWay, Carried, Carries, InChannel
<1> QED BY <1>1 DEF Inv, BlocksInv, NothingLost

\* A block executed while a stream is open is never lost on the way to it, whatever the
\* number of piers, streams and blocks and the capacity of the channels, when a pier opens
\* one stream at a time and listenEvent has subscribed before the first block is executed.
THEOREM DeliveryLosesNothing == One => (Spec => []NothingLost)
<1>1. One /\ Init => RouterInv /\ Inv
    BY DeliveryInit
<1>2. One /\ RouterInv /\ Inv /\ [Next]_vars => (RouterInv /\ Inv)'
    BY DeliveryStep
<1>3. RouterInv /\ Inv => NothingLost
    BY DeliveryKeeps
<1>4. SUFFICES ASSUME One PROVE Spec => []NothingLost
    OBVIOUS
<1>5. Init => RouterInv /\ Inv
    BY <1>1, <1>4
<1>6. RouterInv /\ Inv /\ [Next]_vars => (RouterInv /\ Inv)'
    BY <1>2, <1>4
<1> QED BY <1>3, <1>5, <1>6, PTL DEF Spec
=============================================================================
