-------------------------- MODULE EventFiltersProofs ---------------------------
(***************************************************************************)
(* Proofs about EventFilters, for every set of filters and subscriptions,  *)
(* of whatever types, and every number of events.                          *)
(***************************************************************************)
EXTENDS EventFilters, SequenceTheorems, TLAPS

(***************************************************************************)
(* The inductive invariant.  Events: an event is in one place of one       *)
(* queue, or is being broadcast, or has been taken up; none that waits was *)
(* handed to anybody, and the one being broadcast was handed to nobody who *)
(* is still to get it.                                                     *)
(***************************************************************************)
Places(t) == 1..Len(queue[t])

Waits(t, i) ==
    /\ queue[t][i] \in 1..emitted /\ queue[t][i] # loop.ev
    /\ \A f \in Filters : queue[t][i] \notin sent[f]

Distinct ==
    \A t, u \in Types : \A i \in Places(t), j \in Places(u) :
        queue[t][i] = queue[u][j] => t = u /\ i = j

Broadcasting ==
    /\ loop.ev \in 0..emitted /\ loop.todo \subseteq Filters /\ loop.to \subseteq loop.todo
    /\ loop.todo # {} => loop.ev # 0
    /\ \A f \in loop.todo : loop.ev \notin sent[f]

EventsInv ==
    /\ emitted \in 0..MaxEvents /\ queue \in [Types -> Seq(Nat)]
    /\ sent \in [Filters -> SUBSET (1..emitted)]
    /\ \A t \in Types : \A i \in Places(t) : Waits(t, i)
    /\ Distinct
    /\ Broadcasting

(***************************************************************************)
(* The life of a filter: its goroutine exists once it has been made, only  *)
(* then is it listed, expires or is unsubscribed, and what is unsubscribed *)
(* is not known to the event loop any more.                                *)
(***************************************************************************)
Life(f) ==
    /\ g[f] = "none" <=> made[f] # "done"
    /\ unsub[f] # "no" => made[f] = "done"
    /\ f \in listed \cup expired => made[f] = "done"
    /\ \A t \in Types : <<t, f>> \in index => t \in IndexTypes(f) /\ unsub[f] # "done"

LifeInv ==
    /\ made \in [Filters -> {"no", "subscribing", "installed", "done"}]
    /\ g \in [Filters -> {"none", "select", "received", "leaving", "end"}]
    /\ unsub \in [Filters -> {"no", "asking", "done"}]
    /\ index \subseteq Types \X Filters
    /\ listed \subseteq Polled /\ expired \subseteq Polled
    /\ \A f \in Filters : Life(f)

(***************************************************************************)
(* What a filter has: everything it was handed is in its goroutine's hand, *)
(* waits to be polled or was returned, and each event in one of the three. *)
(***************************************************************************)
Has(f) ==
    /\ g[f] # "received" => hand[f] = 0
    /\ g[f] = "received" => hand[f] \in sent[f] /\ hand[f] \notin got[f] \cup returned[f]
    /\ got[f] \subseteq sent[f] /\ returned[f] \subseteq sent[f]
    /\ got[f] \cap returned[f] = {}
    /\ made[f] # "done" => sent[f] = {}
    /\ f \in listed \cup Pushed => sent[f] \subseteq returned[f] \cup got[f] \cup {hand[f]}

DataInv ==
    /\ hand \in [Filters -> Nat]
    /\ got \in [Filters -> SUBSET Nat] /\ returned \in [Filters -> SUBSET Nat]
    /\ \A f \in Filters : Has(f)

-----------------------------------------------------------------------------
\* The head of a queue and what follows it.
LEMMA QueueFacts ==
    ASSUME NEW q \in Seq(Nat), q # <<>>
    PROVE  /\ Tail(q) \in Seq(Nat) /\ Head(q) = q[1] /\ 1 \in 1..Len(q)
           /\ \A i \in 1..Len(Tail(q)) : i + 1 \in 1..Len(q) /\ Tail(q)[i] = q[i + 1]
<1>1. Len(q) \in Nat /\ Len(q) # 0
    BY LenProperties, EmptySeq
<1>2. Tail(q) \in Seq(Nat) /\ Len(Tail(q)) = Len(q) - 1
      /\ \A i \in 1..Len(Tail(q)) : Tail(q)[i] = q[i + 1]
    BY HeadTailProperties
<1>3. \A i \in 1..Len(Tail(q)) : i + 1 \in 1..Len(q)
    BY <1>1, <1>2
<1>4. Head(q) = q[1]
    OBVIOUS
<1> QED BY <1>1, <1>2, <1>3, <1>4

\* A queue with one more event.
LEMMA LongerQueue ==
    ASSUME NEW q \in Seq(Nat), NEW e \in Nat
    PROVE  /\ Append(q, e) \in Seq(Nat)
           /\ \A i \in 1..Len(Append(q, e)) :
                 \/ i \in 1..Len(q) /\ Append(q, e)[i] = q[i]
                 \/ i = Len(q) + 1 /\ Append(q, e)[i] = e
<1>1. Len(q) \in Nat
    BY LenProperties
<1>2. /\ Append(q, e) \in Seq(Nat) /\ Len(Append(q, e)) = Len(q) + 1
      /\ \A i \in 1..Len(q) : Append(q, e)[i] = q[i]
      /\ Append(q, e)[Len(q) + 1] = e
    BY AppendProperties
<1>3. \A i \in 1..Len(Append(q, e)) : i \in 1..Len(q) \/ i = Len(q) + 1
    BY <1>1, <1>2
<1> QED BY <1>2, <1>3

-----------------------------------------------------------------------------
(* The events.                                                                *)

\* What the loop is at after it has taken up an event or gone on with one.
LEMMA BroadcastFacts ==
    ASSUME NEW e, NEW todo, Broadcast(e, todo)
    PROVE  \/ loop'.ev = 0 /\ loop'.to = {} /\ loop'.todo = {}
           \/ loop'.ev = e /\ loop'.to \subseteq loop'.todo /\ loop'.todo = todo
BY DEF Broadcast, Idle

\* The events keep if the queues do not change, nothing but the event being broadcast
\* is handed over, and it is handed to those who go off the list.
LEMMA EventsKeep ==
    ASSUME EventsInv, queue' = queue, emitted' = emitted,
           sent' \in [Filters -> SUBSET (1..emitted)],
           \A f \in Filters : \A e \in sent'[f] :
               e \in sent[f] \/ (e = loop.ev /\ f \in loop.todo /\ f \notin loop'.todo),
           \/ loop'.ev = 0 /\ loop'.to = {} /\ loop'.todo = {}
           \/ loop'.ev = loop.ev /\ loop'.to \subseteq loop'.todo /\ loop'.todo \subseteq loop.todo
    PROVE  EventsInv'
<1>1. /\ emitted \in 0..MaxEvents /\ queue \in [Types -> Seq(Nat)] /\ Distinct
      /\ \A t \in Types : \A i \in Places(t) :
            queue[t][i] \in 1..emitted /\ queue[t][i] # loop.ev
            /\ \A f \in Filters : queue[t][i] \notin sent[f]
    BY DEF EventsInv, Waits
<1>2. /\ loop.ev \in 0..emitted /\ loop.todo \subseteq Filters
      /\ (loop.todo # {} => loop.ev # 0) /\ \A f \in loop.todo : loop.ev \notin sent[f]
    BY DEF EventsInv, Broadcasting
<1>3. emitted \in Nat
    BY <1>1, FiltersAssumption
<1>4. Distinct'
    BY <1>1 DEF Distinct, Places
<1>5. ASSUME NEW t \in Types, NEW i \in Places(t)
      PROVE  Waits(t, i)'
    <2>1. queue[t][i] # 0 /\ queue[t][i] \in 1..emitted
        BY <1>1, <1>3
    <2>2. queue[t][i] # loop'.ev
        BY <1>1, <2>1
    <2>3. \A f \in Filters : queue[t][i] \notin sent'[f]
        BY <1>1
    <2> QED BY <2>1, <2>2, <2>3 DEF Waits
<1>6. Broadcasting'
    <2>1. loop'.ev \in 0..emitted
        BY <1>2, <1>3
    <2>2. \A f \in loop'.todo : loop'.ev \notin sent'[f]
        BY <1>2
    <2> QED BY <1>2, <2>1, <2>2 DEF Broadcasting
<1>7. \A t \in Types : Places(t)' = Places(t)
    BY DEF Places
<1> QED BY <1>1, <1>4, <1>5, <1>6, <1>7 DEF EventsInv, Places

\* The loop takes up the first event of a queue: it was handed to nobody.
LEMMA TakesUp ==
    ASSUME EventsInv, NEW t \in Types, handleEvent(t), emitted' = emitted
    PROVE  EventsInv'
<1>1. /\ queue[t] # <<>> /\ queue' = [queue EXCEPT ![t] = Tail(@)] /\ sent' = sent
      /\ Broadcast(Head(queue[t]), {f \in Filters : <<t, f>> \in index})
    BY DEF handleEvent
<1>2. /\ emitted \in 0..MaxEvents /\ queue \in [Types -> Seq(Nat)] /\ Distinct
      /\ sent \in [Filters -> SUBSET (1..emitted)]
      /\ \A u \in Types : \A i \in Places(u) :
            queue[u][i] \in 1..emitted /\ \A f \in Filters : queue[u][i] \notin sent[f]
    BY DEF EventsInv, Waits
<1>3. emitted \in Nat
    BY <1>2, FiltersAssumption
<1> DEFINE e == queue[t][1]
           Old(u, i) == IF u = t THEN i + 1 ELSE i
<1>4. /\ Tail(queue[t]) \in Seq(Nat) /\ Head(queue[t]) = e /\ 1 \in Places(t)
      /\ \A i \in 1..Len(Tail(queue[t])) : i + 1 \in Places(t) /\ Tail(queue[t])[i] = queue[t][i + 1]
    BY <1>1, <1>2, QueueFacts DEF Places
<1>5. \/ loop'.ev = 0 /\ loop'.to = {} /\ loop'.todo = {}
      \/ loop'.ev = e /\ loop'.to \subseteq loop'.todo /\ loop'.todo \subseteq Filters
    <2> DEFINE todo == {f \in Filters : <<t, f>> \in index}
    <2>1. Broadcast(e, todo) /\ todo \subseteq Filters
        BY <1>1, <1>4
    <2> HIDE DEF todo, e
    <2> QED BY <2>1, BroadcastFacts
<1>6. /\ queue' \in [Types -> Seq(Nat)]
      /\ \A u \in Types : \A i \in Places(u)' :
            Old(u, i) \in Places(u) /\ queue'[u][i] = queue[u][Old(u, i)] /\ i \in Nat \ {0}
    <2>1. queue' \in [Types -> Seq(Nat)]
        BY <1>1, <1>2, <1>4
    <2>2. \A u \in Types : u # t => queue'[u] = queue[u]
        BY <1>1, <1>2
    <2>3. queue'[t] = Tail(queue[t])
        BY <1>1, <1>2
    <2>4. \A u \in Types : \A i \in Places(u)' : i \in Nat \ {0}
        BY <2>1, LenProperties DEF Places
    <2> QED BY ZenonT(30), <1>4, <2>1, <2>2, <2>3, <2>4 DEF Places
<1>7. /\ e \in 1..emitted /\ \A f \in Filters : e \notin sent[f]
      /\ \A u \in Types : \A i \in Places(u) : queue[u][i] = e => u = t /\ i = 1
    BY <1>2, <1>4 DEF Distinct
<1> HIDE DEF e
<1>8. ASSUME NEW u \in Types, NEW i \in Places(u)'
      PROVE  Waits(u, i)'
    <2>1. Old(u, i) \in Places(u) /\ queue'[u][i] = queue[u][Old(u, i)] /\ i \in Nat \ {0}
        BY <1>6
    <2>2. queue[u][Old(u, i)] # e
        BY <1>7, <2>1
    <2>3. queue'[u][i] \in 1..emitted /\ \A f \in Filters : queue'[u][i] \notin sent[f]
        BY <1>2, <2>1
    <2>4. queue'[u][i] # 0
        BY <1>3, <2>3
    <2>5. queue'[u][i] # loop'.ev
        BY <1>5, <2>1, <2>2, <2>4
    <2> QED BY ZenonT(30), <1>1, <2>3, <2>5 DEF Waits
<1>9. Distinct'
    <2> SUFFICES ASSUME NEW u \in Types, NEW v \in Types, NEW i \in Places(u)', NEW j \in Places(v)',
                        queue'[u][i] = queue'[v][j]
                 PROVE  u = v /\ i = j
        BY DEF Distinct, Places
    <2>1. /\ Old(u, i) \in Places(u) /\ queue'[u][i] = queue[u][Old(u, i)] /\ i \in Nat \ {0}
          /\ Old(v, j) \in Places(v) /\ queue'[v][j] = queue[v][Old(v, j)] /\ j \in Nat \ {0}
        BY <1>6
    <2>2. u = v /\ Old(u, i) = Old(v, j)
        <3> HIDE DEF Old
        <3>1. queue[u][Old(u, i)] = queue[v][Old(v, j)]
            BY ZenonT(30), <2>1
        <3> QED BY <1>2, <2>1, <3>1 DEF Distinct
    <2> QED BY <2>1, <2>2
<1>10. Broadcasting'
    <2>1. loop'.ev \in 0..emitted
        BY <1>3, <1>5, <1>7
    <2>2. loop'.todo # {} => loop'.ev # 0
        BY <1>3, <1>5, <1>7
    <2>3. \A f \in loop'.todo : loop'.ev \notin sent'[f]
        BY <1>1, <1>5, <1>7
    <2> QED BY <1>5, <2>1, <2>2, <2>3 DEF Broadcasting
<1> QED BY <1>1, <1>2, <1>6, <1>8, <1>9, <1>10 DEF EventsInv, Places

\* A feed adds an event that is new.
LEMMA Feeds ==
    ASSUME EventsInv, NEW t \in Types, Emit(t)
    PROVE  EventsInv'
<1>1. /\ emitted < MaxEvents /\ emitted' = emitted + 1 /\ sent' = sent /\ loop' = loop
      /\ queue' = [queue EXCEPT ![t] = Append(@, emitted + 1)]
    BY DEF Emit
<1>2. /\ emitted \in 0..MaxEvents /\ queue \in [Types -> Seq(Nat)] /\ Distinct
      /\ sent \in [Filters -> SUBSET (1..emitted)] /\ Broadcasting
      /\ \A u \in Types : \A i \in Places(u) :
            queue[u][i] \in 1..emitted /\ queue[u][i] # loop.ev
            /\ \A f \in Filters : queue[u][i] \notin sent[f]
    BY DEF EventsInv, Waits
<1> DEFINE e == emitted + 1
<1>3. /\ emitted \in Nat /\ e \in Nat /\ e \in 1..emitted' /\ e \notin 1..emitted /\ e # 0
      /\ emitted' \in 0..MaxEvents /\ 1..emitted \subseteq 1..emitted' /\ e \notin 0..emitted
    BY <1>1, <1>2, FiltersAssumption
<1>4. queue' = [queue EXCEPT ![t] = Append(@, e)] /\ emitted' = e
    BY <1>1
<1> HIDE DEF e
<1> DEFINE Last(u, i) == u = t /\ i = Len(queue[t]) + 1
<1>5. /\ queue' \in [Types -> Seq(Nat)]
      /\ \A u \in Types : \A i \in Places(u)' :
            \/ i \in Places(u) /\ queue'[u][i] = queue[u][i]
            \/ Last(u, i) /\ queue'[u][i] = e
    <2>1. /\ Append(queue[t], e) \in Seq(Nat)
          /\ \A i \in 1..Len(Append(queue[t], e)) :
                \/ i \in 1..Len(queue[t]) /\ Append(queue[t], e)[i] = queue[t][i]
                \/ i = Len(queue[t]) + 1 /\ Append(queue[t], e)[i] = e
        BY <1>2, <1>3, LongerQueue
    <2>2. queue'[t] = Append(queue[t], e) /\ \A u \in Types : u # t => queue'[u] = queue[u]
        BY <1>2, <1>4
    <2>3. queue' \in [Types -> Seq(Nat)]
        BY <1>2, <1>4, <2>1
    <2> QED BY ZenonT(30), <2>1, <2>2, <2>3 DEF Places
<1>6. \A u \in Types : \A i \in Places(u) : queue[u][i] # e
    BY <1>2, <1>3
<1>7. loop.ev # e /\ loop.ev \in 0..emitted'
    BY <1>2, <1>3, <1>4 DEF Broadcasting
<1>8. sent \in [Filters -> SUBSET (1..emitted')] /\ \A f \in Filters : e \notin sent[f]
    BY <1>2, <1>3
<1>9. ASSUME NEW u \in Types, NEW i \in Places(u)'
      PROVE  Waits(u, i)'
    <2>1. CASE i \in Places(u) /\ queue'[u][i] = queue[u][i]
        <3>1. /\ queue[u][i] \in 1..emitted' /\ queue[u][i] # loop.ev
              /\ \A f \in Filters : queue[u][i] \notin sent[f]
            BY <1>2, <1>3, <2>1
        <3> QED BY ZenonT(30), <1>1, <2>1, <3>1 DEF Waits
    <2>2. CASE queue'[u][i] = e
        BY ZenonT(30), <1>1, <1>3, <1>7, <1>8, <2>2 DEF Waits
    <2> QED BY <1>5, <2>1, <2>2
<1>10. Distinct'
    <2> SUFFICES ASSUME NEW u \in Types, NEW v \in Types, NEW i \in Places(u)', NEW j \in Places(v)',
                        queue'[u][i] = queue'[v][j]
                 PROVE  u = v /\ i = j
        BY DEF Distinct, Places
    <2>1. CASE Last(u, i) /\ Last(v, j)
        BY <2>1
    <2>2. CASE i \in Places(u) /\ queue'[u][i] = queue[u][i] /\ j \in Places(v) /\ queue'[v][j] = queue[v][j]
        <3>1. queue[u][i] = queue[v][j]
            BY ZenonT(30), <2>2
        <3> QED BY <1>2, <2>2, <3>1 DEF Distinct
    <2> HIDE DEF Last
    <2> QED BY <1>5, <1>6, <2>1, <2>2
<1>11. Broadcasting'
    BY <1>1, <1>2, <1>7 DEF Broadcasting
<1> QED BY <1>3, <1>5, <1>8, <1>9, <1>10, <1>11, <1>1 DEF EventsInv, Places

\* The goroutine of a filter takes the event that was meant for it.
LEMMA Receives ==
    ASSUME EventsInv, NEW f \in Filters, Receive(f), emitted' = emitted
    PROVE  EventsInv'
<1>1. /\ f \in loop.to /\ sent' = [sent EXCEPT ![f] = @ \cup {loop.ev}] /\ queue' = queue
      /\ Broadcast(loop.ev, loop.todo \ {f})
    BY DEF Receive
<1>2. \/ loop'.ev = 0 /\ loop'.to = {} /\ loop'.todo = {}
      \/ loop'.ev = loop.ev /\ loop'.to \subseteq loop'.todo /\ loop'.todo = loop.todo \ {f}
    BY <1>1, BroadcastFacts
<1>3. f \in loop.todo /\ loop.ev \in 0..emitted /\ loop.ev # 0
    BY <1>1 DEF EventsInv, Broadcasting
<1>4. sent \in [Filters -> SUBSET (1..emitted)] /\ emitted \in 0..MaxEvents
    BY DEF EventsInv
<1>5. loop.ev \in 1..emitted
    BY <1>3, <1>4, FiltersAssumption
<1>6. sent' \in [Filters -> SUBSET (1..emitted)]
    BY <1>1, <1>4, <1>5
<1>7. \A h \in Filters : \A e \in sent'[h] :
        e \in sent[h] \/ (e = loop.ev /\ h \in loop.todo /\ h \notin loop'.todo)
    BY <1>1, <1>2, <1>3, <1>4
<1>8. \/ loop'.ev = 0 /\ loop'.to = {} /\ loop'.todo = {}
      \/ loop'.ev = loop.ev /\ loop'.to \subseteq loop'.todo /\ loop'.todo \subseteq loop.todo
    BY <1>2
<1> QED BY <1>1, <1>6, <1>7, <1>8, EventsKeep

\* Unsubscribe takes it and drops it.
LEMMA Drains ==
    ASSUME EventsInv, NEW f \in Filters, Drain(f), emitted' = emitted
    PROVE  EventsInv'
<1>1. sent' = sent /\ queue' = queue /\ Broadcast(loop.ev, loop.todo \ {f})
    BY DEF Drain
<1>2. \/ loop'.ev = 0 /\ loop'.to = {} /\ loop'.todo = {}
      \/ loop'.ev = loop.ev /\ loop'.to \subseteq loop'.todo /\ loop'.todo \subseteq loop.todo
    BY <1>1, BroadcastFacts
<1>3. sent' \in [Filters -> SUBSET (1..emitted)]
    BY <1>1 DEF EventsInv
<1> QED BY <1>1, <1>2, <1>3, EventsKeep

\* No other step touches the events.
LEMMA EventsAside ==
    ASSUME EventsInv, UNCHANGED <<queue, loop, sent, emitted>>
    PROVE  EventsInv'
BY DEF EventsInv, Places, Waits, Distinct, Broadcasting

\* Every step keeps the events in order.
LEMMA EventsStep ==
    ASSUME EventsInv, [Next]_vars
    PROVE  EventsInv'
<1>1. CASE \E t \in Fed : Emit(t)
    BY <1>1, Feeds DEF Fed, Types
<1>2. CASE UNCHANGED emitted /\ eventLoop
    <2>1. ASSUME NEW t \in Types, handleEvent(t) PROVE EventsInv'
        BY <1>2, <2>1, TakesUp
    <2>2. ASSUME NEW f \in Filters, Receive(f) \/ Drain(f) PROVE EventsInv'
        BY <1>2, <2>2, Receives, Drains
    <2>3. ASSUME NEW f \in Filters, Install(f) \/ Uninstall(f) PROVE EventsInv'
        BY <1>2, <2>3, EventsAside DEF Install, Uninstall
    <2> QED BY <1>2, <2>1, <2>2, <2>3 DEF eventLoop
<1>3. CASE UNCHANGED emitted /\ Timeouts
    BY <1>3, EventsAside DEF Timeouts, timeoutLoop, timeoutUnsubscribe, timeoutUnsubscribed
<1>4. ASSUME UNCHANGED emitted, NEW f \in Filters, Goroutine(f) PROVE EventsInv'
    BY <1>4, EventsAside DEF Goroutine, Started, Store, Ended
<1>5. ASSUME UNCHANGED emitted, NEW f \in Filters, Client(f) PROVE EventsInv'
    BY <1>5, EventsAside
       DEF Client, NewFilter, GetFilterChanges, UninstallFilter, Disconnect, Deadline
<1>6. CASE UNCHANGED vars
    BY <1>6, EventsAside DEF vars
<1> QED BY <1>1, <1>2, <1>3, <1>4, <1>5, <1>6 DEF Next

-----------------------------------------------------------------------------
(* The life of the filters.                                                   *)

\* What a filter subscribes to are types there are.
LEMMA IndexTypesFacts ==
    ASSUME NEW f \in Filters
    PROVE  IndexTypes(f) \subseteq Types
<1>1. TypeOf[f] \in Types
    BY FiltersAssumption
<1> QED BY <1>1 DEF IndexTypes, Types

\* A filter whose goroutine does not begin, and that is listed or known no further.
LEMMA LifeKeeps ==
    ASSUME NEW f \in Filters, Life(f), made'[f] = made[f], unsub'[f] = unsub[f],
           g'[f] = "none" <=> g[f] = "none",
           f \in listed' \cup expired' => f \in listed \cup expired,
           \A t \in Types : <<t, f>> \in index' => <<t, f>> \in index
    PROVE  Life(f)'
BY DEF Life, IndexTypes

\* The event loop installs and removes filters.
LEMMA LoopLife ==
    ASSUME LifeInv, eventLoop
    PROVE  LifeInv'
<1>0. \A f \in Filters : Life(f)
    BY DEF LifeInv
<1>1. ASSUME NEW t \in Types, handleEvent(t) PROVE LifeInv'
    BY <1>1 DEF handleEvent, LifeInv, Life, IndexTypes
<1>2. ASSUME NEW f \in Filters, Receive(f) PROVE LifeInv'
    <2>1. /\ g[f] = "select" /\ g' = [g EXCEPT ![f] = "received"]
          /\ UNCHANGED <<index, made, listed, unsub, expired>>
        BY <1>2 DEF Receive
    <2>2. \A h \in Filters : g'[h] = "none" <=> g[h] = "none"
        BY <2>1 DEF LifeInv
    <2>3. \A h \in Filters : Life(h)'
        BY <1>0, <2>1, <2>2, LifeKeeps
    <2> QED BY <2>1, <2>3 DEF LifeInv
<1>3. ASSUME NEW f \in Filters, Drain(f) PROVE LifeInv'
    BY <1>3 DEF Drain, LifeInv, Life, IndexTypes
<1>4. ASSUME NEW f \in Filters, Install(f) PROVE LifeInv'
    <2>1. /\ made[f] = "subscribing" /\ made' = [made EXCEPT ![f] = "installed"]
          /\ index' = index \cup (IndexTypes(f) \X {f})
          /\ UNCHANGED <<g, listed, unsub, expired>>
        BY <1>4 DEF Install
    <2>2. \A h \in Filters : h # f => made'[h] = made[h] /\ \A t \in Types : <<t, h>> \in index' => <<t, h>> \in index
        BY <2>1 DEF LifeInv
    <2>3. \A h \in Filters : h # f => Life(h)'
        BY <1>0, <2>1, <2>2, LifeKeeps
    <2>4. Life(f)'
        <3>1. g[f] = "none" /\ unsub[f] = "no" /\ f \notin listed \cup expired
            BY <1>0, <2>1 DEF Life
        <3>2. made'[f] = "installed"
            BY <2>1 DEF LifeInv
        <3>3. \A t \in Types : <<t, f>> \in index' => t \in IndexTypes(f)
            BY <1>0, <2>1 DEF Life
        <3> QED BY <2>1, <3>1, <3>2, <3>3 DEF Life, IndexTypes
    <2>5. index' \subseteq Types \X Filters
        BY <2>1, IndexTypesFacts DEF LifeInv
    <2>6. made' \in [Filters -> {"no", "subscribing", "installed", "done"}]
        BY <2>1 DEF LifeInv
    <2> QED BY <2>1, <2>3, <2>4, <2>5, <2>6 DEF LifeInv
<1>5. ASSUME NEW f \in Filters, Uninstall(f) PROVE LifeInv'
    <2>1. /\ unsub[f] = "asking" /\ unsub' = [unsub EXCEPT ![f] = "done"]
          /\ index' = index \ (IndexTypes(f) \X {f})
          /\ UNCHANGED <<g, listed, made, expired>>
        BY <1>5 DEF Uninstall
    <2>2. \A h \in Filters : h # f => unsub'[h] = unsub[h]
        BY <2>1 DEF LifeInv
    <2>3. \A h \in Filters : h # f => Life(h)'
        BY <1>0, <2>1, <2>2, LifeKeeps
    <2>4. Life(f)'
        <3>1. made[f] = "done" /\ \A t \in Types : <<t, f>> \in index => t \in IndexTypes(f)
            BY <1>0, <2>1 DEF Life
        <3>2. \A t \in Types : <<t, f>> \notin index'
            BY <2>1, <3>1
        <3> QED BY <1>0, <2>1, <3>1, <3>2 DEF Life
    <2>5. index' \subseteq Types \X Filters /\ unsub' \in [Filters -> {"no", "asking", "done"}]
        BY <2>1 DEF LifeInv
    <2> QED BY <2>1, <2>3, <2>4, <2>5 DEF LifeInv
<1> QED BY <1>1, <1>2, <1>3, <1>4, <1>5 DEF eventLoop

\* A filter is listed when it is made, and its goroutine ends once.
LEMMA GoroutineLife ==
    ASSUME LifeInv, NEW f \in Filters, Goroutine(f)
    PROVE  LifeInv'
<1>0. \A h \in Filters : Life(h)
    BY DEF LifeInv
<1>1. CASE Started(f)
    <2>1. /\ made[f] = "installed" /\ made' = [made EXCEPT ![f] = "done"]
          /\ g' = [g EXCEPT ![f] = "select"] /\ listed' = listed \cup ({f} \ Pushed)
          /\ UNCHANGED <<index, unsub, expired>>
        BY <1>1 DEF Started
    <2>2. \A h \in Filters : h # f => made'[h] = made[h] /\ g'[h] = g[h]
        BY <2>1 DEF LifeInv
    <2>3. \A h \in Filters : h # f => Life(h)'
        BY <1>0, <2>1, <2>2, LifeKeeps
    <2>4. made'[f] = "done" /\ g'[f] = "select"
        BY <2>1 DEF LifeInv
    <2>5. Life(f)'
        BY <1>0, <2>1, <2>4 DEF Life, IndexTypes
    <2>6. /\ made' \in [Filters -> {"no", "subscribing", "installed", "done"}]
          /\ g' \in [Filters -> {"none", "select", "received", "leaving", "end"}]
          /\ listed' \subseteq Polled
        BY <2>1 DEF LifeInv, Polled
    <2> QED BY <2>1, <2>3, <2>5, <2>6 DEF LifeInv
<1>2. CASE Store(f) \/ Ended(f)
    <2>1. /\ \E s \in {"select", "end"} : g' = [g EXCEPT ![f] = s]
          /\ g[f] # "none" /\ listed' \subseteq listed
          /\ UNCHANGED <<index, made, unsub, expired>>
        BY <1>2 DEF Store, Ended
    <2>2. \A h \in Filters : g'[h] = "none" <=> g[h] = "none"
        BY <2>1 DEF LifeInv
    <2>3. \A h \in Filters : Life(h)'
        BY <1>0, <2>1, <2>2, LifeKeeps
    <2>4. g' \in [Filters -> {"none", "select", "received", "leaving", "end"}]
        BY <2>1 DEF LifeInv
    <2> QED BY <2>1, <2>3, <2>4 DEF LifeInv
<1> QED BY <1>1, <1>2 DEF Goroutine

\* The clients make filters, and remove those that are listed.
LEMMA ClientLife ==
    ASSUME LifeInv, NEW f \in Filters, Client(f)
    PROVE  LifeInv'
<1>0. \A h \in Filters : Life(h)
    BY DEF LifeInv
<1>1. CASE NewFilter(f)
    <2>1. /\ made[f] = "no" /\ made' = [made EXCEPT ![f] = "subscribing"]
          /\ UNCHANGED <<index, g, listed, unsub, expired>>
        BY <1>1 DEF NewFilter
    <2>2. made'[f] = "subscribing" /\ \A h \in Filters : h # f => made'[h] = made[h]
        BY <2>1 DEF LifeInv
    <2>3. \A h \in Filters : h # f => Life(h)'
        BY <1>0, <2>1, <2>2, LifeKeeps
    <2>4. Life(f)'
        BY <1>0, <2>1, <2>2 DEF Life, IndexTypes
    <2>5. made' \in [Filters -> {"no", "subscribing", "installed", "done"}]
        BY <2>1 DEF LifeInv
    <2> QED BY <2>1, <2>3, <2>4, <2>5 DEF LifeInv
<1>2. CASE GetFilterChanges(f) \/ Deadline(f)
    <2>1. UNCHANGED <<made, index, g, listed, unsub, expired>>
        BY <1>2 DEF GetFilterChanges, Deadline
    <2>2. \A h \in Filters : Life(h)'
        BY <1>0, <2>1, LifeKeeps
    <2> QED BY <2>1, <2>2 DEF LifeInv
<1>3. CASE UninstallFilter(f)
    <2>1. /\ f \in listed /\ listed' = listed \ {f} /\ unsub' = [unsub EXCEPT ![f] = "asking"]
          /\ UNCHANGED <<made, index, g, expired>>
        BY <1>3 DEF UninstallFilter
    <2>2. unsub'[f] = "asking" /\ \A h \in Filters : h # f => unsub'[h] = unsub[h]
        BY <2>1 DEF LifeInv
    <2>3. \A h \in Filters : h # f => Life(h)'
        BY <1>0, <2>1, <2>2, LifeKeeps
    <2>4. Life(f)'
        BY <1>0, <2>1, <2>2 DEF Life, IndexTypes
    <2>5. unsub' \in [Filters -> {"no", "asking", "done"}]
        BY <2>1 DEF LifeInv
    <2> QED BY <2>1, <2>3, <2>4, <2>5 DEF LifeInv
<1>4. CASE Disconnect(f)
    <2>1. /\ g[f] = "select" /\ g' = [g EXCEPT ![f] = "leaving"] /\ unsub' = [unsub EXCEPT ![f] = "asking"]
          /\ UNCHANGED <<made, index, listed, expired>>
        BY <1>4 DEF Disconnect
    <2>2. /\ unsub'[f] = "asking" /\ g'[f] = "leaving"
          /\ \A h \in Filters : h # f => unsub'[h] = unsub[h] /\ g'[h] = g[h]
        BY <2>1 DEF LifeInv
    <2>3. \A h \in Filters : h # f => Life(h)'
        BY <1>0, <2>1, <2>2, LifeKeeps
    <2>4. Life(f)'
        BY <1>0, <2>1, <2>2 DEF Life, IndexTypes
    <2>5. /\ unsub' \in [Filters -> {"no", "asking", "done"}]
          /\ g' \in [Filters -> {"none", "select", "received", "leaving", "end"}]
        BY <2>1 DEF LifeInv
    <2> QED BY <2>1, <2>3, <2>4, <2>5 DEF LifeInv
<1> QED BY <1>1, <1>2, <1>3, <1>4 DEF Client

\* timeoutLoop takes filters off the list and unsubscribes them.
LEMMA TimeoutsLife ==
    ASSUME LifeInv, Timeouts
    PROVE  LifeInv'
<1>0. \A h \in Filters : Life(h)
    BY DEF LifeInv
<1>1. CASE timeoutLoop
    <2>1. /\ expired' = listed \cap timer /\ listed' = listed \ timer
          /\ UNCHANGED <<made, index, g, unsub>>
        BY <1>1 DEF timeoutLoop
    <2>2. \A h \in Filters : Life(h)'
        BY <1>0, <2>1, LifeKeeps
    <2> QED BY <2>1, <2>2 DEF LifeInv
<1>2. ASSUME NEW f \in Filters, timeoutUnsubscribe(f) PROVE LifeInv'
    <2>1. /\ f \in expired /\ unsub' = [unsub EXCEPT ![f] = "asking"]
          /\ UNCHANGED <<made, index, g, listed, expired>>
        BY <1>2 DEF timeoutUnsubscribe
    <2>2. unsub'[f] = "asking" /\ \A h \in Filters : h # f => unsub'[h] = unsub[h]
        BY <2>1 DEF LifeInv
    <2>3. \A h \in Filters : h # f => Life(h)'
        BY <1>0, <2>1, <2>2, LifeKeeps
    <2>4. Life(f)'
        BY <1>0, <2>1, <2>2 DEF Life, IndexTypes
    <2>5. unsub' \in [Filters -> {"no", "asking", "done"}]
        BY <2>1 DEF LifeInv
    <2> QED BY <2>1, <2>3, <2>4, <2>5 DEF LifeInv
<1>3. ASSUME NEW f \in Filters, timeoutUnsubscribed(f) PROVE LifeInv'
    <2>1. expired' = expired \ {f} /\ UNCHANGED <<made, index, g, listed, unsub>>
        BY <1>3 DEF timeoutUnsubscribed
    <2>2. \A h \in Filters : Life(h)'
        BY <1>0, <2>1, LifeKeeps
    <2> QED BY <2>1, <2>2 DEF LifeInv
<1> QED BY <1>1, <1>2, <1>3 DEF Timeouts

\* Every step.
LEMMA LifeStep ==
    ASSUME LifeInv, [Next]_vars
    PROVE  LifeInv'
<1>1. CASE (\E t \in Fed : Emit(t)) \/ UNCHANGED vars
    <2>1. UNCHANGED <<made, index, g, listed, unsub, expired>>
        BY <1>1 DEF Emit, vars
    <2> QED BY <2>1 DEF LifeInv, Life, IndexTypes
<1> QED BY <1>1, LoopLife, GoroutineLife, ClientLife, TimeoutsLife DEF Next

-----------------------------------------------------------------------------
(* What the filters have.                                                     *)

\* A filter that neither gets nor gives away anything in a step.
LEMMA HasKeeps ==
    ASSUME NEW f \in Filters, Has(f), hand'[f] = hand[f], got'[f] = got[f],
           returned'[f] = returned[f], sent'[f] = sent[f],
           g'[f] = "received" <=> g[f] = "received",
           made[f] = "done" => made'[f] = "done",
           f \in listed' => f \in listed \/ sent[f] = {}
    PROVE  Has(f)'
BY DEF Has

\* The goroutine reads what it was not handed before.
LEMMA ReceiveHas ==
    ASSUME EventsInv, LifeInv, DataInv, NEW f \in Filters, Receive(f)
    PROVE  DataInv'
<1>1. /\ f \in loop.to /\ g[f] = "select"
      /\ hand' = [hand EXCEPT ![f] = loop.ev] /\ g' = [g EXCEPT ![f] = "received"]
      /\ sent' = [sent EXCEPT ![f] = @ \cup {loop.ev}]
      /\ UNCHANGED <<made, listed, got, returned>>
    BY DEF Receive
<1>2. loop.ev \in Nat /\ loop.ev \notin sent[f]
    BY <1>1 DEF EventsInv, Broadcasting
<1>3. /\ hand'[f] = loop.ev /\ g'[f] = "received" /\ sent'[f] = sent[f] \cup {loop.ev}
      /\ \A h \in Filters : h # f => hand'[h] = hand[h] /\ g'[h] = g[h] /\ sent'[h] = sent[h]
    BY <1>1 DEF EventsInv, LifeInv, DataInv
<1>4. \A h \in Filters : h # f => Has(h)'
    <2>1. \A h \in Filters : Has(h)
        BY DEF DataInv
    <2> QED BY <1>1, <1>3, <2>1, HasKeeps
<1>5. Has(f)'
    <2>1. Has(f) /\ made[f] = "done"
        BY <1>1 DEF DataInv, LifeInv, Life
    <2>2. 0 \notin sent[f] /\ hand[f] = 0
        BY <1>1, <2>1 DEF EventsInv, Has
    <2> QED BY <1>1, <1>2, <1>3, <2>1, <2>2 DEF Has
<1>6. hand' \in [Filters -> Nat]
    BY <1>1, <1>2 DEF DataInv
<1> QED BY <1>1, <1>4, <1>5, <1>6 DEF DataInv

\* It stores what it holds for the next poll, or forwards it.
LEMMA StoreHas ==
    ASSUME EventsInv, LifeInv, DataInv, NEW f \in Filters, Store(f)
    PROVE  DataInv'
<1> DEFINE Kept == {hand[f]} \cap IF f \in listed THEN 1..MaxEvents ELSE {}
           Sent == IF f \in Pushed THEN returned[f] \cup {hand[f]} ELSE returned[f]
<1>1. /\ g[f] = "received" /\ hand' = [hand EXCEPT ![f] = 0] /\ g' = [g EXCEPT ![f] = "select"]
      /\ got' = [got EXCEPT ![f] = got[f] \cup Kept] /\ returned' = [returned EXCEPT ![f] = Sent]
      /\ UNCHANGED <<made, listed, sent>>
    BY DEF Store
<1>2. Has(f) /\ hand[f] \in 1..MaxEvents /\ hand[f] \in Nat
    BY <1>1, FiltersAssumption DEF DataInv, Has, EventsInv
<1>3. f \in listed => f \notin Pushed
    BY DEF LifeInv, Polled
<1>4. /\ f \in listed => Kept = {hand[f]}
      /\ f \notin listed => Kept = {}
      /\ f \in Pushed => Sent = returned[f] \cup {hand[f]}
      /\ f \notin Pushed => Sent = returned[f]
    BY <1>2
<1>5. Kept \subseteq {hand[f]} /\ Sent \subseteq returned[f] \cup {hand[f]}
    BY <1>4
<1> HIDE DEF Kept, Sent
<1>6. /\ hand'[f] = 0 /\ g'[f] = "select" /\ got'[f] = got[f] \cup Kept /\ returned'[f] = Sent
      /\ \A h \in Filters : h # f => /\ hand'[h] = hand[h] /\ g'[h] = g[h]
                                     /\ got'[h] = got[h] /\ returned'[h] = returned[h]
    BY <1>1 DEF LifeInv, DataInv
<1>7. \A h \in Filters : h # f => Has(h)'
    <2>1. \A h \in Filters : Has(h)
        BY DEF DataInv
    <2> QED BY <1>1, <1>6, <2>1, HasKeeps
<1>8. Has(f)'
    <2>1. hand[f] \in sent[f] /\ hand[f] \notin got[f] \cup returned[f]
        BY <1>1, <1>2 DEF Has
    <2>2. got'[f] \subseteq sent[f] /\ returned'[f] \subseteq sent[f]
        <3>1. got[f] \subseteq sent[f] /\ returned[f] \subseteq sent[f]
            BY ZenonT(30), <1>2 DEF Has
        <3>2. Kept \subseteq sent[f] /\ Sent \subseteq sent[f]
            BY ZenonT(30), <1>5, <2>1, <3>1
        <3>3. got'[f] = got[f] \cup Kept /\ returned'[f] = Sent
            BY <1>6
        <3> QED BY ZenonT(30), <3>1, <3>2, <3>3
    <2>3. got'[f] \cap returned'[f] = {}
        BY <1>2, <1>3, <1>4, <1>6, <2>1 DEF Has
    <2>4. f \in listed \cup Pushed => sent[f] \subseteq returned'[f] \cup got'[f]
        BY <1>2, <1>3, <1>4, <1>6 DEF Has
    <2> QED BY <1>1, <1>2, <1>6, <2>2, <2>3, <2>4 DEF Has
<1>9. /\ hand' \in [Filters -> Nat]
      /\ got' \in [Filters -> SUBSET Nat] /\ returned' \in [Filters -> SUBSET Nat]
    BY ZenonT(30), <1>1, <1>2, <1>5 DEF DataInv
<1> QED BY <1>7, <1>8, <1>9 DEF DataInv

\* A poll returns what waits, once.
LEMMA PollHas ==
    ASSUME DataInv, NEW f \in Filters, GetFilterChanges(f)
    PROVE  DataInv'
<1>1. /\ returned' = [returned EXCEPT ![f] = @ \cup got[f]] /\ got' = [got EXCEPT ![f] = {}]
      /\ UNCHANGED <<made, g, hand, listed, sent>>
    BY DEF GetFilterChanges
<1>2. /\ returned'[f] = returned[f] \cup got[f] /\ got'[f] = {}
      /\ \A h \in Filters : h # f => got'[h] = got[h] /\ returned'[h] = returned[h]
    BY <1>1 DEF DataInv
<1>3. \A h \in Filters : h # f => Has(h)'
    <2>1. \A h \in Filters : Has(h)
        BY DEF DataInv
    <2> QED BY <1>1, <1>2, <2>1, HasKeeps
<1>4. Has(f)'
    <2>1. Has(f)
        BY DEF DataInv
    <2> QED BY <1>1, <1>2, <2>1 DEF Has
<1>5. got' \in [Filters -> SUBSET Nat] /\ returned' \in [Filters -> SUBSET Nat]
    BY <1>1 DEF DataInv
<1> QED BY <1>1, <1>3, <1>4, <1>5 DEF DataInv

\* The other steps give no filter anything and take nothing from one.
LEMMA HasAside ==
    ASSUME LifeInv, DataInv, UNCHANGED <<hand, got, returned, sent>>,
           \A h \in Filters : /\ g'[h] = "received" <=> g[h] = "received"
                              /\ made[h] = "done" => made'[h] = "done"
                              /\ h \in listed' => h \in listed \/ made[h] # "done"
    PROVE  DataInv'
<1>1. \A h \in Filters : Has(h) /\ (made[h] # "done" => sent[h] = {})
    BY DEF DataInv, Has
<1>2. \A h \in Filters : Has(h)'
    BY <1>1, HasKeeps
<1> QED BY <1>2 DEF DataInv

\* Every step.
LEMMA DataStep ==
    ASSUME EventsInv, LifeInv, DataInv, [Next]_vars
    PROVE  DataInv'
<1>1. CASE (\E t \in Fed : Emit(t)) \/ UNCHANGED vars
    <2>1. UNCHANGED <<hand, got, returned, sent, g, made, listed>>
        BY <1>1 DEF Emit, vars
    <2> QED BY <2>1, HasAside
<1>2. CASE eventLoop
    <2>1. ASSUME NEW t \in Types, handleEvent(t) PROVE DataInv'
        BY <2>1, HasAside DEF handleEvent
    <2>2. ASSUME NEW f \in Filters, Drain(f) \/ Uninstall(f) PROVE DataInv'
        <3>1. UNCHANGED <<hand, got, returned, sent, g, made, listed>>
            BY <2>2 DEF Drain, Uninstall
        <3> QED BY <3>1, HasAside
    <2>3. ASSUME NEW f \in Filters, Install(f) PROVE DataInv'
        <3>1. /\ UNCHANGED <<hand, got, returned, sent, g, listed>>
              /\ made[f] = "subscribing" /\ made' = [made EXCEPT ![f] = "installed"]
            BY <2>3 DEF Install
        <3>2. \A h \in Filters : made[h] = "done" => made'[h] = "done"
            BY <3>1 DEF LifeInv
        <3> QED BY <3>1, <3>2, HasAside
    <2> QED BY <1>2, <2>1, <2>2, <2>3, ReceiveHas DEF eventLoop
<1>3. CASE Timeouts
    <2>1. UNCHANGED <<hand, got, returned, sent, g, made>> /\ listed' \subseteq listed
        BY <1>3 DEF Timeouts, timeoutLoop, timeoutUnsubscribe, timeoutUnsubscribed
    <2> QED BY <2>1, HasAside
<1>4. ASSUME NEW f \in Filters, Goroutine(f) PROVE DataInv'
    <2>1. CASE Started(f)
        <3>1. /\ UNCHANGED <<hand, got, returned, sent>> /\ made[f] = "installed"
              /\ made' = [made EXCEPT ![f] = "done"] /\ g' = [g EXCEPT ![f] = "select"]
              /\ listed' = listed \cup ({f} \ Pushed)
            BY <2>1 DEF Started
        <3>2. g[f] = "none"
            BY <3>1 DEF LifeInv, Life
        <3>3. \A h \in Filters : /\ g'[h] = "received" <=> g[h] = "received"
                                 /\ made[h] = "done" => made'[h] = "done"
                                 /\ h \in listed' => h \in listed \/ made[h] # "done"
            BY <3>1, <3>2 DEF LifeInv
        <3> QED BY <3>1, <3>3, HasAside
    <2>2. CASE Ended(f)
        <3>1. /\ UNCHANGED <<hand, got, returned, sent, made>> /\ listed' \subseteq listed
              /\ g[f] # "received" /\ g' = [g EXCEPT ![f] = "end"]
            BY <2>2 DEF Ended
        <3>2. \A h \in Filters : g'[h] = "received" <=> g[h] = "received"
            BY <3>1 DEF LifeInv
        <3> QED BY <3>1, <3>2, HasAside
    <2> QED BY <1>4, <2>1, <2>2, StoreHas DEF Goroutine
<1>5. ASSUME NEW f \in Filters, Client(f) PROVE DataInv'
    <2>1. CASE NewFilter(f)
        <3>1. /\ UNCHANGED <<hand, got, returned, sent, g, listed>>
              /\ made[f] = "no" /\ made' = [made EXCEPT ![f] = "subscribing"]
            BY <2>1 DEF NewFilter
        <3>2. \A h \in Filters : made[h] = "done" => made'[h] = "done"
            BY <3>1 DEF LifeInv
        <3> QED BY <3>1, <3>2, HasAside
    <2>2. CASE UninstallFilter(f) \/ Deadline(f)
        <3>1. UNCHANGED <<hand, got, returned, sent, g, made>> /\ listed' \subseteq listed
            BY <2>2 DEF UninstallFilter, Deadline
        <3> QED BY <3>1, HasAside
    <2>3. CASE Disconnect(f)
        <3>1. /\ UNCHANGED <<hand, got, returned, sent, made, listed>>
              /\ g[f] = "select" /\ g' = [g EXCEPT ![f] = "leaving"]
            BY <2>3 DEF Disconnect
        <3>2. \A h \in Filters : g'[h] = "received" <=> g[h] = "received"
            BY <3>1 DEF LifeInv
        <3> QED BY <3>1, <3>2, HasAside
    <2> QED BY <1>5, <2>1, <2>2, <2>3, PollHas DEF Client
<1> QED BY <1>1, <1>2, <1>3, <1>4, <1>5 DEF Next

-----------------------------------------------------------------------------
\* The invariant holds of the node as it starts, and of every state after.
THEOREM FiltersInvariant == Spec => [](EventsInv /\ LifeInv /\ DataInv)
<1>1. ASSUME Init PROVE EventsInv /\ LifeInv /\ DataInv
    <2>1. queue \in [Types -> Seq(Nat)] /\ \A t \in Types : Places(t) = {}
        BY <1>1 DEF Init, Places
    <2>2. loop.ev = 0 /\ loop.to = {} /\ loop.todo = {}
        BY <1>1 DEF Init, Idle
    <2>3. EventsInv
        BY <1>1, <2>1, <2>2, FiltersAssumption DEF Init, EventsInv, Distinct, Broadcasting
    <2>4. LifeInv
        BY <1>1 DEF Init, LifeInv, Life
    <2>5. DataInv
        BY <1>1 DEF Init, DataInv, Has
    <2> QED BY <2>3, <2>4, <2>5
<1>2. EventsInv /\ LifeInv /\ DataInv /\ [Next]_vars => (EventsInv /\ LifeInv /\ DataInv)'
    BY EventsStep, LifeStep, DataStep
<1> QED BY <1>1, <1>2, PTL DEF Spec

\* What the event system holds is well formed whatever the clients do and when: only
\* polled filters are listed or expire, every event a filter holds was emitted, and a filter
\* whose Unsubscribe has returned is under no type of the index.
THEOREM FiltersTypeCorrect == Spec => []TypeOK
<1>1. EventsInv /\ LifeInv /\ DataInv => TypeOK
    <2> SUFFICES ASSUME EventsInv, LifeInv, DataInv PROVE TypeOK
        OBVIOUS
    <2>1. loop.ev \in 0..MaxEvents /\ loop.to \subseteq loop.todo /\ loop.todo \subseteq Filters
        BY FiltersAssumption DEF EventsInv, Broadcasting
    <2>2. \A f \in Filters : sent[f] \subseteq 1..MaxEvents
        BY FiltersAssumption DEF EventsInv
    <2>3. \A f \in Filters : got[f] \cup sent[f] \cup returned[f] \subseteq 1..MaxEvents
        BY <2>2 DEF DataInv, Has
    <2> QED BY <2>1, <2>3 DEF LifeInv, Life, TypeOK
<1> QED BY <1>1, FiltersInvariant, PTL

\* No event handed to a filter is lost or returned twice while the filter is listed, however
\* the event loop, the goroutines, timeoutLoop and the clients are scheduled: each is in the
\* goroutine's hand, waits for the next poll or was returned (NewFilter, GetFilterChanges).
THEOREM FiltersLoseNothing == Spec => []NothingLost
<1>1. DataInv => NothingLost
    BY DEF DataInv, Has, NothingLost
<1> QED BY <1>1, FiltersInvariant, PTL
=============================================================================
