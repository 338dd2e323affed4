----------------------------- MODULE EventFilters -----------------------------
(* The filters and subscriptions of the Ethereum API: the event loop that     *)
(* installs and removes them and hands events to them over unbuffered         *)
(* channels, the goroutine of every filter, the loop that removes filters     *)
(* nobody has asked for a while, and clients that create, poll and remove     *)
(* them.  The sections under filtersMu wait for nothing and are single steps. *)
EXTENDS Integers, Sequences, FiniteSets

CONSTANTS
    Filters,      \* polled filters and pushed subscriptions, once each
    Pushed,       \* those of a connection: NewHeads, Logs, NewPendingTransactions
    TypeOf,       \* what each of them subscribes to
    MaxEvents     \* bound: events of the feeds

VARIABLES
    queue,     \* per type, the events in txsCh, logsCh and chainCh
    index,     \* filters the event loop knows, under each type
    loop,      \* the event being broadcast, whom it waits for, who is left
    made,      \* how far the creation of a filter is
    g,         \* the goroutine of a filter
    hand,      \* what that goroutine has received and not stored yet
    listed,    \* api.filters
    timer,     \* filters whose deadline has passed
    got,       \* what a filter holds for its next poll
    unsub,     \* Unsubscribe of a filter: not called, waiting, returned
    expired,   \* what timeoutLoop has still to unsubscribe
    sent, returned,  \* history: what was handed to a filter, what its client has
    emitted    \* events of the feeds so far

vars == <<queue, index, loop, made, g, hand, listed, timer, got, unsub, expired, sent, returned, emitted>>

Types == {"txs", "logs", "heads", "pending", "mined"}
Idle == [ev |-> 0, to |-> {}, todo |-> {}]
Fed == {"txs", "logs", "heads"}
Polled == Filters \ Pushed

ASSUME FiltersAssumption == TypeOf \in [Filters -> Types] /\ MaxEvents \in Nat

Init ==
    /\ queue = [t \in Types |-> <<>>]
    /\ index = {}
    /\ loop = Idle
    /\ made = [f \in Filters |-> "no"]
    /\ g = [f \in Filters |-> "none"]
    /\ hand = [f \in Filters |-> 0]
    /\ listed = {} /\ timer = {} /\ expired = {}
    /\ got = [f \in Filters |-> {}]
    /\ unsub = [f \in Filters |-> "no"]
    /\ sent = [f \in Filters |-> {}]
    /\ returned = [f \in Filters |-> {}]
    /\ emitted = 0

-----------------------------------------------------------------------------
(* The event loop.                                                            *)

IndexTypes(f) == IF TypeOf[f] = "mined" THEN {"logs", "pending"} ELSE {TypeOf[f]}

\* The order of the map is any; the loop waits until the one it has come to reads.
Broadcast(e, todo) ==
    IF todo = {} THEN loop' = Idle
    ELSE \E f \in todo : loop' = [ev |-> e, to |-> {f}, todo |-> todo]

handleEvent(t) ==
    /\ loop = Idle
    /\ queue[t] # <<>>
    /\ Broadcast(Head(queue[t]), {f \in Filters : <<t, f>> \in index})
    /\ queue' = [queue EXCEPT ![t] = Tail(@)]
    /\ UNCHANGED <<index, made, g, hand, listed, timer, got, unsub, expired, sent, returned>>

\* The goroutine of the filter takes the event ...
Receive(f) ==
    /\ f \in loop.to
    /\ g[f] = "select"
    /\ hand' = [hand EXCEPT ![f] = loop.ev]
    /\ g' = [g EXCEPT ![f] = "received"]
    /\ sent' = [sent EXCEPT ![f] = @ \cup {loop.ev}]
    /\ Broadcast(loop.ev, loop.todo \ {f})
    /\ UNCHANGED <<queue, index, made, listed, timer, got, unsub, expired, returned>>

DrainsWhenDone(f) ==
    /\ f \in loop.to
    /\ unsub[f] = "done"
    /\ Broadcast(loop.ev, loop.todo \ {f})
    /\ UNCHANGED <<queue, index, made, g, hand, listed, timer, got, unsub, expired, sent, returned>>

\* ... or Unsubscribe does, while it waits for the loop to take its request.
Drain(f) ==
    /\ f \in loop.to
    /\ unsub[f] = "asking"
    /\ Broadcast(loop.ev, loop.todo \ {f})
    /\ UNCHANGED <<queue, index, made, g, hand, listed, timer, got, unsub, expired, sent, returned>>

Install(f) ==
    /\ loop = Idle
    /\ made[f] = "subscribing"
    /\ index' = index \cup (IndexTypes(f) \X {f})
    /\ made' = [made EXCEPT ![f] = "installed"]
    /\ UNCHANGED <<queue, loop, g, hand, listed, timer, got, unsub, expired, sent, returned>>

Uninstall(f) ==
    /\ loop = Idle
    /\ unsub[f] = "asking"
    /\ index' = index \ (IndexTypes(f) \X {f})
    /\ unsub' = [unsub EXCEPT ![f] = "done"]
    /\ UNCHANGED <<queue, loop, made, g, hand, listed, timer, got, expired, sent, returned>>

-----------------------------------------------------------------------------
(* Creating a filter: subscribe, then list it, then start its goroutine.      *)

NewFilter(f) ==
    /\ made[f] = "no"
    /\ made' = [made EXCEPT ![f] = "subscribing"]
    /\ UNCHANGED <<queue, index, loop, g, hand, listed, timer, got, unsub, expired, sent, returned>>

StartsFirst(f) ==
    /\ made[f] \in {"installed", "running"}
    /\ IF made[f] = "installed"
       THEN made' = [made EXCEPT ![f] = "running"] /\ g' = [g EXCEPT ![f] = "select"] /\ UNCHANGED listed
       ELSE made' = [made EXCEPT ![f] = "done"] /\ listed' = listed \cup ({f} \ Pushed) /\ UNCHANGED g
    /\ UNCHANGED <<queue, index, loop, hand, timer, got, unsub, expired, sent, returned>>

Started(f) ==
    /\ made[f] = "installed"
    /\ made' = [made EXCEPT ![f] = "done"]
    /\ g' = [g EXCEPT ![f] = "select"]
    /\ listed' = listed \cup ({f} \ Pushed)
    /\ UNCHANGED <<queue, index, loop, hand, timer, got, unsub, expired, sent, returned>>

\* The goroutine of a polled filter stores what it has received, if the filter is
\* still there; that of a connection sends it.
Store(f) ==
    /\ g[f] = "received"
    /\ g' = [g EXCEPT ![f] = "select"]
    /\ hand' = [hand EXCEPT ![f] = 0]
    /\ got' = [got EXCEPT ![f] = @ \cup ({hand[f]} \cap IF f \in listed THEN 1..MaxEvents ELSE {})]
    /\ returned' = [returned EXCEPT ![f] = IF f \in Pushed THEN @ \cup {hand[f]} ELSE @]
    /\ UNCHANGED <<queue, index, loop, made, listed, timer, unsub, expired, sent>>

\* err was closed.
Ended(f) ==
    /\ g[f] = IF f \in Pushed THEN "leaving" ELSE "select"
    /\ unsub[f] = "done"
    /\ g' = [g EXCEPT ![f] = "end"]
    /\ listed' = listed \ {f}
    /\ UNCHANGED <<queue, index, loop, made, hand, timer, got, unsub, expired, sent, returned>>

\* The client of a subscription unsubscribes or its connection drops: its own
\* goroutine calls Unsubscribe.
Disconnect(f) ==
    /\ f \in Pushed
    /\ g[f] = "select"
    /\ g' = [g EXCEPT ![f] = "leaving"]
    /\ unsub' = [unsub EXCEPT ![f] = "asking"]
    /\ UNCHANGED <<queue, index, loop, made, hand, listed, timer, got, expired, sent, returned>>

-----------------------------------------------------------------------------
(* Polling, removing, and forgetting filters.                                 *)

\* A deadline that has passed is taken back when timeoutLoop has not seen it yet.
GetFilterChanges(f) ==
    /\ f \in listed
    /\ returned' = [returned EXCEPT ![f] = @ \cup got[f]]
    /\ got' = [got EXCEPT ![f] = {}]
    /\ timer' = timer \ {f}
    /\ UNCHANGED <<queue, index, loop, made, g, hand, listed, unsub, expired, sent>>

UninstallFilter(f) ==
    /\ f \in listed
    /\ listed' = listed \ {f}
    /\ unsub' = [unsub EXCEPT ![f] = "asking"]
    /\ UNCHANGED <<queue, index, loop, made, g, hand, timer, got, expired, sent, returned>>

Deadline(f) ==
    /\ f \in listed \ timer
    /\ timer' = timer \cup {f}
    /\ UNCHANGED <<queue, index, loop, made, g, hand, listed, got, unsub, expired, sent, returned>>

\* One round of timeoutLoop collects what has expired ...
timeoutLoop ==
    /\ expired = {}
    /\ listed \cap timer # {}
    /\ expired' = listed \cap timer
    /\ listed' = listed \ timer
    /\ UNCHANGED <<queue, index, loop, made, g, hand, timer, got, unsub, sent, returned>>

\* ... and unsubscribes one after the other.
timeoutUnsubscribe(f) ==
    /\ f \in expired
    /\ unsub[f] = "no"
    /\ \A h \in expired : unsub[h] # "asking"
    /\ unsub' = [unsub EXCEPT ![f] = "asking"]
    /\ UNCHANGED <<queue, index, loop, made, g, hand, listed, timer, got, expired, sent, returned>>

timeoutUnsubscribed(f) ==
    /\ f \in expired
    /\ unsub[f] = "done"
    /\ expired' = expired \ {f}
    /\ UNCHANGED <<queue, index, loop, made, g, hand, listed, timer, got, unsub, sent, returned>>

-----------------------------------------------------------------------------
\* The feeds of the executor and of the mempool; nothing feeds pending logs.
Emit(t) ==
    /\ emitted < MaxEvents
    /\ emitted' = emitted + 1
    /\ queue' = [queue EXCEPT ![t] = Append(@, emitted')]
    /\ UNCHANGED <<index, loop, made, g, hand, listed, timer, got, unsub, expired, sent, returned>>

eventLoop == \/ \E t \in Types : handleEvent(t)
             \/ \E f \in Filters : Receive(f) \/ Drain(f) \/ Install(f) \/ Uninstall(f)

Goroutine(f) == Started(f) \/ Store(f) \/ Ended(f)

Timeouts == timeoutLoop \/ \E f \in Filters : timeoutUnsubscribe(f) \/ timeoutUnsubscribed(f)

Client(f) ==
    \/ NewFilter(f) \/ GetFilterChanges(f) \/ UninstallFilter(f) \/ Disconnect(f) \/ Deadline(f)

Next ==
    \/ \E t \in Fed : Emit(t)
    \/ UNCHANGED emitted /\ (eventLoop \/ Timeouts \/ \E f \in Filters : Goroutine(f) \/ Client(f))

Spec == Init /\ [][Next]_vars

\* The goroutines run on; clients need not do anything.
Fairness ==
    /\ WF_vars(eventLoop /\ UNCHANGED emitted)
    /\ WF_vars(Timeouts /\ UNCHANGED emitted)
    /\ \A f \in Filters : WF_vars(Goroutine(f) /\ UNCHANGED emitted)

FairSpec == Spec /\ Fairness

-----------------------------------------------------------------------------
TypeOK ==
    /\ index \subseteq Types \X Filters
    /\ loop.ev \in 0..MaxEvents /\ loop.to \subseteq loop.todo /\ loop.todo \subseteq Filters
    /\ listed \subseteq Polled /\ expired \subseteq Polled
    /\ \A f \in Filters :
         /\ got[f] \cup sent[f] \cup returned[f] \subseteq 1..MaxEvents
         /\ unsub[f] = "done" => \A t \in Types : <<t, f>> \notin index

\* Every event handed to a polled filter that is still listed is in the
\* goroutine's hand, waits for the next poll or was returned by exactly one poll
\* (NewFilter lists the filter before its goroutine reads; GetFilterChanges
\* takes what it returns); a subscription forwards what it reads.
NothingLost ==
    \A f \in Filters :
        /\ made[f] = "done" /\ f \in listed \cup Pushed =>
              sent[f] \subseteq returned[f] \cup got[f] \cup {hand[f]}
        /\ got[f] \cap returned[f] = {}

\* An event that the loop has taken up for a filter that is not being removed, and that
\* has not reached it yet.
Awaited(f, e) == loop.ev = e /\ f \in loop.todo /\ e \notin sent[f] /\ unsub[f] = "no"
=============================================================================
