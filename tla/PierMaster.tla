------------------------------ MODULE PierMaster ------------------------------
(***************************************************************************)
(* Main and backup piers of one appchain (pkg/peermgr/piermgr.go and       *)
(* api/grpc/pier_monitor.go): each pier calls the hub node it is connected *)
(* to; a node that does not know a main pier asks the other nodes and      *)
(* waits for an answer or a timeout on a channel of capacity one.          *)
(* The two mutexes of a node are modelled where their scope matters: the   *)
(* one of pierMap makes each of its methods a step, the one of pierChan is *)
(* held by a writer that waits for room in the channel.                    *)
(***************************************************************************)
EXTENDS Integers, FiniteSets

CONSTANTS Node, Pier,
          Home,       \* pier -> the node it is connected to
          Timeout,    \* lease of a main pier
          Timely,     \* answers arrive before askTimeout
          Wants,      \* the calls piers make: "check", "set"
          MaxTime,    \* bound: the clock
          MaxCalls    \* bound: calls

None == "none"
NoPier == [index |-> None, last |-> 0]
Never == -1
Capacity == 1

VARIABLES
    clock, calls,
    status,     \* node -> statusMap: the main pier it knows, or NoPier
    chanMap,    \* node -> the open channel, named by the pier that asks, or None
    buf,        \* pier -> answers in its channel
    stuck,      \* pier -> writers waiting for room in its channel
    closed,     \* pier -> its channel is closed
    rpc,        \* pier -> its call: pc, what it wants, and whether there is a main pier
    asks,       \* requests on their way: <<asking pier, asked node>>
    stale,      \* requests whose handler is about to remove the main pier
    replies,    \* answers on their way
    held,       \* pier -> when it was last confirmed as the main pier, or Never
    panicked    \* nodes that closed a nil channel
vars == <<clock, calls, status, chanMap, buf, stuck, closed, rpc, asks, stale, replies, held, panicked>>
maps == <<clock, calls, status, held>>
chans == <<chanMap, buf, stuck, closed, panicked>>
net == <<asks, stale, replies>>

Idle == [pc |-> "idle", want |-> "check", main |-> FALSE]
Init ==
    /\ clock = 0 /\ calls = 0
    /\ status = [n \in Node |-> NoPier] /\ chanMap = [n \in Node |-> None]
    /\ buf = [p \in Pier |-> 0] /\ stuck = [p \in Pier |-> 0]
    /\ closed = [p \in Pier |-> FALSE]
    /\ rpc = [p \in Pier |-> Idle]
    /\ asks = {} /\ stale = {} /\ replies = {}
    /\ held = [p \in Pier |-> Never]
    /\ panicked = {}

-----------------------------------------------------------------------------
(* pierMap *)
hasPier(n) == status[n] # NoPier
cmpOffset(n) == hasPier(n) /\ Timeout > clock - status[n].last
AnySet(n, p) == TRUE                                \* mutant: setMaster without the check
SetAllowed(n, p) == cmpOffset(n) => status[n].index = p

(* The mutex of pierChan. *)
WriterHolds(n) == \E q \in Pier : Home[q] = n /\ stuck[q] > 0
Lockable(n) == ~WriterHolds(n)
\* A waiting Lock keeps new readers out.
RLockable(n) == ~ /\ WriterHolds(n)
                  /\ \E q \in Pier : Home[q] = n /\ rpc[q].pc \in {"new", "closing"}
checkAddress(n) == chanMap[n] # None

Go(p, pc) == rpc' = [rpc EXCEPT ![p].pc = pc]
Return(p) == rpc' = [rpc EXCEPT ![p] = Idle]
\* What a call does once it knows whether there is a main pier.
Found(p, main) ==
    rpc' = [rpc EXCEPT ![p] = IF main \/ @.want = "check" THEN Idle ELSE [@ EXCEPT !.pc = "set"]]

-----------------------------------------------------------------------------
(* CheckMasterPier and SetMasterPier. *)
checkMasterPier(p, want) ==
    /\ rpc[p].pc = "idle" /\ Home[p] \notin panicked
    /\ calls < MaxCalls /\ calls' = calls + 1
    /\ rpc' = [rpc EXCEPT ![p] = [pc |-> IF hasPier(Home[p]) THEN "has" ELSE "ask",
                                  want |-> want, main |-> FALSE]]
    /\ UNCHANGED <<clock, status, held, chans, net>>
CheckMasterPier(p) == "check" \in Wants /\ checkMasterPier(p, "check")
SetMasterPier(p) == "set" \in Wants /\ checkMasterPier(p, "set")

CheckMaster(p) ==
    /\ rpc[p].pc = "has"
    /\ IF cmpOffset(Home[p]) THEN Found(p, TRUE) ELSE Go(p, "expired")
    /\ UNCHANGED <<maps, chans, net>>
rmPier(p) ==
    /\ rpc[p].pc = "expired"
    /\ status' = [status EXCEPT ![Home[p]] = NoPier]
    /\ Found(p, FALSE)
    /\ UNCHANGED <<clock, calls, held, chans, net>>

\* AskPierMaster.
askCheck(p) ==
    /\ rpc[p].pc = "ask" /\ RLockable(Home[p])
    /\ IF checkAddress(Home[p]) THEN Return(p) ELSE Go(p, "new")
    /\ UNCHANGED <<maps, chans, net>>
newChan(p) ==
    /\ rpc[p].pc = "new" /\ Lockable(Home[p])
    /\ chanMap' = [chanMap EXCEPT ![Home[p]] = p]
    /\ buf' = [buf EXCEPT ![p] = 0] /\ closed' = [closed EXCEPT ![p] = FALSE]
    /\ asks' = asks \cup {<<p, m>> : m \in Node \ {Home[p]}}
    /\ Go(p, "wait")
    /\ UNCHANGED <<maps, stuck, panicked, stale, replies>>
receive(p) ==
    /\ rpc[p].pc = "wait" /\ buf[p] > 0
    /\ IF stuck[p] > 0 THEN stuck' = [stuck EXCEPT ![p] = @ - 1] /\ UNCHANGED buf
       ELSE buf' = [buf EXCEPT ![p] = @ - 1] /\ UNCHANGED stuck
    /\ rpc' = [rpc EXCEPT ![p].pc = "closing", ![p].main = TRUE]
    /\ UNCHANGED <<maps, chanMap, closed, panicked, net>>
receiveClosed(p) ==
    /\ rpc[p].pc = "wait" /\ buf[p] = 0 /\ closed[p]
    /\ Return(p)
    /\ UNCHANGED <<maps, chans, net>>
InFlight(p) == \E m \in Node : <<p, m>> \in asks \cup stale \cup replies
askTimeout(p) ==
    /\ rpc[p].pc = "wait" /\ (Timely => ~InFlight(p) /\ buf[p] = 0)
    /\ Go(p, "closing")
    /\ UNCHANGED <<maps, chans, net>>
closeChan(p) ==
    LET n == Home[p] IN
    /\ rpc[p].pc = "closing" /\ Lockable(n)
    /\ IF chanMap[n] = None
       THEN panicked' = panicked \cup {n} /\ Return(p) /\ UNCHANGED <<chanMap, closed>>
       ELSE /\ closed' = [closed EXCEPT ![chanMap[n]] = TRUE]
            /\ chanMap' = [chanMap EXCEPT ![n] = None]
            /\ Found(p, rpc[p].main)
            /\ UNCHANGED panicked
    /\ UNCHANGED <<maps, buf, stuck, net>>

AskPierMaster(p) ==
    askCheck(p) \/ newChan(p) \/ receive(p) \/ receiveClosed(p) \/ askTimeout(p) \/ closeChan(p)

setMaster(p) ==
    LET n == Home[p] IN
    /\ rpc[p].pc = "set"
    /\ IF SetAllowed(n, p)
       THEN /\ status' = [status EXCEPT ![n] = [index |-> p, last |-> clock]]
            /\ held' = [held EXCEPT ![p] = clock]
       ELSE UNCHANGED <<status, held>>
    /\ Return(p)
    /\ UNCHANGED <<clock, calls, chans, net>>

heartBeat(p) ==
    LET n == Home[p] IN
    /\ IF hasPier(n) /\ status[n].index = p
       THEN /\ status' = [status EXCEPT ![n].last = clock]
            /\ held' = [held EXCEPT ![p] = clock]
       ELSE held' = [held EXCEPT ![p] = Never] /\ UNCHANGED status
    /\ UNCHANGED <<clock, calls, rpc, chans, net>>
HeartBeat(p) == held[p] # Never /\ Home[p] \notin panicked /\ heartBeat(p)

-----------------------------------------------------------------------------
(* The handlers of the other nodes' messages. *)
handleAskPierMaster(p, m) ==
    /\ <<p, m>> \in asks /\ RLockable(m)
    /\ asks' = asks \ {<<p, m>>}
    /\ IF checkAddress(m) \/ cmpOffset(m)
       THEN replies' = replies \cup {<<p, m>>} /\ UNCHANGED stale
       ELSE IF hasPier(m) THEN stale' = stale \cup {<<p, m>>} /\ UNCHANGED replies
       ELSE UNCHANGED <<stale, replies>>
    /\ UNCHANGED <<maps, chans, rpc>>
rmMaster(p, m) ==
    /\ <<p, m>> \in stale
    /\ stale' = stale \ {<<p, m>>}
    /\ status' = [status EXCEPT ![m] = NoPier]
    /\ UNCHANGED <<clock, calls, held, chans, rpc, asks, replies>>

Room(q) == buf[q] < Capacity
writeChan(p, m) ==
    LET n == Home[p] q == chanMap[n] IN
    /\ <<p, m>> \in replies /\ RLockable(n)
    /\ replies' = replies \ {<<p, m>>}
    /\ IF q = None THEN UNCHANGED <<buf, stuck>>
       ELSE IF Room(q) THEN buf' = [buf EXCEPT ![q] = @ + 1] /\ UNCHANGED stuck
       ELSE stuck' = [stuck EXCEPT ![q] = @ + 1] /\ UNCHANGED buf
    /\ UNCHANGED <<maps, chanMap, closed, panicked, rpc, asks, stale>>

Tick ==
    /\ clock < MaxTime /\ clock' = clock + 1
    /\ UNCHANGED <<calls, status, held, chans, rpc, net>>

CallStep(p) ==
    CheckMaster(p) \/ rmPier(p) \/ AskPierMaster(p) \/ setMaster(p)
MessageStep(p, m) == handleAskPierMaster(p, m) \/ rmMaster(p, m) \/ writeChan(p, m)
Next ==
    \/ \E p \in Pier :
          \/ CheckMasterPier(p) \/ SetMasterPier(p) \/ HeartBeat(p) \/ CallStep(p)
          \/ \E m \in Node : MessageStep(p, m)
    \/ Tick
Spec == Init /\ [][Next]_vars
\* A call in progress and the handler of a received message run on.
FairSpec ==
    /\ Spec
    /\ \A p \in Pier : WF_vars(CallStep(p))
    /\ WF_vars(\E p \in Pier, m \in Node : MessageStep(p, m))

-----------------------------------------------------------------------------
(* Properties. *)
\* Types of the state; a channel holds at most one answer.
TypeOK ==
    /\ clock \in 0..MaxTime /\ calls \in 0..MaxCalls
    /\ \A n \in Node : status[n] = NoPier \/ status[n] \in [index : Pier, last : 0..MaxTime]
    /\ chanMap \in [Node -> Pier \cup {None}]
    /\ buf \in [Pier -> 0..Capacity]
    /\ asks \cup stale \cup replies \subseteq Pier \X Node

\* A node never replaces a main pier that is alive by another one (setMaster),
\* whatever calls and messages of other nodes arrive in between.
KeepsMaster ==
    \A n \in Node : cmpOffset(n) /\ status'[n] # NoPier => status'[n].index = status[n].index
=============================================================================
