-------------------------------- MODULE Broker --------------------------------
(***************************************************************************)
(* The broker contract of the hub (inter_broker.go), through which         *)
(* contracts of the hub send and receive interchain calls, composed with   *)
(* the counters of the interchain manager (interchain.go).  A call from    *)
(* one contract to another (bolt_stub.go, CrossInvoke) runs on a virtual   *)
(* machine without an EVM and on the contract object the executor          *)
(* registered at start, whose service cache is nil until InitServiceCache. *)
(***************************************************************************)
EXTENDS Naturals, FiniteSets

CONSTANTS HubService,   \* services that are contracts of the hub
          AppService,   \* services of appchains of the hub
          Unordered,    \* the appchain services that are not ordered
          ByEVM,        \* whether EVM contracts emit through a log
          MaxIndex      \* bound on the counters

ASSUME BrokerAssumption == HubService \cap AppService = {} /\ MaxIndex \in Nat

Service == HubService \cup AppService
Pair == {p \in Service \X Service : p[1] # p[2]}

VARIABLES
    outCounter,  \* OutCounter of the broker, by pair
    inCounter,   \* InCounter of the broker, by pair
    outMessage,  \* the keys of the stored out messages: <<pair, index>>
    interchain,  \* InterchainCounter of the interchain manager, by pair
    ran,         \* calls that reached the EVM of the hub, by pair
    available,   \* services the service manager reports available
    cacheSet     \* the registered interchain contract has a service cache
vars == <<outCounter, inCounter, outMessage, interchain, ran, available, cacheSet>>

Init ==
    /\ outCounter = [p \in Pair |-> 0] /\ inCounter = [p \in Pair |-> 0]
    /\ outMessage = {} /\ interchain = [p \in Pair |-> 0]
    /\ ran = [p \in Pair |-> 0]
    /\ available = Service /\ cacheSet = FALSE

incCounter(counter, p) == [counter EXCEPT ![p] = @ + 1]

\* checkIBTP on a request whose source is local: the source is available, and
\* the index follows the last one unless the target takes calls out of order.
checkIBTP(p, index) ==
    /\ p[1] \in available
    /\ \/ p[2] \in available \cap Unordered
       \/ index = interchain[p] + 1

\* CrossInvoke of HandleIBTPData: reading the service cache of the registered
\* contract panics while it is nil, which Run turns into an error.
HandleIBTPData(p, index) == cacheSet /\ checkIBTP(p, index)

\* ProcessIBTP counts the request of pair p.
ProcessIBTP(p) == interchain' = incCounter(interchain, p)

\* EmitInterchain accepted.  wellFormed: three functions are named.
EmitAccepted(p, wellFormed) ==
    LET index == outCounter[p] + 1 IN
    /\ wellFormed /\ HandleIBTPData(p, index)
    /\ outCounter' = incCounter(outCounter, p)
    /\ outMessage' = outMessage \cup {<<p, index>>}
    /\ ProcessIBTP(p)

\* The mutant never reverts.
NeverReverts(p, wellFormed, evm) ==
    /\ ~(wellFormed /\ HandleIBTPData(p, outCounter[p] + 1))
    /\ outCounter' = incCounter(outCounter, p)
    /\ UNCHANGED <<outMessage, interchain>>

\* EmitInterchain refused: the executor reverts a transaction of the broker,
\* but not what evmInterchain ran for the log of an EVM transaction.
EmitRefused(p, wellFormed, evm) ==
    LET index == outCounter[p] + 1 IN
    /\ ~(wellFormed /\ HandleIBTPData(p, index))
    /\ IF evm
       THEN /\ outCounter' = incCounter(outCounter, p)
            /\ outMessage' = outMessage \cup IF wellFormed THEN {<<p, index>>} ELSE {}
       ELSE UNCHANGED <<outCounter, outMessage>>
    /\ UNCHANGED interchain

EmitInterchain(p, wellFormed, evm) ==
    /\ p[1] \in HubService
    /\ evm => ByEVM
    /\ outCounter[p] < MaxIndex
    /\ \/ EmitAccepted(p, wellFormed)
       \/ EmitRefused(p, wellFormed, evm)
    /\ UNCHANGED <<inCounter, ran, available, cacheSet>>

\* InvokeInterchain: the call is counted first, then handed to the EVM of the
\* virtual machine it runs on; without one the call panics and nothing is undone.
InvokeInterchain(p, evm) ==
    /\ inCounter' = incCounter(inCounter, p)
    /\ ran' = IF evm THEN incCounter(ran, p) ELSE ran

\* HandleIBTP on a request of an appchain, brought by a pier.  ProcessIBTP
\* calls the broker by CrossInvoke, whose machine has no EVM.
HandleIBTP(p, index) ==
    /\ p[1] \in AppService /\ index \in 1..MaxIndex
    /\ interchain[p] < MaxIndex
    /\ checkIBTP(p, index)
    /\ ProcessIBTP(p)
    /\ IF p[2] \in HubService THEN InvokeInterchain(p, FALSE)
                              ELSE UNCHANGED <<inCounter, ran>>
    /\ UNCHANGED <<outCounter, outMessage, available, cacheSet>>

\* A transaction that calls InitServiceCache fails, as the method has no
\* result to return, after it gave the registered contract a cache.
InitServiceCache ==
    /\ cacheSet' = TRUE
    /\ UNCHANGED <<outCounter, inCounter, outMessage, interchain, ran, available>>

\* A restart registers new contract objects.
Restart ==
    /\ cacheSet' = FALSE
    /\ UNCHANGED <<outCounter, inCounter, outMessage, interchain, ran, available>>

\* The service manager pauses, freezes, activates services.
Govern(s) ==
    /\ available' = IF s \in available THEN available \ {s} ELSE available \cup {s}
    /\ UNCHANGED <<outCounter, inCounter, outMessage, interchain, ran, cacheSet>>

Next ==
    \/ \E p \in Pair, wellFormed, evm \in BOOLEAN : EmitInterchain(p, wellFormed, evm)
    \/ \E p \in Pair, index \in 1..MaxIndex : HandleIBTP(p, index)
    \/ InitServiceCache
    \/ Restart
    \/ \E s \in Service : Govern(s)
Spec == Init /\ [][Next]_vars

-----------------------------------------------------------------------------
\* Types.
TypeOK ==
    /\ outCounter \in [Pair -> 0..MaxIndex] /\ inCounter \in [Pair -> 0..MaxIndex]
    /\ interchain \in [Pair -> 0..MaxIndex] /\ ran \in [Pair -> 0..MaxIndex]
    /\ outMessage \subseteq Pair \X (1..MaxIndex)
    /\ available \subseteq Service /\ cacheSet \in BOOLEAN

\* Broker and interchain manager number the calls of a hub contract by two counters;
\* only while they agree does the next emission pass checkIBTP.  The broker counts what
\* enters the hub by a counter of its own, before it knows whether the call runs; it
\* agrees with the interchain manager's.
InStep ==
    \A p \in Pair :
        /\ p[1] \in HubService => outCounter[p] = interchain[p]
        /\ inCounter[p] = IF p[1] \in AppService /\ p[2] \in HubService
                          THEN interchain[p] ELSE 0
=============================================================================
