---------------------------- MODULE TssSigning ----------------------------
(***************************************************************************)
(* Threshold signatures (api/grpc/sign.go, internal/coreapi/broker.go, the *)
(* handlers of pkg/peermgr/handle.go and pkg/tssmgr/keysign.go).           *)
(*                                                                         *)
(* A client asks a node for the signature of an IBTP.  The node chooses a  *)
(* quorum of the parties of the pool key at random, asks them to sign, and *)
(* signs itself if it was chosen.  A party that has signed broadcasts the  *)
(* signature to every node, and every request that listens at a node hears *)
(* every signature.  The cryptographic round is an external library: a     *)
(* round of honest parties that all take part succeeds, any other fails    *)
(* and may blame parties that were faulty or did not take part.            *)
(***************************************************************************)
EXTENDS Naturals, Sequences, FiniteSets, FiniteSetsExt, SequencesExt

CONSTANTS
  Peers,     \* the nodes of the network
  Faulty,    \* the peers that spoil a round and answer with nonsense
  Requests,  \* the requests of clients, one IBTP each
  Home,      \* the node a request is made at
  Info,      \* what a node stores: the parties of the pool key, {} for nothing
  Quorum,    \* Order.Quorum()
  Blames,    \* TRUE: a round that fails always blames somebody
  Lossy,     \* TRUE: a message of the network may be lost
  NoOne      \* no request

TssAssumption ==
  /\ Faulty \subseteq Peers /\ Home \in [Requests -> Peers] /\ NoOne \notin Requests
  /\ Info \in [Peers -> SUBSET Peers] /\ Quorum \in Nat \ {0}

VARIABLES
  req,       \* the locals of GetTssSigns
  round,     \* the round a request has started: who is asked, who takes part
  answers,   \* signatures on the way to a node
  produced   \* history: the rounds that have succeeded

vars == <<req, round, answers, produced>>

Idle == [state |-> "idle", all |-> <<>>, signers |-> {}, remote |-> "none", result |-> <<>>,
         local |-> "none", sign |-> FALSE, signErr |-> FALSE, culprits |-> <<>>, blamed |-> {},
         reply |-> "none", of |-> NoOne]

NoRound == [asked |-> {}, joined |-> {}, open |-> FALSE]

Init ==
  /\ req = [r \in Requests |-> Idle]
  /\ round = [r \in Requests |-> NoRound]
  /\ answers = {} /\ produced = {}

Reply(r, what, of) == req' = [req EXCEPT ![r].state = "done", ![r].reply = what, ![r].of = of]

----------------------------------------------------------------------------
(* getTssInfo: the parties this node stores, in the order of a map, or the *)
(* ones most of the other peers store, in a fixed order.                   *)

\* The sets of parties that as many of the answering peers store as any other.
MostStored(from) ==
  LET infos == {Info[p] : p \in from}
      freq(i) == Cardinality({p \in from : Info[p] = i})
  IN {i \in infos : \A j \in infos : freq(j) <= freq(i)}

getConsensusTssInfoParties(from) ==
  {i \in MostStored(from) : Cardinality({p \in from : Info[p] = i}) >= Quorum}

FetchTssInfoFromOtherPeers(n) ==
  {from \in SUBSET {p \in Peers \ {n} : Info[p] # {}} :
      Lossy \/ from = {p \in Peers \ {n} : Info[p] # {}}}

\* Every set of parties the request may go on with.
getTssInfo(n) ==
  IF Info[n] # {} THEN {Info[n]}
  ELSE UNION {getConsensusTssInfoParties(from) : from \in FetchTssInfoFromOtherPeers(n)}

GetTssSigns(r) ==
  /\ req[r].state = "idle"
  /\ \E i \in getTssInfo(Home[r]) : \E all \in SetToSeqs(i) :
       req' = [req EXCEPT ![r].state = "loop", ![r].all = all]
  /\ UNCHANGED <<round, answers, produced>>

NoInfo(r) ==
  /\ req[r].state = "idle"
  /\ Info[Home[r]] = {}
  /\ \E from \in FetchTssInfoFromOtherPeers(Home[r]) : getConsensusTssInfoParties(from) = {}
  /\ Reply(r, "noinfo", NoOne)
  /\ UNCHANGED <<round, answers, produced>>

----------------------------------------------------------------------------
(* One turn of the loop.                                                   *)

TooFewSigners(r) ==
  /\ req[r].state = "loop"
  /\ Len(req[r].all) < Quorum
  /\ Reply(r, "few", NoOne)
  /\ UNCHANGED <<round, answers, produced>>

randomSignerRequest(all) == kSubset(Quorum, Range(all))

\* KeySign of a node that stores nothing fails at once, without culprits.
getLocalTssSign(r, signers) ==
  CASE Home[r] \notin signers ->   \* notifyTssNotParties: the round is over for this node
         [local |-> "over", err |-> FALSE, joins |-> {}]
    [] Home[r] \in signers /\ Info[Home[r]] = {} ->
         [local |-> "over", err |-> TRUE, joins |-> {}]
    [] OTHER -> [local |-> "signing", err |-> FALSE, joins |-> {Home[r]}]

ChooseSigners(r) ==
  /\ req[r].state = "loop"
  /\ Len(req[r].all) >= Quorum
  /\ \E signers \in randomSignerRequest(req[r].all) :
       LET here == getLocalTssSign(r, signers) IN
       /\ req' = [req EXCEPT ![r] = [@ EXCEPT !.state = "run", !.signers = signers,
                    !.remote = "fetch", !.result = <<>>, !.local = here.local,
                    !.sign = FALSE, !.signErr = here.err, !.culprits = <<>>]]
       /\ round' = [round EXCEPT ![r] = [asked |-> {}, joined |-> here.joins, open |-> TRUE]]
  /\ UNCHANGED <<answers, produced>>

\* The goroutine of getRemoteTssSign: the requests are sent, some may be lost.
FetchSignsFromOtherPeers(r) ==
  /\ req[r].remote = "fetch"
  /\ \E lost \in SUBSET (req[r].signers \ {Home[r]}) :
       /\ lost # {} => Lossy
       /\ round' = [round EXCEPT ![r].asked = (req[r].signers \ {Home[r]}) \ lost]
  /\ req' = [req EXCEPT ![r].remote = "fetched"]
  /\ UNCHANGED <<answers, produced>>

SubscribeTssSignRes(r) ==
  /\ req[r].remote = "fetched"
  /\ req' = [req EXCEPT ![r].remote = "listens"]
  /\ UNCHANGED <<round, answers, produced>>

KeySignTimeout(r) ==
  /\ req[r].remote = "listens"
  /\ req' = [req EXCEPT ![r].remote = "over"]
  /\ UNCHANGED <<round, answers, produced>>

\* A peer takes part in the round it was asked for, if it stores the parties.
handleFetchIBTPTssSignMessage(r, p) ==
  /\ round[r].open /\ p \in round[r].asked
  /\ round' = [round EXCEPT ![r].asked = @ \ {p},
                            ![r].joined = IF req[r].signers \subseteq Info[p] THEN @ \cup {p} ELSE @]
  /\ UNCHANGED <<req, answers, produced>>

----------------------------------------------------------------------------
(* KeySign: the round ends for all who take part in it.                    *)

Homes == {Home[r] : r \in Requests}

Signed(r) == [by : round[r].joined \ {Home[r]}, to : Homes, of : {r}]

KeySigned(r) ==
  /\ round[r].open /\ round[r].joined = req[r].signers
  /\ req[r].signers \cap Faulty = {}
  /\ round' = [round EXCEPT ![r].open = FALSE]
  /\ answers' = answers \cup {a \in Signed(r) : a.by # a.to}
  /\ req' = IF Home[r] \in req[r].signers
            THEN [req EXCEPT ![r].local = "over", ![r].sign = TRUE] ELSE req
  /\ produced' = produced \cup {<<r, req[r].signers>>}

\* Those a failed round may blame.
Suspects(r) == req[r].signers \cap (Faulty \cup (Peers \ round[r].joined))

KeySignFails(r) ==
  /\ round[r].open /\ round[r].joined # {}
  /\ Suspects(r) # {}
  /\ \E blame \in SUBSET Suspects(r) : \E culprits \in SetToSeqs(blame) :
       /\ Blames => blame # {}
       /\ req' = IF Home[r] \in round[r].joined
                 THEN [req EXCEPT ![r].local = "over", ![r].signErr = TRUE, ![r].culprits = culprits]
                 ELSE req
  /\ round' = [round EXCEPT ![r].open = FALSE]
  \* a faulty party that was asked answers with what no key verifies
  /\ answers' = answers \cup [by : Faulty \cap round[r].joined, to : Homes, of : {NoOne}]
  /\ UNCHANGED produced

AcceptsAnything(a) == TRUE

VerifyTssSigns(a) == a.of # NoOne

\* The feed hands a signature to every request that listens at the node.
HearSignature(a) ==
  /\ a \in answers
  /\ answers' = answers \ {a}
  /\ req' = [r \in Requests |->
       IF Home[r] = a.to /\ req[r].remote = "listens" /\ VerifyTssSigns(a)
       THEN [req[r] EXCEPT !.remote = "over", !.result = <<a.of>>]
       ELSE req[r]]
  /\ UNCHANGED <<round, produced>>

----------------------------------------------------------------------------
(* The end of a turn: a signature of another peer, this node's own, or the *)
(* culprits are taken out and the loop goes round again.                   *)

\* append(signersALL[:i-1], signersALL[i+1:]...), with i counted from 0.
WithoutCulprit(all, c) ==
  LET at == {i \in 1..Len(all) : all[i] = c}
      i == CHOOSE i \in at : TRUE
  IN CASE at = {} -> all
       [] at = {1} -> Tail(all)
       [] OTHER -> SubSeq(all, 1, i - 2) \o SubSeq(all, i + 1, Len(all))

HandleCulprits(all, culprits) == FoldLeft(WithoutCulprit, all, culprits)

\* convertSignData(nil) indexes an empty slice: the node stops.
Stop(n) ==
  req' = [r \in Requests |-> IF Home[r] = n /\ req[r].state # "done"
                             THEN [req[r] EXCEPT !.state = "done", !.reply = "stopped"] ELSE req[r]]

EndOfTurn(r) ==
  /\ req[r].state = "run" /\ req[r].remote = "over" /\ req[r].local = "over"
  /\ \/ req[r].result # <<>> /\ Reply(r, "sign", Head(req[r].result))
     \/ req[r].result = <<>> /\ ~req[r].signErr /\ req[r].sign /\ Reply(r, "sign", r)
     \/ req[r].result = <<>> /\ ~req[r].signErr /\ ~req[r].sign /\ Stop(Home[r])
     \/ /\ req[r].result = <<>> /\ req[r].signErr
        /\ req' = [req EXCEPT ![r].state = "loop", ![r].remote = "none", ![r].local = "none",
                     ![r].all = HandleCulprits(@, req[r].culprits),
                     ![r].blamed = @ \cup Range(req[r].culprits)]
  /\ UNCHANGED <<round, answers, produced>>

----------------------------------------------------------------------------
Own(r) == \/ TooFewSigners(r) \/ ChooseSigners(r) \/ FetchSignsFromOtherPeers(r)
          \/ SubscribeTssSignRes(r) \/ KeySignTimeout(r) \/ EndOfTurn(r)

Next ==
  \/ \E r \in Requests :
       \/ GetTssSigns(r) \/ NoInfo(r) \/ Own(r) \/ KeySigned(r) \/ KeySignFails(r)
       \/ \E p \in Peers : handleFetchIBTPTssSignMessage(r, p)
  \/ \E a \in answers : HearSignature(a)

Spec == Init /\ [][Next]_vars

\* The goroutines of a request run on and its timer expires; a round ends,
\* since its library has a timeout of its own.
FairSpec ==
  /\ Spec
  /\ \A r \in Requests : WF_vars(Own(r)) /\ WF_vars(KeySigned(r) \/ KeySignFails(r))

----------------------------------------------------------------------------
(* Properties.                                                             *)

\* Every variable keeps its type; a request counts on as many signers as it chose.
TypeOK ==
  /\ \A r \in Requests :
       /\ req[r].state \in {"idle", "loop", "run", "done"} /\ req[r].all \in Seq(Peers)
       /\ req[r].remote \in {"none", "fetch", "fetched", "listens", "over"}
       /\ req[r].local \in {"none", "signing", "over"}
       /\ req[r].signers \subseteq Peers /\ Range(req[r].culprits) \subseteq req[r].signers
       /\ req[r].state = "run" => Cardinality(req[r].signers) = Quorum
       /\ req[r].reply \in {"none", "sign", "few", "noinfo", "stopped"}
       /\ round[r].asked \subseteq Peers /\ round[r].joined \subseteq req[r].signers
  /\ \A a \in answers : a.by \in Peers /\ a.to \in Homes /\ a.of \in Requests \cup {NoOne}

\* A client is given only signatures that a round of at least a quorum of parties, none of
\* them faulty, has made (VerifyTssSigns in getRemoteTssSign).
Genuine ==
  \A r \in Requests : req[r].reply = "sign" =>
     \E s \in SUBSET Peers : /\ <<req[r].of, s>> \in produced
                             /\ Cardinality(s) >= Quorum /\ s \cap Faulty = {}

\* A node that stores nothing works with parties only if a quorum of the others stores
\* just these (getConsensusTssInfoParties).
InfoAgreed ==
  \A r \in Requests : Info[Home[r]] = {} /\ req[r].state \in {"loop", "run"} =>
     \E i \in SUBSET Peers : /\ Range(req[r].all) \subseteq i
                             /\ Cardinality({p \in Peers : Info[p] = i}) >= Quorum

=============================================================================
