-------------------------------- MODULE Naming ---------------------------------
(***************************************************************************)
(* The name service: domains, their prices, expiry and sub-domains         *)
(* (contracts/service_registry.go), what a domain resolves to              *)
(* (service_resolver.go), and the data genesis.go gives both.              *)
(*                                                                         *)
(* A first-level domain n.hub is n, a second-level domain s.n.hub is       *)
(* <<s, n>>; deeper domains, which can be allocated and never deleted, are *)
(* left out.  Times and amounts are uint64 and wrap at Word.  There is one *)
(* resolver, the one genesis.go admits.                                    *)
(***************************************************************************)
EXTENDS Governance

CONSTANTS Account, Level1, Son, ServiceName,
          Short,        \* the names of Level1 with fewer than five letters
          Duration, Price, TokenPrice, Scale,
          Balance,      \* balance of every account at the start
          GRACEPERIOD, Start,
          MaxTime, MaxProposals,  \* bounds
          None

VARIABLES book,   \* proposals to allocate sub-domains
          now,    \* the timestamp of the block, in seconds
          price,  \* PriceLenLevel and BitxhubTokenPrice
          bal,    \* balances
          expiry, \* Level1Domain
          rec,    \* ServDomainRec of every domain; owner None if there is none
          pre,    \* PreRegister
          data,   \* ServDomainData: the service name, None if there is none
          rev     \* ReverseMap

vars == <<book, now, price, bal, expiry, rec, pre, data, rev>>
registry == <<expiry, rec, pre, bal, price, book>>
resolver == <<data, rev>>

Second == Son \X Level1
Domain == Level1 \cup Second
NoRecord == [owner |-> None, sub |-> {}, review |-> {}]

-----------------------------------------------------------------------------
(* Prices.                                                                 *)

attoCYNToWei(amount) == ((amount * Scale) % Word) \div price.token

getPrice(isShort, d) ==
    attoCYNToWei(((IF isShort THEN price.short ELSE price.long) * d) % Word)

Pay(a, cost) == bal[a] >= cost /\ bal' = [bal EXCEPT ![a] = @ - cost]

SetPriceLevel(a, short, long) ==
    /\ a \in Supers
    /\ price' = [price EXCEPT !.short = short, !.long = long]
    /\ UNCHANGED <<book, now, bal, expiry, rec, pre, resolver>>

SetTokenPrice(a, t) ==
    /\ a \in Supers /\ t # 0
    /\ price' = [price EXCEPT !.token = t]
    /\ UNCHANGED <<book, now, bal, expiry, rec, pre, resolver>>

-----------------------------------------------------------------------------
(* First-level domains.                                                    *)

checkNameAvailable(m) == rec[m].owner # None
authorised(a, m) == rec[m].owner = a

SetServDomainData(d, m, s) == [d EXCEPT ![m] = [has |-> TRUE, service |-> s]]

(* Mutant: a domain that is registered again forgets its sub-domains. *)
ForgetsSubDomains(n, a) == [rec EXCEPT ![n].owner = a, ![n].sub = {}]

setRecord(n, a) == [rec EXCEPT ![n].owner = a]

DurationFits(d) == (now + d + GRACEPERIOD) % Word >= (now + GRACEPERIOD) % Word

(* Mutant: an expired domain is free at once. *)
FreeWhenExpired(n) == expiry[n] <= now

IsFree(n) == (expiry[n] + GRACEPERIOD) % Word <= now

(* The sub-domains that a former owner allocated stay with the domain. *)
Register(a, n, d) ==
    /\ IsFree(n) /\ DurationFits(d)
    /\ Pay(a, getPrice(n \in Short, d))
    /\ rec' = setRecord(n, a)
    /\ expiry' = [expiry EXCEPT ![n] = (now + d) % Word]
    /\ data' = SetServDomainData(data, n, None)
    /\ UNCHANGED <<book, now, price, pre, rev>>

(* Anyone may renew, the price is that of a long name: name is the full     *)
(* name, with the suffix of the root.                                       *)
Renew(a, n, d) ==
    /\ checkNameAvailable(n)
    /\ (expiry[n] + GRACEPERIOD) % Word >= now /\ DurationFits(d)
    /\ Pay(a, getPrice(FALSE, d))
    /\ expiry' = [expiry EXCEPT ![n] = (@ + d) % Word]
    /\ UNCHANGED <<book, now, price, rec, pre, resolver>>

Tick == now < MaxTime /\ now' = now + 1 /\ UNCHANGED <<registry, resolver>>

-----------------------------------------------------------------------------
(* Second-level domains.                                                   *)

Strategy == [typ |-> "majority", exp |-> SimpleMajority]

AllocateSubDomain(a, s, n, owner, service) ==
    LET sub == SubmitProposal(book, a, "register", "bns_mgr", <<s, n>>, "",
                              [owner |-> owner, service |-> service], Supers, Strategy)
    IN  /\ Len(book.p) < MaxProposals
        /\ checkNameAvailable(n) /\ authorised(a, n)
        /\ ~pre[n]
        /\ sub.ok /\ book' = sub.b
        /\ rec' = [rec EXCEPT ![n].review = @ \cup {<<s, n>>}]
        /\ pre' = [pre EXCEPT ![n] = TRUE]
        /\ UNCHANGED <<now, price, bal, expiry, resolver>>

setSubDomainOwner(m, owner) ==
    [rec EXCEPT ![m[2]].sub = @ \cup {m}, ![m[2]].review = @ \ {m}, ![m].owner = owner]

manageRegisterApprove(k) ==
    /\ rec' = setSubDomainOwner(k.obj, k.extra.owner)
    /\ data' = SetServDomainData(data, k.obj, k.extra.service)
    /\ pre' = [pre EXCEPT ![k.obj[2]] = FALSE]

(* Mutant: the parent stays closed to proposals. *)
KeepsPreRegister(k) ==
    /\ rec' = [rec EXCEPT ![k.obj[2]].review = @ \ {k.obj}]
    /\ UNCHANGED <<pre, data>>

manageRegisterReject(k) ==
    /\ rec' = [rec EXCEPT ![k.obj[2]].review = @ \ {k.obj}]
    /\ pre' = [pre EXCEPT ![k.obj[2]] = FALSE]
    /\ UNCHANGED data

Manage(k) == IF k.next = "approve" THEN manageRegisterApprove(k) ELSE manageRegisterReject(k)

FinishProposal(b, id) ==
    LET r == handleResult(b, id) IN book' = r.b /\ Manage(r.call)

VoteProposal(a, id, ballot) ==
    LET v == Vote(book, id, a, ballot)
    IN  /\ v.ok /\ a \in Supers
        /\ IF v.over THEN FinishProposal(v.b, id)
                     ELSE book' = v.b /\ UNCHANGED <<rec, pre, data>>
        /\ UNCHANGED <<now, price, bal, expiry, rev>>

WithdrawProposal(a, id) ==
    /\ book.p[id].from = a /\ book.p[id].status = "proposed"
    /\ FinishProposal(endProposal(book, id, "withdraw"), id)
    /\ UNCHANGED <<now, price, bal, expiry, rev>>

GetSubDomain(n) == rec[n].sub

removeReverse(r, m, s) == [r EXCEPT ![s] = @ \ {m}]
setReverseName(r, s, m) == [r EXCEPT ![s] = @ \cup {m}]

DeleteData(m) ==
    /\ data[m].has
    /\ data' = [data EXCEPT ![m] = [has |-> FALSE, service |-> None]]
    /\ rev' = IF data[m].service = None THEN rev ELSE removeReverse(rev, m, data[m].service)

DeleteSecondDomain(a, m) ==
    /\ checkNameAvailable(m) /\ authorised(a, m)
    /\ DeleteData(m)
    /\ rec' = [rec EXCEPT ![m[2]].sub = @ \ {m}, ![m] = NoRecord]
    /\ UNCHANGED <<book, now, price, bal, expiry, pre>>

-----------------------------------------------------------------------------
(* The resolver, called by the owner of a domain.                          *)

DeleteServDomainData(a, m) ==
    /\ authorised(a, m) /\ DeleteData(m)
    /\ UNCHANGED <<now, registry>>

SetData(a, m, s) ==
    /\ authorised(a, m)
    /\ data' = SetServDomainData(data, m, s)
    /\ UNCHANGED <<now, registry, rev>>

SetServiceName(a, m, s, reverse) ==
    LET out == IF data[m].service = None THEN rev ELSE removeReverse(rev, m, data[m].service)
    IN  /\ authorised(a, m) /\ data[m].has
        /\ data' = [data EXCEPT ![m].service = s]
        /\ rev' = IF reverse /\ s # None THEN setReverseName(out, s, m) ELSE out
        /\ UNCHANGED <<now, registry>>

SetReverse(a, m, s) ==
    /\ authorised(a, m)
    /\ rev' = setReverseName(rev, s, m)
    /\ UNCHANGED <<now, registry, data>>

-----------------------------------------------------------------------------
Init ==
    /\ book = EmptyBook /\ now = Start
    /\ price = [short |-> 2, long |-> 1, token |-> 1]
    /\ bal = [a \in Account |-> Balance]
    /\ expiry = [n \in Level1 |-> 0]
    /\ rec = [m \in Domain |-> NoRecord]
    /\ pre = [n \in Level1 |-> FALSE]
    /\ data = [m \in Domain |-> [has |-> FALSE, service |-> None]]
    /\ rev = [s \in ServiceName |-> {}]

MaybeService == ServiceName \cup {None}

Registry ==
    \/ \E a \in Supers, p \in Price, q \in Price : SetPriceLevel(a, p, q)
    \/ \E a \in Supers, t \in TokenPrice : SetTokenPrice(a, t)
    \/ \E a \in Account, n \in Level1, d \in Duration : Register(a, n, d)
    \/ \E a \in Account, n \in Level1, d \in Duration : Renew(a, n, d)
    \/ \E a \in Account, s \in Son, n \in Level1, o \in Account, v \in MaybeService :
           AllocateSubDomain(a, s, n, o, v)
    \/ \E a \in Supers, id \in DOMAIN book.p, v \in {"approve", "reject"} :
           VoteProposal(a, id, v)
    \/ \E a \in Account, id \in DOMAIN book.p : WithdrawProposal(a, id)
    \/ \E a \in Account, m \in Second : DeleteSecondDomain(a, m)
    \/ Tick

Resolving ==
    \/ \E a \in Account, m \in Second : DeleteServDomainData(a, m)
    \/ \E a \in Account, m \in Domain, s \in MaybeService, r \in BOOLEAN :
           SetServiceName(a, m, s, r)
    \/ \E a \in Account, m \in Domain, s \in MaybeService : SetData(a, m, s)
    \/ \E a \in Account, m \in Domain, s \in ServiceName : SetReverse(a, m, s)

Next == Registry \/ Resolving

Spec == Init /\ [][Next]_vars

-----------------------------------------------------------------------------
(* Times and amounts are uint64, and what is listed are domains. *)
TypeOK ==
    /\ IndexAgrees(book)
    /\ \A n \in Level1 : expiry[n] \in 0..(Word - 1)
    /\ \A a \in Account : bal[a] \in 0..Balance
    /\ \A m \in Domain : rec[m].owner \in Account \cup {None} /\ rec[m].sub \subseteq Second

(* A first-level domain that has not expired, or did so less than the grace *)
(* period ago, keeps its owner ("The domain id registered or in             *)
(* GRACEPERIOD").                                                           *)
KeepsOwner ==
    \A n \in Level1 : rec[n].owner # None /\ expiry[n] + GRACEPERIOD > now
        => rec'[n].owner = rec[n].owner

(* A domain lists exactly its registered sub-domains (GetSubDomain), across *)
(* allocation, deletion and a registration by another owner.                *)
TreeAgrees ==
    \A n \in Level1 : GetSubDomain(n) = {m \in Second : m[2] = n /\ rec[m].owner # None}

(* A sub-domain is in review exactly while a proposal about it is open, and *)
(* its parent takes no other proposal exactly then: the parent is never     *)
(* closed to allocations for ever ("current proposal is not end").          *)
ReviewHasProposal ==
    \A n \in Level1 :
        LET about == {i \in DOMAIN book.p : book.p[i].obj[2] = n /\ book.p[i].status \in Open}
        IN  /\ rec[n].review = {book.p[i].obj : i \in about}
            /\ pre[n] <=> about # {}
            /\ Cardinality(about) <= 1
=============================================================================
