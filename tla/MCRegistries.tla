----------------------------- MODULE MCRegistries ------------------------------
(***************************************************************************)
(* The registries under governance for TLC: dapps, whose names and         *)
(* contracts change or which are handed over; the name service, with       *)
(* sub-domains or with prices and expiry; and the nodes, with consensus    *)
(* nodes or with audit nodes and their administrators.  A behaviour runs   *)
(* the part that its first state names and leaves the variables of the     *)
(* others as they begin.                                                   *)
(***************************************************************************)
EXTENDS Dapps, TLC

CONSTANTS Parts,                   \* the parts that are run
          s1, x1, x2,              \* an administrator, two other accounts
          n1, n2, k1, k2,          \* names and contracts of dapps
          d1, t1, v1,              \* a domain, a label below it, a service
          p1, p2, p3, q1, e1, e2, Nil

VARIABLES part,
          nameBook, now, price, bal, expiry, rec, pre, data, rev,
          nodeBook, node, role, occupied, names, pids, members

nameVars == <<nameBook, now, price, bal, expiry, rec, pre, data, rev>>
nodeVars == <<nodeBook, node, role, occupied, names, pids, members>>

OneGenesis == <<[acc |-> x1, pid |-> p1]>>

\* Dapps without contracts that are decided without a vote, so that longer histories of
\* transfers are within reach.
Handed == INSTANCE Dapps WITH Contract <- {}, ZeroPermitted <- TRUE, MaxProposals <- 5

\* One domain with one label below it and a price of one; and one domain whose prices
\* change, without anything below it.
Domains == INSTANCE Naming WITH
  book <- nameBook, Scale <- 1, GRACEPERIOD <- 1, Start <- 3, Level1 <- {d1}, Short <- {},
  Son <- {t1}, ServiceName <- {v1}, Duration <- {1}, Price <- {1}, TokenPrice <- {1},
  Balance <- 1, MaxTime <- 5, MaxProposals <- 2
Expiry == INSTANCE Naming WITH
  book <- nameBook, Scale <- 2, GRACEPERIOD <- 2, Start <- 3, Level1 <- {d1}, Short <- {d1},
  Son <- {}, ServiceName <- {}, Duration <- {1, 2}, Price <- {1, 2}, TokenPrice <- {0, 1, 2},
  Balance <- 6, MaxTime <- 8, MaxProposals <- 0

\* One genesis node and two others with three pids; and two audit nodes with one audit
\* administrator.
Consensus == INSTANCE Nodes WITH
  book <- nodeBook, Admins <- {s1}, Auditors <- {}, Accounts <- {x1, x2, e1},
  GenesisNodes <- OneGenesis, Name <- {}, Pid <- {p1, p2, p3}, Permit <- {}, Types <- {"vp"},
  MinimumVPNode <- 2, MaxId <- 3, MaxProposals <- 4, Withdrawals <- TRUE,
  ZeroPermitted <- FALSE
Audit == INSTANCE Nodes WITH
  book <- nodeBook, Admins <- {s1}, Auditors <- {x1}, Accounts <- {e1, e2},
  GenesisNodes <- <<>>, Name <- {n1, n2}, Pid <- {}, Permit <- {q1}, Types <- {"nvp"},
  MinimumVPNode <- 4, MaxId <- 1, MaxProposals <- 5, Withdrawals <- FALSE,
  ZeroPermitted <- FALSE

PartsInit ==
  /\ part \in Parts
  /\ IF part = "transfers" THEN Handed!Init ELSE Init
  /\ IF part = "expiry" THEN Expiry!Init ELSE Domains!Init
  /\ IF part = "audit" THEN Audit!Init ELSE Consensus!Init

DappsNext == (part = "dapps" /\ Next) \/ (part = "transfers" /\ Handed!Next)
NamesNext == (part = "domains" /\ Domains!Next) \/ (part = "expiry" /\ Expiry!Next)
NodesNext == (part = "consensus" /\ Consensus!Next) \/ (part = "audit" /\ Audit!Next)

PartsNext ==
  \/ DappsNext /\ UNCHANGED <<part, nameVars, nodeVars>>
  \/ NamesNext /\ UNCHANGED <<part, vars, nodeVars>>
  \/ NodesNext /\ UNCHANGED <<part, vars, nameVars>>

PartsSpec == PartsInit /\ [][PartsNext]_<<part, vars, nameVars, nodeVars>>
-----------------------------------------------------------------------------
\* A registered dapp keeps its claims on its name and its contracts through every update,
\* decided either way (isOccupiedName, isOccupiedContractAddr).  The transfers of a dapp
\* form a chain from its first owner to its present one, who finds it among its own
\* (getOwnerAll); and the id of the next dapp of an account is never that of a dapp it
\* registered before, however many it handed over (packageDappInfo).
DappsAddUp ==
  CASE part = "dapps" -> ClaimsHeld /\ TransfersChain /\ NextIdIsFree
    [] part = "transfers" -> Handed!ClaimsHeld /\ Handed!TransfersChain /\ Handed!NextIdIsFree
    [] OTHER -> TRUE

\* What waits for a decision has an open proposal that decides it: a dapp in a transient
\* status (dapp_manager.go), and a sub-domain in review, whose parent takes no other
\* proposal exactly as long (service_registry.go).
UnderReview ==
  CASE part = "dapps" -> WaitsForProposal
    [] part = "domains" -> Domains!ReviewHasProposal
    [] OTHER -> TRUE

\* A first-level domain that has not expired, or did so less than the grace period ago,
\* keeps its owner ("The domain id registered or in GRACEPERIOD").
OwnerKept ==
  [][/\ part = "domains" => Domains!KeepsOwner
     /\ part = "expiry" => Expiry!KeepsOwner]_nameVars

\* A domain lists exactly its registered sub-domains (GetSubDomain), across allocation,
\* deletion and a registration by another owner; times and amounts stay within uint64.
TreeAgrees ==
  CASE part = "domains" -> Domains!TypeOK /\ Domains!TreeAgrees
    [] part = "expiry" -> Expiry!TypeOK
    [] OTHER -> TRUE

\* The ids the node events announce to consensus are those of the consensus nodes in
\* service, and no two of them share an id (hasVpNodeGoverned, getNextVpID).  No audit
\* administrator serves, or is being given, a node that has been logged out
\* (PauseAuditAdmin, and Manage of role.go when a logout is rejected).
NodesServe ==
  CASE part = "consensus" -> Consensus!TypeOK /\ Consensus!MembersAgree
    [] part = "audit" -> Audit!TypeOK /\ Audit!LoggedOutNodeServesNobody
    [] OTHER -> TRUE
=============================================================================
