----------------------------- MODULE MCGovernance ------------------------------
(***************************************************************************)
(* The roles and the application chains under governance for TLC, in four  *)
(* parts: the administrators with changing strategies, the administrators  *)
(* with longer histories, one chain with two rules and two administrators, *)
(* and one chain with a service.  A behaviour runs the part that its first *)
(* state names and leaves the variables of the others as they begin.       *)
(***************************************************************************)
EXTENDS Chains

CONSTANTS Parts,           \* the parts that are run
          s1, a1, n1,      \* a super administrator, an ordinary one, a candidate
          x1, x2, c1, r1, r2, v1, m1, m2, k1, Nil

VARIABLES part,
          roleBook, role, listed, occupied, strat

roleVars  == <<roleBook, role, listed, occupied, strat>>

RoleModules == {"role_mgr", "proposal_strategy_mgr"}
TwoOrZero == {[typ |-> "majority", exp |-> "a >= 2"], [typ |-> "zero", exp |-> SimpleMajority]}
OneChain == [s \in {v1} |-> c1]

Admins == INSTANCE Roles WITH
  book <- roleBook,
  Accounts <- {s1, a1, n1}, Genesis <- {s1, a1}, Modules <- RoleModules,
  StoredAtGenesis <- RoleModules, Offered <- TwoOrZero, MaxProposals <- 3

\* How far each part is followed: two proposals of any kind, or three about one
\* administrator; three about a chain without services, with two names and two
\* administrators, or MaxProposals with a service, one name and one administrator.
Bounds ==
  CASE part = "strategies" -> Len(roleBook.p) <= 2
    [] part = "depth" -> \A i \in DOMAIN roleBook.p : roleBook.p[i].obj = a1
    [] part = "rules" -> /\ Len(book.p) <= 3 /\ svc[v1].st = "none"
                         /\ taken.name[m2] = Nil \/ x2 \notin taken.acc
    [] part = "services" -> taken.acc \subseteq {s1, x1} /\ taken.name[m2] = Nil

PartsInit ==
  /\ part \in Parts
  /\ Init
  /\ Admins!Init

PartsNext ==
  \/ part \in {"strategies", "depth"} /\ Admins!Next /\ UNCHANGED <<part, vars>> /\ Bounds'
  \/ part \in {"rules", "services"} /\ Next /\ UNCHANGED <<part, roleVars>> /\ Bounds'

PartsSpec == PartsInit /\ [][PartsNext]_<<part, vars, roleVars>>
-----------------------------------------------------------------------------
\* Votes cannot remove the last administrator who can pass a special proposal: a super
\* administrator is available in every state, and every listed administrator who was
\* not logged out still has a role (Manage and getAdminRoles of role.go).
GovernanceAlive == Admins!TypeOK /\ Admins!GovernanceAlive

\* Whatever is being decided upon has an open proposal about it: no administrator stays
\* in a transient status (role.go), and no chain waits for ever for the rule that is
\* being bound (rule_manager.go).
UnderWay == Admins!TransientHasProposal /\ BindingHasProposal

\* LockLowPriorityProposal and UnLockLowPriorityProposal match: a paused proposal about
\* a role is locked by an open one, and a proposal about a chain that an open one has
\* locked stays paused until that one is decided.
LocksHeld == Admins!PausedHasLocker /\ (part = "rules" => LockHeld)

\* A chain keeps the claim on the name it carries, whatever becomes of the updates that
\* would rename it (isOccupiedName), so no two chains carry one name; and it always has
\* exactly one master rule, so its proofs are verified by a definite rule.
ChainIsDefinite == TypeOK /\ NamesOwned /\ OneMaster
=============================================================================
