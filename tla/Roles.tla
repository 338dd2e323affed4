--------------------------------- MODULE Roles ---------------------------------
(***************************************************************************)
(* Governance administrators and proposal strategies (contracts/role.go,   *)
(* contracts/proposal_strategy.go) on the proposal book of Governance: the *)
(* administrators who vote are themselves governed by votes.               *)
(*                                                                         *)
(* One transaction is one step.  A world w is the state of the three       *)
(* contracts inside a transaction, with err set where the code returns an  *)
(* error; Commit takes a world over unless it failed.                      *)
(***************************************************************************)
EXTENDS Governance

CONSTANTS Accounts,      \* addresses that are or may become administrators
          Genesis,       \* the administrators of the genesis configuration
          Modules,       \* the modules of mgrs whose strategies are followed
          StoredAtGenesis, \* those of them the configuration gives a strategy
          Offered,       \* the strategies an update may ask for
          MaxProposals   \* bound on the length of the book

VARIABLES book,      \* the proposal book
          role,      \* status of every account's role, "none" when there is none
          listed,    \* RoleTypeKey(GovernanceAdmin)
          occupied,  \* OccupyAccountKey
          strat      \* the stored proposal strategies

vars == <<book, role, listed, occupied, strat>>

World == [b |-> book, role |-> role, listed |-> listed, occupied |-> occupied,
          strat |-> strat, err |-> FALSE]

(* applyBxhTransaction reverts the transaction of a call that returned an error. *)
Commit(w) ==
    /\ ~w.err
    /\ book' = w.b /\ role' = w.role /\ listed' = w.listed
    /\ occupied' = w.occupied /\ strat' = w.strat

-----------------------------------------------------------------------------
(* Roles.                                                                  *)

RoleStatus == {"none", "unavailable", "registing", "available", "freezing",
               "frozen", "activating", "logouting", "forbidden"}
IsAvailable(s) == s \in {"available", "freezing"}
AvailableAdmins(w) == {a \in w.listed : IsAvailable(w.role[a])}

roleStateMap ==
    [register |-> {"none", "unavailable"}, freeze |-> {"available"},
     activate |-> {"frozen"},
     logout |-> {"available", "freezing", "activating", "frozen"}]

(* The target status of an event, "" when the state machine refuses it. *)
RoleFsm(s, event, last) ==
    CASE event = "register" /\ s = "unavailable" -> "registing"
      [] event = "freeze" /\ s \in {"available", "activating", "logouting"} -> "freezing"
      [] event = "activate" /\ s \in {"frozen", "freezing", "logouting"} -> "activating"
      [] event = "logout" /\ s \in {"available", "freezing", "frozen", "activating"} -> "logouting"
      [] event = "approve" /\ s \in {"registing", "activating"} -> "available"
      [] event = "approve" /\ s = "freezing" -> "frozen"
      [] event = "approve" /\ s = "logouting" -> "forbidden"
      [] event = "reject" /\ s \in {"registing", "freezing", "activating", "logouting"} -> last
      [] OTHER -> ""

changeStatus(w, a, event, last) ==
    LET s == RoleFsm(w.role[a], event, last)
    IN  IF w.err \/ s = "" THEN Fail(w) ELSE [w EXCEPT !.role[a] = s]

-----------------------------------------------------------------------------
(* Strategies.                                                             *)

defaultStrategy == [stored |-> TRUE, status |-> "available", typ |-> "majority",
                    exp |-> SimpleMajority]
GetProposalStrategy(w, m) == IF w.strat[m].stored THEN w.strat[m] ELSE defaultStrategy

changeStrategyStatus(w, m, event) ==
    LET s == w.strat[m]
        to == CASE event = "update" /\ s.status = "available" -> "updating"
                [] event \in {"approve", "reject"} /\ s.status = "updating" -> "available"
                [] OTHER -> ""
    IN  IF w.err \/ ~s.stored \/ to = "" THEN Fail(w)
        ELSE [w EXCEPT !.strat[m].status = to]

Fitting(s, admins) ==
    IF s.typ = "zero" \/ HasThreshold(s.exp, 0, 0, admins) THEN s ELSE defaultStrategy

UpdateProposalStrategyByRolesChange(w) ==
    LET n == Cardinality(AvailableAdmins(w))
    IN  [w EXCEPT !.strat = [m \in Modules |->
            IF ~@[m].stored \/ @[m].status = "updating" THEN @[m] ELSE Fitting(@[m], n)]]

(* Manage of the strategy contract; obj is a module or "all_mgr". *)
StrategyManage(w, c) ==
    LET objs == IF c.obj = "all_mgr" THEN Modules ELSE {c.obj}
        moved == FoldSet(LAMBDA m, x : changeStrategyStatus(x, m, c.next), w, objs)
        n == Cardinality(AvailableAdmins(w))
    IN  IF moved.err \/ c.next # "approve" THEN moved
        ELSE [moved EXCEPT !.strat = [m \in Modules |->
                IF m \notin objs THEN @[m]
                ELSE Fitting([@[m] EXCEPT !.typ = c.extra.typ, !.exp = c.extra.exp], n)]]

-----------------------------------------------------------------------------
(* Manage, and the calls it makes back into the book.                      *)

RECURSIVE Manage(_, _)

FinishProposal(w, id) ==
    LET r == handleResult(w.b, id) IN Manage([w EXCEPT !.b = r.b], r.call)

(* The list of open proposals and their counters are read once; each is     *)
(* then updated by id, whatever the updates before it did.                  *)
updateRoleRelatedProposalInfo(w, a, delta) ==
    LET todo == SelectSeq(GetNotClosedProposals(w.b),
                          LAMBDA i : a \in w.b.p[i].electorate)
        Store(x, i, u) ==
            IF ~x.err /\ u.ok /\ u.over THEN FinishProposal([x EXCEPT !.b = u.b], i)
            ELSE Booked(x, u)
        Update(x, i) ==
            Store(x, i, UpdateAvailableElectorateNum(x.b, i, (w.b.p[i].available + delta) % Word))
    IN  FoldLeft(Update, w, todo)

ElectorateChanged(w, a, delta) ==
    Then(updateRoleRelatedProposalInfo(w, a, delta), UpdateProposalStrategyByRolesChange)

(* By how much the decision changes the number of available administrators. *)
electorateDelta(w, c) ==
    CASE c.event = "freeze" /\ c.next = "approve" -> -1
      [] c.event = "activate" /\ c.next = "approve" -> 1
      [] c.event = "logout" /\ c.next = "reject" /\ IsAvailable(w.role[c.obj]) -> 1
      [] OTHER -> 0

handleGovernanceAdmin(w, c) ==
    CASE c.event = "register" /\ c.next = "approve" ->
           UpdateProposalStrategyByRolesChange([w EXCEPT !.listed = @ \cup {c.obj}])
      [] c.event = "register" /\ c.next # "approve" ->
           [w EXCEPT !.occupied = @ \ {c.obj}]
      [] electorateDelta(w, c) # 0 -> ElectorateChanged(w, c.obj, electorateDelta(w, c))
      [] OTHER -> w

RoleManage(w, c) ==
    Then(changeStatus(w, c.obj, c.next, c.last), LAMBDA x : handleGovernanceAdmin(x, c))

Manage(w, c) == IF c.typ = "role_mgr" THEN RoleManage(w, c) ELSE StrategyManage(w, c)

Submit(w, from, event, typ, obj, last, extra) ==
    Booked(w, SubmitProposal(w.b, from, event, typ, obj, last, extra,
                             AvailableAdmins(w), GetProposalStrategy(w, typ)))

(* The result of ZeroPermission is not looked at: what it did before an     *)
(* error stays.                                                             *)
ZeroPermission(w) ==
    LET id == Len(w.b.p)
        closed == [w EXCEPT !.b = Close(@, id, "approve", "zero_permission")]
    IN  IF w.err \/ w.b.p[id].strategy # "zero" THEN w
        ELSE [FinishProposal(closed, id) EXCEPT !.err = FALSE]

-----------------------------------------------------------------------------
(* Transactions.                                                           *)

MaySubmit == Len(book.p) < MaxProposals
Admin(c) == IsAvailable(role[c])

RegisterRole(c, a) ==
    /\ MaySubmit /\ Admin(c)
    /\ a \notin occupied /\ role[a] \in roleStateMap["register"]
    /\ LET pre == [World EXCEPT !.role[a] = "unavailable", !.occupied = @ \cup {a}]
           sub == Submit(pre, c, "register", "role_mgr", a, "unavailable", <<>>)
       IN  Commit(ZeroPermission(changeStatus(sub, a, "register", "unavailable")))

basicGovernance(c, a, event) ==
    LET sub == Submit(World, c, event, "role_mgr", a, role[a], <<>>)
    IN  changeStatus(sub, a, event, role[a])

(* Mutant: super administrators may be governed too. *)
GovernableAll(a, event) == role[a] \in roleStateMap[event]

Governable(a, event) == role[a] \in roleStateMap[event] /\ a \notin Supers

FreezeRole(c, a) ==
    /\ MaySubmit /\ Admin(c) /\ c # a /\ Governable(a, "freeze")
    /\ Commit(ZeroPermission(basicGovernance(c, a, "freeze")))

ActivateRole(c, a) ==
    /\ MaySubmit /\ (Admin(c) \/ c = a) /\ Governable(a, "activate")
    /\ Commit(ZeroPermission(basicGovernance(c, a, "activate")))

(* The role is read again after basicGovernance has moved it. *)
LogoutRole(c, a) ==
    /\ MaySubmit /\ (Admin(c) \/ c = a) /\ Governable(a, "logout")
    /\ LET Left(w) == IF IsAvailable(w.role[a]) THEN ElectorateChanged(w, a, -1) ELSE w
       IN  Commit(ZeroPermission(Then(basicGovernance(c, a, "logout"), Left)))

UpdateProposalStrategy(c, m, s) ==
    LET cur == GetProposalStrategy(World, m)
        sub == Submit(World, c, "update", "proposal_strategy_mgr", m, cur.status, s)
    IN  /\ MaySubmit /\ Admin(c)
        /\ cur.status = "available"
        /\ cur.typ # s.typ \/ cur.exp # s.exp
        /\ s.typ = "zero" \/ CheckStrategyExpression(s.exp, Cardinality(AvailableAdmins(World)))
        /\ ~sub.err
        /\ Commit(ZeroPermission([changeStrategyStatus(sub, m, "update") EXCEPT !.err = FALSE]))

UpdateAllProposalStrategy(c, s) ==
    LET cur(m) == GetProposalStrategy(World, m)
        sub == Submit(World, c, "update", "proposal_strategy_mgr", "all_mgr", "available", s)
        Try(m, x) == [changeStrategyStatus(x, m, "update") EXCEPT !.err = FALSE]
    IN  /\ MaySubmit /\ Admin(c)
        /\ \A m \in Modules : cur(m).status = "available"
        /\ \E m \in Modules : cur(m).typ # s.typ \/ cur(m).exp # s.exp
        /\ s.typ = "zero" \/ CheckStrategyExpression(s.exp, Cardinality(AvailableAdmins(World)))
        /\ ~sub.err
        /\ Commit(ZeroPermission(FoldSet(Try, sub, Modules)))

VoteProposal(a, id, ballot) ==
    LET v == Vote(book, id, a, ballot)
        w == [World EXCEPT !.b = v.b]
    IN  /\ Admin(a) /\ v.ok
        /\ Commit(IF v.over THEN FinishProposal(w, id) ELSE w)

(* Mutant: the result of the withdrawn proposal is not handled. *)
WithdrawOnly(a, id) ==
    /\ book.p[id].from = a
    /\ book.p[id].status \in Open
    /\ Commit([World EXCEPT !.b = endProposal(@, id, "withdraw")])

WithdrawProposal(a, id) ==
    /\ book.p[id].from = a
    /\ book.p[id].status \in Open
    /\ Commit(FinishProposal([World EXCEPT !.b = endProposal(@, id, "withdraw")], id))

-----------------------------------------------------------------------------
Init ==
    /\ book = EmptyBook
    /\ role = [a \in Accounts |-> IF a \in Genesis THEN "available" ELSE "none"]
    /\ listed = Genesis
    /\ occupied = {}
    /\ strat = [m \in Modules |-> [defaultStrategy EXCEPT !.stored = m \in StoredAtGenesis]]

Next ==
    \/ \E c, a \in Accounts : RegisterRole(c, a)
    \/ \E c, a \in Accounts : FreezeRole(c, a)
    \/ \E c, a \in Accounts : ActivateRole(c, a)
    \/ \E c, a \in Accounts : LogoutRole(c, a)
    \/ \E c \in Accounts, m \in Modules, s \in Offered : UpdateProposalStrategy(c, m, s)
    \/ \E c \in Accounts, s \in Offered : UpdateAllProposalStrategy(c, s)
    \/ \E a \in Accounts, id \in DOMAIN book.p, v \in {"approve", "reject"} :
           VoteProposal(a, id, v)
    \/ \E a \in Accounts, id \in DOMAIN book.p : WithdrawProposal(a, id)

Spec == Init /\ [][Next]_vars

-----------------------------------------------------------------------------
(* Every part of the state has its type, and the status index that        *)
(* GetNotClosedProposals reads lists exactly the proposals of each status. *)
TypeOK ==
    /\ role \in [Accounts -> RoleStatus]
    /\ listed \subseteq Accounts /\ occupied \subseteq Accounts
    /\ \A m \in Modules : strat[m].exp \in Expressions
    /\ \A i \in DOMAIN book.p :
          /\ book.p[i].status \in ProposalStatus
          /\ book.p[i].lock \in 0..(i - 1)
    /\ IndexAgrees(book)

(* Votes cannot remove the last administrator who can pass a special        *)
(* proposal: a super administrator is available in every state, and every   *)
(* listed administrator not logged out still has a role.                    *)
GovernanceAlive ==
    /\ \E a \in Supers : a \in AvailableAdmins(World)
    /\ \A a \in listed : role[a] \notin {"none", "unavailable", "registing"}

(* A role that is being decided upon has an open proposal about it, so that *)
(* no administrator is left in a transient status.                          *)
TransientHasProposal ==
    \A a \in Accounts :
        role[a] \in {"registing", "freezing", "activating", "logouting"} =>
            \E i \in DOMAIN book.p : book.p[i].obj = a /\ book.p[i].status = "proposed"

(* A paused proposal is not lost: an open proposal holds the lock whose    *)
(* release decides what becomes of it.                                      *)
PausedHasLocker ==
    \A i \in DOMAIN book.p :
        book.p[i].status = "paused" =>
            \E j \in DOMAIN book.p : book.p[j].lock = i /\ book.p[j].status \in Open
=============================================================================
