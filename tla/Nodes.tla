--------------------------------- MODULE Nodes ---------------------------------
(***************************************************************************)
(* The node manager (contracts/node_manager.go) and the audit              *)
(* administrators of the role contract (contracts/role.go) on the proposal *)
(* book of Governance.  Consensus nodes ("vp") come and go one at a time;  *)
(* an audit node ("nvp") is bound to one audit administrator, and each of  *)
(* the two may be logged out while the other is being decided upon.        *)
(*                                                                         *)
(* The governance administrators are fixed here; Roles lets them change.   *)
(* A transaction is one step; err marks a call that returned an error.     *)
(***************************************************************************)
EXTENDS Governance

CONSTANTS Admins,        \* the available governance administrators
          Auditors,      \* accounts that may become audit administrators
          Accounts,      \* accounts of nodes
          GenesisNodes,  \* the primary vp nodes, [acc, pid] in the order of their ids
          Name, Pid, Permit,
          Types,         \* the node types that are registered
          MinimumVPNode,
          MaxId,         \* bound on the ids of vp nodes
          MaxProposals,  \* bound on the length of the book
          Withdrawals,   \* whether proposals are withdrawn
          ZeroPermitted, \* whether the strategies are zero-permission
          None

VARIABLES book,     \* the proposal book
          node,     \* NodeKey
          role,     \* RoleKey of the audit administrators
          occupied, \* OccupyAccountKey
          names,    \* NodeOccupyNameKey
          pids,     \* NodeOccupyPidKey
          members   \* the vp ids the node events have announced

vars == <<book, node, role, occupied, names, pids, members>>

World == [b |-> book, node |-> node, role |-> role, occupied |-> occupied,
          names |-> names, pids |-> pids, members |-> members, err |-> FALSE]

Commit(w) ==
    /\ ~w.err
    /\ book' = w.b /\ node' = w.node /\ role' = w.role /\ occupied' = w.occupied
    /\ names' = w.names /\ pids' = w.pids /\ members' = w.members

NoNode == [st |-> "none", typ |-> "", name |-> None, pid |-> None, id |-> 0,
           primary |-> FALSE, admin |-> None, permit |-> None]

-----------------------------------------------------------------------------
(* The two status machines.  The one of the nodes is in the node-mgr       *)
(* library, known from the comments of node_manager.go and its tests.      *)

nodeStateMap ==
    [register |-> {"none", "unavailable"}, update |-> {"available", "binded"},
     logout |-> {"available", "binding", "binded", "updating"},
     bind |-> {"available"}, unbind |-> {"binded"}]

NodeFsm(s, event, last) ==
    CASE event = "update" /\ s \in {"available", "binded", "logouting"} -> "updating"
      [] event = "logout" /\ s \in nodeStateMap["logout"] -> "logouting"
      [] event = "bind" /\ s = "available" -> "binding"
      [] event = "unbind" /\ s = "binded" -> "available"
      [] event = "approve" /\ s = "registing" -> "available"
      [] event = "approve" /\ s = "binding" -> "binded"
      [] event = "approve" /\ s = "updating" -> last
      [] event = "approve" /\ s = "logouting" -> "forbidden"
      [] event = "reject" /\ s \in {"registing", "updating", "logouting", "binding"} -> last
      [] OTHER -> ""

NodeAvailable(s) == s \in {"available", "updating", "binding", "binded"}

ChangeStatus(w, n, event, last) ==
    LET To(s) == IF w.err \/ s = "" THEN Fail(w) ELSE [w EXCEPT !.node[n].st = s]
    IN  To(NodeFsm(w.node[n].st, event, last))

roleStateMap ==
    [register |-> {"none", "unavailable"}, bind |-> {"frozen"},
     logout |-> {"available", "frozen", "binding"},
     pause |-> {"available", "registing", "binding"}, unpause |-> {"registing", "binding"}]

RoleFsm(s, event, last) ==
    CASE event = "register" /\ s = "unavailable" -> "registing"
      [] event = "logout" /\ s \in {"available", "frozen", "binding"} -> "logouting"
      [] event = "bind" /\ s = "frozen" -> "binding"
      [] event = "approve" /\ s \in {"registing", "binding"} -> "available"
      [] event = "approve" /\ s = "logouting" -> "forbidden"
      [] event = "reject" /\ s \in {"registing", "logouting"} -> last
      [] event = "reject" /\ s = "binding" -> "frozen"
      [] event = "pause" /\ s \in {"available", "binding"} -> "frozen"
      [] event = "pause" /\ s = "registing" -> "unavailable"
      [] OTHER -> ""

changeStatus(w, a, event, last) ==
    LET To(s) == IF w.err \/ s = "" THEN Fail(w) ELSE [w EXCEPT !.role[a].st = s]
    IN  To(RoleFsm(w.role[a].st, event, last))

-----------------------------------------------------------------------------
(* The calls the two contracts make of each other.                         *)

BindNode(w, n, a) ==
    IF w.err \/ w.node[n].st \notin nodeStateMap["bind"] \/ w.node[n].typ = "vp" THEN Fail(w)
    ELSE ChangeStatus([w EXCEPT !.node[n].admin = a], n, "bind", w.node[n].st)

ManageBindNode(w, n, result) ==
    LET Released(x) == IF result = "reject" THEN [x EXCEPT !.node[n].admin = None] ELSE x
    IN  Released(ChangeStatus(w, n, result, "available"))

(* A node that cannot be unbound is left as it is, without an error.  The   *)
(* administrator's address is not removed from the node.                    *)
unbindNode(w, n) ==
    IF w.node[n].st \in nodeStateMap["unbind"]
    THEN ChangeStatus(w, n, "unbind", w.node[n].st) ELSE w

isAvailableAdmin(w, a) == a \in Auditors /\ w.role[a].st = "available"

UnbindIfAdminGone(w, n) ==
    IF w.node[n].typ = "nvp" /\ w.node[n].admin # None
          /\ ~isAvailableAdmin(w, w.node[n].admin)
    THEN unbindNode(w, n) ELSE w

getBindRoleByNodeID(w, n) ==
    {a \in Auditors : w.role[a].node = n /\ w.role[a].st \in {"registing", "available", "binding"}}

pauseAuditAdmin(w, a) ==
    IF w.role[a].st \notin roleStateMap["pause"] THEN w
    ELSE LET x == changeStatus(w, a, "pause", w.role[a].st)
         IN  [x EXCEPT !.b = EndObjProposal(@, a, "clear")]

(* The roles are read in the order of their keys; no role found is an       *)
(* error, which the caller does not look at.                                *)
PauseAuditAdmin(w, n) ==
    LET found == getBindRoleByNodeID(w, n)
    IN  IF found = {} THEN w ELSE pauseAuditAdmin(w, CHOOSE a \in found : TRUE)

PauseAuditAdminBinding(w, n) ==
    LET found == getBindRoleByNodeID(w, n)
    IN  IF found = {} THEN Fail(w)
        ELSE [w EXCEPT !.b = lockLowPriorityProposal(@, CHOOSE a \in found : TRUE, "pause").b]

(* The Manage call of UnLockLowPriorityProposal is with the event unpause,  *)
(* on which the role contract does nothing.                                 *)
restoreAuditAdmin(w, a) ==
    IF w.role[a].st \notin roleStateMap["unpause"] THEN w
    ELSE [w EXCEPT !.b = UnLockLowPriorityProposal(@, a, "unpause", None).b]

RestoreAuditAdminBinding(w, n) ==
    LET found == getBindRoleByNodeID(w, n)
    IN  IF found = {} THEN Fail(w) ELSE restoreAuditAdmin(w, CHOOSE a \in found : TRUE)

-----------------------------------------------------------------------------
(* Manage, of the nodes and of the audit administrators.                   *)

freeNodeName(w, x) == [w EXCEPT !.names[x] = None]
freeNodePid(w, x) == [w EXCEPT !.pids[x] = None]
FreeAccount(w, x) == [w EXCEPT !.occupied = @ \ {x}]

processApproveProposal(w, c) ==
    LET n == c.obj
        i == w.node[n]
        e == c.extra
        updated == [w EXCEPT !.node[n].name = e.new, !.node[n].permit = e.permit]
        freed == IF e.edit THEN freeNodeName(updated, e.old) ELSE updated
    IN  CASE c.event = "register" /\ i.typ = "vp" -> [w EXCEPT !.members = @ \cup {i.id}]
          [] c.event = "update" -> UnbindIfAdminGone(freed, n)
          [] c.event = "logout" /\ i.typ = "vp" -> [w EXCEPT !.members = @ \ {i.id}]
          [] c.event = "logout" /\ i.typ = "nvp" -> PauseAuditAdmin(w, n)
          [] OTHER -> w

processRejectProposal(w, c) ==
    LET n == c.obj
        i == w.node[n]
        free == FreeAccount(w, n)
        freed == IF c.extra.edit THEN freeNodeName(w, c.extra.new) ELSE w
    IN  CASE c.event = "register" /\ i.typ = "vp" -> freeNodePid(free, i.pid)
          [] c.event = "register" /\ i.typ = "nvp" -> freeNodeName(free, i.name)
          [] c.event = "update" -> UnbindIfAdminGone(freed, n)
          [] c.event = "logout" /\ i.typ = "nvp" /\ i.admin # None ->
               CASE w.role[i.admin].st = "forbidden" -> unbindNode(w, n)
                 [] w.role[i.admin].st \in {"binding", "registing"} ->
                      RestoreAuditAdminBinding(w, n)
                 [] OTHER -> w
          [] OTHER -> w

NodeManage(w, c) ==
    Then(ChangeStatus(w, c.obj, c.next, c.last),
         LAMBDA x : IF c.next = "approve" THEN processApproveProposal(x, c)
                    ELSE processRejectProposal(x, c))

handleAuditAdmin(w, c) ==
    LET a == c.obj
        n == w.role[a].node
    IN  CASE c.event = "register" ->
               ManageBindNode(IF c.next = "approve" THEN w ELSE FreeAccount(w, a), n, c.next)
          [] c.event = "bind" -> ManageBindNode(w, n, c.next)
          [] c.event = "logout" /\ c.next = "approve" ->
               unbindNode([w EXCEPT !.b = EndObjProposal(@, a, "clear")], n)
          [] c.event = "logout" /\ c.next # "approve" ->
               CASE w.node[n].st = "forbidden" -> pauseAuditAdmin(w, a)
                 [] w.node[n].st = "binding" -> restoreAuditAdmin(w, a)
                 [] OTHER -> w

RoleManage(w, c) ==
    Then(changeStatus(w, c.obj, c.next, c.last), LAMBDA x : handleAuditAdmin(x, c))

FinishProposal(w, id) ==
    LET Decide(x, c) == IF c.typ = "node_mgr" THEN NodeManage(x, c) ELSE RoleManage(x, c)
        Handle(r) == Decide([w EXCEPT !.b = r.b], r.call)
    IN  Handle(handleResult(w.b, id))

Strategy == [typ |-> IF ZeroPermitted THEN "zero" ELSE "majority", exp |-> SimpleMajority]

Submit(w, from, event, typ, obj, last, extra) ==
    Booked(w, SubmitProposal(w.b, from, event, typ, obj, last, extra, Admins, Strategy))

(* The result of ZeroPermission is not looked at. *)
ZeroPermission(w) ==
    LET id == Len(w.b.p)
        closed == [w EXCEPT !.b = Close(@, id, "approve", "zero_permission")]
    IN  IF w.err \/ ~ZeroPermitted THEN w
        ELSE [FinishProposal(closed, id) EXCEPT !.err = FALSE]

-----------------------------------------------------------------------------
(* Transactions of the node manager.                                       *)

MaySubmit == Len(book.p) < MaxProposals

Nothing == [old |-> None, new |-> None, edit |-> FALSE, permit |-> None]

(* Mutant: consensus nodes may come and go at the same time. *)
NoneGoverned == FALSE

hasVpNodeGoverned ==
    \E n \in Accounts : node[n].typ = "vp" /\ node[n].st \in {"registing", "logouting"}

VPs == {n \in Accounts : node[n].typ = "vp" /\ NodeAvailable(node[n].st)}
getNextVpID == Max({node[n].id : n \in VPs} \cup {0}) + 1

checkNodeInfo(i) ==
    \/ i.typ = "vp" /\ i.id >= getNextVpID /\ pids[i.pid] = None
    \/ i.typ = "nvp" /\ names[i.name] = None

RegisterNode(c, n, i) ==
    /\ MaySubmit
    /\ i.typ = "vp" => ~hasVpNodeGoverned
    /\ n \notin occupied /\ checkNodeInfo(i)
    /\ node[n].st \in nodeStateMap["register"]
    /\ LET pre == [World EXCEPT !.occupied = @ \cup {n}]
           held == IF i.typ = "vp" THEN [pre EXCEPT !.pids[i.pid] = n]
                                   ELSE [pre EXCEPT !.names[i.name] = n]
           sub == Submit(held, c, "register", "node_mgr", n, "unavailable", Nothing)
       IN  Commit(ZeroPermission([sub EXCEPT !.node[n] = [i EXCEPT !.st = "registing"]]))

LogoutNode(c, n) ==
    /\ MaySubmit
    /\ node[n].st \in nodeStateMap["logout"]
    /\ node[n].typ = "vp" =>
          ~hasVpNodeGoverned /\ ~node[n].primary /\ Cardinality(VPs) > MinimumVPNode
    /\ LET s == node[n].st
           sub == Submit(World, c, "logout", "node_mgr", n, s, Nothing)
           Paused(w) == IF s = "binding" THEN PauseAuditAdminBinding(w, n) ELSE w
       IN  Commit(ZeroPermission(Then(ChangeStatus(sub, n, "logout", s), Paused)))

UpdateNode(c, n, x, p) ==
    /\ MaySubmit
    /\ c \in Admins \/ c = node[n].admin
    /\ node[n].st \in nodeStateMap["update"] /\ node[n].typ # "vp"
    /\ names[x] \in {None, n}
    /\ node[n].name # x \/ node[n].permit # p
    /\ LET edit == node[n].name # x
           held == IF edit THEN [World EXCEPT !.names[x] = n] ELSE World
           e == [old |-> node[n].name, new |-> x, edit |-> edit, permit |-> p]
           sub == Submit(held, c, "update", "node_mgr", n, node[n].st, e)
       IN  Commit(ZeroPermission(ChangeStatus(sub, n, "update", node[n].st)))

-----------------------------------------------------------------------------
(* Transactions about audit administrators.                                *)

RegisterRole(c, a, n) ==
    /\ MaySubmit
    /\ a \notin occupied /\ role[a].st \in roleStateMap["register"]
    /\ node[n].typ = "nvp" /\ node[n].st = "available"
    /\ LET pre == [World EXCEPT !.role[a] = [st |-> "unavailable", node |-> n],
                                !.occupied = @ \cup {a}]
           sub == Submit(pre, c, "register", "role_mgr", a, "unavailable", Nothing)
           out == changeStatus(sub, a, "register", "unavailable")
       IN  Commit(ZeroPermission(BindNode(out, n, a)))

basicGovernance(w, c, a, event) ==
    LET s == w.role[a].st
    IN  changeStatus(Submit(w, c, event, "role_mgr", a, s, Nothing), a, event, s)

BindRole(c, a, n) ==
    /\ MaySubmit /\ role[a].st \in roleStateMap["bind"]
    /\ LET w == [World EXCEPT !.role[a].node = n]
       IN  Commit(ZeroPermission(BindNode(basicGovernance(w, c, a, "bind"), n, a)))

LogoutRole(c, a) ==
    /\ MaySubmit /\ role[a].st \in roleStateMap["logout"]
    /\ Commit(ZeroPermission(basicGovernance(World, c, a, "logout")))

VoteProposal(a, id, ballot) ==
    LET v == Vote(book, id, a, ballot)
        w == [World EXCEPT !.b = v.b]
    IN  v.ok /\ Commit(IF v.over THEN FinishProposal(w, id) ELSE w)

WithdrawProposal(a, id) ==
    /\ Withdrawals
    /\ book.p[id].from = a /\ book.p[id].status \in Open
    /\ Commit(FinishProposal([World EXCEPT !.b = endProposal(@, id, "withdraw")], id))

-----------------------------------------------------------------------------
Genesis(n) == {i \in DOMAIN GenesisNodes : GenesisNodes[i].acc = n}

(* Neither the accounts nor the pids of the genesis nodes are occupied. *)
Init ==
    /\ book = EmptyBook
    /\ node = [n \in Accounts |->
                 IF Genesis(n) = {} THEN NoNode
                 ELSE LET i == CHOOSE i \in Genesis(n) : TRUE
                      IN  [NoNode EXCEPT !.st = "available", !.typ = "vp", !.id = i,
                                         !.pid = GenesisNodes[i].pid, !.primary = TRUE]]
    /\ role = [a \in Auditors |-> [st |-> "none", node |-> None]]
    /\ occupied = {}
    /\ names = [x \in Name |-> None]
    /\ pids = [x \in Pid |-> None]
    /\ members = DOMAIN GenesisNodes

NewNode ==
    {[NoNode EXCEPT !.typ = "vp", !.pid = x, !.id = i] : x \in Pid, i \in 1..MaxId}
    \cup {[NoNode EXCEPT !.typ = "nvp", !.name = x, !.permit = p] : x \in Name, p \in Permit}

Next ==
    \/ \E c \in Admins, n \in Accounts, i \in NewNode : i.typ \in Types /\ RegisterNode(c, n, i)
    \/ \E c \in Admins, n \in Accounts : LogoutNode(c, n)
    \/ \E c \in Admins \cup Auditors, n \in Accounts, x \in Name, p \in Permit :
           UpdateNode(c, n, x, p)
    \/ \E c \in Admins, a \in Auditors, n \in Accounts : RegisterRole(c, a, n)
    \/ \E c \in Admins, a \in Auditors, n \in Accounts : BindRole(c, a, n)
    \/ \E c \in Admins \cup Auditors, a \in Auditors : (c \in Admins \/ c = a) /\ LogoutRole(c, a)
    \/ \E a \in Admins, id \in DOMAIN book.p, v \in {"approve", "reject"} : VoteProposal(a, id, v)
    \/ \E a \in Admins \cup Auditors, id \in DOMAIN book.p : WithdrawProposal(a, id)

Spec == Init /\ [][Next]_vars

-----------------------------------------------------------------------------
NodeStatus == {"none", "unavailable", "registing", "available", "updating", "binding",
               "binded", "logouting", "forbidden"}
RoleStatus == {"none", "unavailable", "registing", "available", "binding", "frozen",
               "logouting", "forbidden"}

(* Every part of the state has its type, and the status index lists the    *)
(* proposals of each status.                                               *)
TypeOK ==
    /\ \A n \in Accounts : /\ node[n].st \in NodeStatus
                           /\ node[n].admin \in Auditors \cup {None}
                           /\ node[n].typ = "vp" => node[n].st \notin {"binding", "binded"}
    /\ \A a \in Auditors : role[a].st \in RoleStatus /\ role[a].node \in Accounts \cup {None}
    /\ IndexAgrees(book)

(* The ids the node events announce to consensus are those of the vp nodes  *)
(* in service, and no two of them share an id: nodes register and leave one *)
(* at a time (hasVpNodeGoverned), and the next id is above all others.      *)
MembersAgree ==
    LET serving == {n \in Accounts : node[n].typ = "vp"
                                     /\ node[n].st \in {"available", "logouting"}}
    IN  /\ members = {node[n].id : n \in serving}
        /\ \A m, n \in serving : node[m].id = node[n].id => m = n

(* No audit administrator serves, or is being given, a node that has been   *)
(* logged out: PauseAuditAdmin freezes them, and one who was being logged   *)
(* out is frozen when that is rejected.                                     *)
LoggedOutNodeServesNobody ==
    \A a \in Auditors :
        role[a].st \in {"available", "registing", "binding"} => node[role[a].node].st # "forbidden"
=============================================================================
