--------------------------------- MODULE Chains --------------------------------
(***************************************************************************)
(* Application chains, their validation rules and their services           *)
(* (contracts/appchain_manager.go, rule_manager.go, service_manager.go and *)
(* the appchain administrators of role.go) on the proposal book of         *)
(* Governance.  The three contracts govern each other: a chain that stops  *)
(* pauses its services and their proposals, a chain whose master rule is   *)
(* replaced is frozen meanwhile, a chain that leaves clears both.          *)
(*                                                                         *)
(* One transaction is one step, on a world w as in Roles.  The status       *)
(* machines of chains, rules and services live in bitxhub-core and are     *)
(* taken from how these contracts and their tests use them.                *)
(***************************************************************************)
EXTENDS Governance

CONSTANTS Chain,         \* chain ids
          Account,       \* addresses that may administer chains
          ChainName, Rule, Service, ServiceName,
          ChainOf,       \* the chain part of a service id
          DefaultRule,   \* validator.HappyRuleAddr
          ZeroModules,   \* modules whose strategy is zero-permission
          WithdrawLocked, \* whether proposers also withdraw proposals that are locked
          None,          \* "not found"
          MaxProposals   \* bound on the length of the book

ASSUME ChainsAssumption == DefaultRule \in Rule /\ ChainOf \in [Service -> Chain]

VARIABLES book,     \* the proposal book
          chain,    \* status, name, trust root and recorded admins of every chain
          taken,    \* occupied chain ids, chain names and accounts
          admin,    \* AppchainAdminKey, RoleKey and RoleAppchainAdminKey
          rule,     \* status of every rule of every chain
          svc,      \* status and name of every service
          svcTaken  \* occupied service names

vars == <<book, chain, taken, admin, rule, svc, svcTaken>>

World == [b |-> book, chain |-> chain, taken |-> taken, admin |-> admin, rule |-> rule,
          svc |-> svc, svcTaken |-> svcTaken, err |-> FALSE]

Commit(w) ==
    /\ ~w.err
    /\ book' = w.b /\ chain' = w.chain /\ taken' = w.taken /\ admin' = w.admin
    /\ rule' = w.rule /\ svc' = w.svc /\ svcTaken' = w.svcTaken

-----------------------------------------------------------------------------
(* The status machines of bitxhub-core.                                    *)

ChainStates ==
    [update |-> {"available", "frozen"}, freeze |-> {"available"}, activate |-> {"frozen"},
     logout |-> {"available", "updating", "freezing", "activating", "frozen"},
     pause |-> {"available", "frozen"}, unpause |-> {"frozen"}]

ChainFsm(s, event, last) ==
    CASE event = "update" /\ s \in {"available", "frozen", "logouting"} -> "updating"
      [] event = "freeze" /\ s \in {"available", "logouting"} -> "freezing"
      [] event = "activate" /\ s \in {"frozen", "logouting"} -> "activating"
      [] event = "logout" /\ s \in ChainStates["logout"] -> "logouting"
      [] event = "pause" /\ s = "available" -> "frozen"
      [] event = "unpause" /\ s = "frozen" -> last
      [] event = "approve" /\ s \in {"updating", "activating"} -> "available"
      [] event = "approve" /\ s = "freezing" -> "frozen"
      [] event = "approve" /\ s = "logouting" -> "forbidden"
      [] event = "reject" /\ s = "updating" -> "frozen"
      [] event = "reject" /\ s \in {"freezing", "activating", "logouting"} -> last
      [] OTHER -> ""

ServiceStates ==
    [register |-> {"none", "unavailable"}, update |-> {"available", "frozen"},
     freeze |-> {"available"}, activate |-> {"frozen"},
     logout |-> {"available", "updating", "freezing", "activating", "frozen"},
     pause |-> {"available", "updating", "freezing", "activating"}, unpause |-> {"pause"},
     clear |-> {"registing", "available", "updating", "freezing", "activating", "frozen",
                "pause", "logouting"}]

ServiceFsm(s, event, last) ==
    CASE event = "update" /\ s \in {"available", "frozen", "logouting"} -> "updating"
      [] event = "freeze" /\ s \in {"available", "logouting"} -> "freezing"
      [] event = "activate" /\ s \in {"available", "frozen", "logouting"} -> "activating"
      [] event = "logout" /\ s \in ServiceStates["logout"] -> "logouting"
      [] event = "pause" /\ s \in ServiceStates["pause"] -> "pause"
      [] event = "unpause" /\ s = "pause" -> "available"
      [] event = "clear" /\ s \in ServiceStates["clear"] -> "forbidden"
      [] event = "approve" /\ s \in {"registing", "updating", "activating"} -> "available"
      [] event = "approve" /\ s = "freezing" -> "frozen"
      [] event = "approve" /\ s = "logouting" -> "forbidden"
      [] event = "reject" /\ s = "updating" -> "frozen"
      [] event = "reject" /\ s \in {"registing", "freezing", "activating", "logouting"} -> last
      [] OTHER -> ""

RuleFsm(s, event, last) ==
    CASE event = "bind" /\ s = "bindable" -> "available"
      [] event = "update" /\ s = "bindable" -> "binding"
      [] event = "unbind" /\ s = "available" -> "unbinding"
      [] event = "logout" /\ s = "bindable" -> "forbidden"
      [] event = "clear" -> "forbidden"
      [] event = "approve" /\ s = "binding" -> "available"
      [] event = "approve" /\ s = "unbinding" -> "bindable"
      [] event = "reject" /\ s \in {"binding", "unbinding"} -> last
      [] OTHER -> ""

IsAvailable(s) == s \in {"available", "freezing"}

ChainStatus(w, c, event, last) ==
    LET To(s) == IF w.err \/ s = "" THEN Fail(w) ELSE [w EXCEPT !.chain[c].st = s]
    IN  To(ChainFsm(w.chain[c].st, event, last))
ServiceStatus(w, s, event, last) ==
    LET To(st) == IF w.err \/ st = "" THEN Fail(w) ELSE [w EXCEPT !.svc[s].st = st]
    IN  To(ServiceFsm(w.svc[s].st, event, last))
RuleStatus(w, c, r, event, last) ==
    LET To(s) == IF w.err \/ w.rule[c][r] = "none" \/ s = "" THEN Fail(w)
                 ELSE [w EXCEPT !.rule[c][r] = s]
    IN  To(RuleFsm(w.rule[c][r], event, last))

(* GetMaster: the rule a chain is bound to, also while it is being replaced. *)
GetMaster(w, c) == {r \in Rule : w.rule[c][r] \in {"available", "unbinding"}}
HasMasterRule(w, c) == \E r \in GetMaster(w, c) : w.rule[c][r] = "available"

-----------------------------------------------------------------------------
(* Accounts and appchain administrators (role.go).                         *)

OccupyAccount(w, as) == [w EXCEPT !.taken.acc = @ \cup as]
FreeAccount(w, as) == [w EXCEPT !.taken.acc = @ \ as]

(* The role keys of the old administrators go, their ids stay in the map. *)
UpdateAppchainAdmin(w, c, as) ==
    [w EXCEPT !.admin.role = [a \in Account |->
                  IF a \in as THEN c
                  ELSE IF a \in w.admin.ids[c] THEN None ELSE @[a]],
              !.admin.ids[c] = @ \cup as]

(* GetAppchainAdmin fails when an id of the map has no role. *)
GetAppchainAdmin(w, c) ==
    [ok |-> w.admin.ids[c] # {} /\ \A a \in w.admin.ids[c] : w.admin.role[a] # None,
     ids |-> w.admin.ids[c]]

recordChainAdmins(w, c, as) ==
    [w EXCEPT !.chain[c].admins = as,
              !.admin.key = [a \in Account |-> IF a \in as THEN c ELSE @[a]]]

(* PermissionSelf of the appchain contract and of the other two. *)
ChainSelf(w, c, a) == a \notin Supers /\ w.admin.key[a] = c
checkPermission(w, c, a) ==
    a \notin Supers /\ GetAppchainAdmin(w, c).ok /\ a \in GetAppchainAdmin(w, c).ids

-----------------------------------------------------------------------------
(* Services.                                                               *)

Strategy(typ) == [typ |-> IF typ \in ZeroModules THEN "zero" ELSE "majority",
                  exp |-> SimpleMajority]

Submit(w, from, event, typ, obj, last, extra) ==
    Booked(w, SubmitProposal(w.b, from, event, typ, obj, last, extra, Supers, Strategy(typ)))

freeServiceName(w, n) == [w EXCEPT !.svcTaken[n] = None]
freeUnlessKept(w, n, kept) == IF n = kept THEN w ELSE freeServiceName(w, n)

pauseService(w, s) ==
    LET x == IF w.svc[s].st \in ServiceStates["pause"] THEN ServiceStatus(w, s, "pause", "")
             ELSE w
    IN  Then(x, LAMBDA y : [y EXCEPT !.b = lockLowPriorityProposal(@, s, "pause").b])

clearService(w, s) ==
    LET x == IF w.svc[s].st \in ServiceStates["clear"] THEN ServiceStatus(w, s, "clear", "")
             ELSE w
    IN  Then(x, LAMBDA y : [y EXCEPT !.b = EndObjProposal(@, s, "clear")])

checkAppchain(w, c) == IsAvailable(w.chain[c].st)
PauseUnlessChainAvailable(w, s) ==
    IF checkAppchain(w, ChainOf[s]) THEN w ELSE pauseService(w, s)

ServiceManage(w, k) ==
    LET s == k.obj
        ok == k.next = "approve"
        Rest(x) ==
          CASE k.event = "register" /\ ok ->
                 PauseUnlessChainAvailable([x EXCEPT !.svc[s].listed = TRUE], s)
            [] k.event = "register" /\ ~ok -> freeServiceName(x, x.svc[s].name)
            [] k.event = "update" /\ ok ->
                 freeUnlessKept([x EXCEPT !.svc[s].name = k.extra.new], k.extra.old, k.extra.new)
            [] k.event = "update" /\ ~ok -> freeUnlessKept(x, k.extra.new, k.extra.old)
            [] k.event = "logout" /\ ok -> clearService(x, s)
            [] k.event = "logout" /\ ~ok -> PauseUnlessChainAvailable(x, s)
            [] OTHER -> x
    IN  Then(ServiceStatus(w, s, k.next, k.last), Rest)

(* Mutant: the locked proposal is forgotten. *)
UnpauseStatusOnly(w, s) ==
    IF w.svc[s].st = "pause" THEN ServiceStatus(w, s, "unpause", "") ELSE w

(* The proposal the pause had locked is restored, and its event replayed.   *)
unPauseService(w, s) ==
    LET Replay(x, u) == IF u.found THEN ServiceManage([x EXCEPT !.b = u.b], u.call) ELSE x
    IN  Then(IF w.svc[s].st = "pause" THEN ServiceStatus(w, s, "unpause", "") ELSE w,
             LAMBDA x : Replay(x, UnLockLowPriorityProposal(x.b, s, "unpause", None)))

Listed(w, c) == {s \in Service : ChainOf[s] = c /\ w.svc[s].listed}
ForServices(w, c, Op(_, _)) ==
    FoldSet(LAMBDA s, x : IF x.err THEN x ELSE Op(x, s), w, Listed(w, c))

UnPauseChainService(w, c) == ForServices(w, c, unPauseService)
PauseChainService(w, c) == ForServices(w, c, pauseService)
ClearChainService(w, c) == ForServices(w, c, clearService)

-----------------------------------------------------------------------------
(* Chains.                                                                 *)

freeChainName(w, n) == [w EXCEPT !.taken.name[n] = None]

RegisterRuleFirst(w, c, r) ==
    RuleStatus([w EXCEPT !.rule[c] = [x \in Rule |-> IF x \in {DefaultRule, r} THEN "bindable"
                                                     ELSE @[x]]],
               c, r, "bind", "bindable")

manageRegisterApprove(w, c, e) ==
    LET x == [w EXCEPT !.chain[c] = [st |-> "available", name |-> e.name, trust |-> 0,
                                     admins |-> {}]]
    IN  RegisterRuleFirst(UpdateAppchainAdmin(recordChainAdmins(x, c, e.admins), c, e.admins),
                          c, e.rule)

manageRegisterReject(w, c, e) ==
    FreeAccount(freeChainName([w EXCEPT !.taken.id = @ \ {c}], e.name), e.admins)

(* The accounts of the old list are freed, those kept on the list included. *)
manageUpdateApprove(w, c, e) ==
    LET x == [w EXCEPT !.chain[c].name = e.name.new, !.chain[c].trust = e.trust]
        y == IF e.name.new = e.name.old THEN x ELSE freeChainName(x, e.name.old)
    IN  IF e.admins.new = e.admins.old THEN y
        ELSE UpdateAppchainAdmin(
                 recordChainAdmins(FreeAccount(y, e.admins.old), c, e.admins.new),
                 c, e.admins.new)

manageUpdateReject(w, e) ==
    LET x == IF e.name.new = e.name.old THEN w ELSE freeChainName(w, e.name.new)
    IN  IF e.admins.new = e.admins.old THEN x ELSE FreeAccount(x, e.admins.new)

ClearRule(w, c) ==
    LET binding == {r \in Rule : w.rule[c][r] = "binding"}
        x == [w EXCEPT !.rule[c] = [r \in Rule |-> IF @[r] = "none" THEN "none" ELSE "forbidden"]]
    IN  [x EXCEPT !.b = FoldSet(LAMBDA r, y : EndObjProposal(y, <<c, r>>, "clear"), @, binding)]

AppchainManage(w, k) ==
    LET c == k.obj
        ok == k.next = "approve"
        Rest(x) ==
          CASE k.event = "freeze" /\ ok -> PauseChainService(x, c)
            [] k.event = "logout" /\ ok ->
                 Then(ClearChainService(x, c), LAMBDA y : ClearRule(y, c))
            [] k.event = "update" /\ ~ok -> manageUpdateReject(x, k.extra)
            [] <<k.event, ok>> \in {<<"update", TRUE>>, <<"activate", TRUE>>,
                                    <<"logout", FALSE>>} ->
                 UnPauseChainService(IF k.event = "update" THEN manageUpdateApprove(x, c, k.extra)
                                     ELSE x, c)
            [] OTHER -> x
    IN  CASE k.event = "register" /\ ok -> manageRegisterApprove(w, c, k.extra)
          [] k.event = "register" /\ ~ok -> manageRegisterReject(w, c, k.extra)
          [] OTHER -> Then(ChainStatus(w, c, k.next, k.last), Rest)

(* Called by the rule contract while a master rule is replaced. *)
PauseAppchain(w, c) ==
    CASE w.chain[c].st \notin ChainStates["pause"] -> Fail(w)
      [] w.chain[c].st = "available" ->
           Then(ChainStatus(w, c, "pause", ""), LAMBDA x : PauseChainService(x, c))
      [] OTHER -> w

UnPauseAppchain(w, c, last) ==
    CASE w.chain[c].st \notin ChainStates["unpause"] -> Fail(w)
      [] last = "frozen" -> w
      [] OTHER -> Then(ChainStatus(w, c, "unpause", last),
                       LAMBDA x : IF last = "available" THEN UnPauseChainService(x, c) ELSE x)

-----------------------------------------------------------------------------
(* Rules, and the dispatch of governance.go's manageObj.                   *)

(* Mutant: the old master rule stays as it is. *)
KeepsOldMaster(w, k) ==
    LET e == k.extra
        new == RuleStatus(w, e.c, e.new, k.next, k.last)
    IN  IF new.err \/ k.next # "approve" THEN new ELSE UnPauseAppchain(new, e.c, e.chain)

RuleManage(w, k) ==
    LET e == k.extra
        old == RuleStatus(w, e.c, e.old, k.next, "available")
    IN  Then(RuleStatus(old, e.c, e.new, k.next, k.last),
             LAMBDA x : IF k.next = "approve" THEN UnPauseAppchain(x, e.c, e.chain) ELSE x)

manageObj(w, k) ==
    CASE k.typ = "appchain_mgr" -> AppchainManage(w, k)
      [] k.typ = "rule_mgr" -> RuleManage(w, k)
      [] k.typ = "service_mgr" -> ServiceManage(w, k)

FinishProposal(w, id) ==
    LET Decide(r) == manageObj([w EXCEPT !.b = r.b], r.call) IN Decide(handleResult(w.b, id))

(* The result of ZeroPermission is ignored, its effects stay. *)
ZeroPermission(w) ==
    LET id == Len(w.b.p)
        closed == [w EXCEPT !.b = Close(@, id, "approve", "zero_permission")]
    IN  IF w.err \/ w.b.p[id].strategy # "zero" THEN w
        ELSE [FinishProposal(closed, id) EXCEPT !.err = FALSE]

-----------------------------------------------------------------------------
(* Transactions.  a is the caller.                                         *)

MaySubmit == Len(book.p) < MaxProposals
Admin(a) == a \in Supers

RegisterAppchain(a, c, n, as, r) ==
    LET x == OccupyAccount([World EXCEPT !.taken.id = @ \cup {c}, !.taken.name[n] = c], as)
    IN  /\ MaySubmit /\ a \in as
        /\ c \notin taken.id /\ taken.name[n] = None
        /\ as \cap taken.acc = {}
        /\ Commit(ZeroPermission(Submit(x, a, "register", "appchain_mgr", c, "",
                                        [name |-> n, admins |-> as, rule |-> r])))

(* A change of the description alone leaves the modelled state alone. *)
checkInfo(w, c, a, n, as) ==
    /\ n = w.chain[c].name \/ w.taken.name[n] = None
    /\ a \in as
    /\ (as \ w.chain[c].admins) \cap w.taken.acc = {}

UpdateAppchain(a, c, n, as, t) ==
    LET old == chain[c]
        pre == [World EXCEPT !.taken.name[n] = c]
        occ == IF as = old.admins THEN pre ELSE OccupyAccount(pre, as)
        sub == Submit(occ, a, "update", "appchain_mgr", c, old.st,
                      [name |-> [old |-> old.name, new |-> n], trust |-> t,
                       admins |-> [old |-> old.admins, new |-> as]])
        x == ChainStatus(sub, c, "update", old.st)
    IN  /\ MaySubmit /\ ChainSelf(World, c, a)
        /\ old.st \in ChainStates["update"]
        /\ checkInfo(World, c, a, n, as)
        /\ n # old.name \/ as # old.admins \/ t # old.trust
        /\ HasMasterRule(World, c)
        /\ Commit(ZeroPermission(Then(x, LAMBDA y : PauseChainService(y, c))))

basicGovernance(a, c, event) ==
    LET sub == Submit(World, a, event, "appchain_mgr", c, chain[c].st, None)
    IN  ChainStatus(sub, c, event, chain[c].st)

FreezeAppchain(a, c) ==
    /\ MaySubmit /\ Admin(a) /\ chain[c].st \in ChainStates["freeze"]
    /\ Commit(ZeroPermission(basicGovernance(a, c, "freeze")))

ActivateAppchain(a, c) ==
    /\ MaySubmit /\ HasMasterRule(World, c)
    /\ Admin(a) \/ ChainSelf(World, c, a)
    /\ chain[c].st \in ChainStates["activate"]
    /\ Commit(ZeroPermission(basicGovernance(a, c, "activate")))

LogoutAppchain(a, c) ==
    /\ MaySubmit /\ ChainSelf(World, c, a) /\ chain[c].st \in ChainStates["logout"]
    /\ Commit(ZeroPermission(Then(basicGovernance(a, c, "logout"),
                                  LAMBDA y : PauseChainService(y, c))))

RegisterRule(a, c, r) ==
    /\ checkPermission(World, c, a)
    /\ chain[c].st \notin {"none", "forbidden"}
    /\ rule[c][r] = "none" /\ r # DefaultRule
    /\ Commit([World EXCEPT !.rule[c][r] = "bindable"])

UpdateMasterRule(a, c, r) ==
    LET w == PauseAppchain(World, c)
    IN  /\ MaySubmit /\ checkPermission(World, c, a)
        /\ chain[c].st \in {"available", "frozen"}
        /\ rule[c][r] = "bindable"
        /\ \E m \in GetMaster(World, c) :
             LET sub == Submit(w, a, "update", "rule_mgr", <<c, r>>, "bindable",
                               [c |-> c, old |-> m, new |-> r, chain |-> chain[c].st])
                 new == RuleStatus(sub, c, r, "update", "bindable")
             IN  Commit(ZeroPermission(RuleStatus(new, c, m, "unbind", rule[c][m])))

LogoutRule(a, c, r) ==
    /\ checkPermission(World, c, a)
    /\ chain[c].st \notin {"none", "forbidden"}
    /\ rule[c][r] = "bindable" /\ r # DefaultRule
    /\ Commit(RuleStatus(World, c, r, "logout", "bindable"))

(* The claim of a service on a name does not keep it from claiming it again. *)
checkServiceInfo(w, s, n, isRegister) ==
    w.svcTaken[n] \in (IF isRegister THEN {None} ELSE {None, s})

RegisterService(a, s, n) ==
    LET c == ChainOf[s]
        sub == Submit([World EXCEPT !.svcTaken[n] = s], a, "register", "service_mgr", s,
                      "unavailable", None)
        pre == [sub EXCEPT !.svc[s].st = "registing", !.svc[s].name = n]
    IN  /\ MaySubmit /\ checkPermission(World, c, a)
        /\ svc[s].st \in ServiceStates["register"]
        /\ checkAppchain(World, c)
        /\ checkServiceInfo(World, s, n, TRUE)
        /\ Commit(ZeroPermission(pre))

(* n = svc[s].name is a change of the details; a change of the permissions  *)
(* or the introduction needs no proposal and no modelled state.             *)
UpdateService(a, s, n) ==
    LET old == svc[s]
        sub == Submit([World EXCEPT !.svcTaken[n] = IF n = old.name THEN @ ELSE s], a, "update",
                      "service_mgr", s, old.st, [old |-> old.name, new |-> n])
    IN  /\ MaySubmit /\ old.st \in ServiceStates["update"]
        /\ checkPermission(World, ChainOf[s], a)
        /\ checkServiceInfo(World, s, n, FALSE)
        /\ Commit(ZeroPermission(ServiceStatus(sub, s, "update", old.st)))

ServiceGovernance(a, s, event) ==
    LET sub == Submit(World, a, event, "service_mgr", s, svc[s].st, None)
    IN  /\ MaySubmit /\ svc[s].st \in ServiceStates[event]
        /\ Commit(ZeroPermission(ServiceStatus(sub, s, event, svc[s].st)))

FreezeService(a, s) == Admin(a) /\ ServiceGovernance(a, s, "freeze")
ActivateService(a, s) ==
    /\ Admin(a) \/ checkPermission(World, ChainOf[s], a)
    /\ ServiceGovernance(a, s, "activate")
LogoutService(a, s) ==
    checkPermission(World, ChainOf[s], a) /\ ServiceGovernance(a, s, "logout")

VoteProposal(a, id, ballot) ==
    LET v == Vote(book, id, a, ballot)
        w == [World EXCEPT !.b = v.b]
    IN  /\ Admin(a) /\ v.ok
        /\ Commit(IF v.over THEN FinishProposal(w, id) ELSE w)

WithdrawProposal(a, id) ==
    /\ book.p[id].from = a
    /\ book.p[id].status \in (IF WithdrawLocked THEN Open ELSE {"proposed"})
    /\ Commit(FinishProposal([World EXCEPT !.b = endProposal(@, id, "withdraw")], id))

-----------------------------------------------------------------------------
Init ==
    /\ book = EmptyBook
    /\ chain = [c \in Chain |-> [st |-> "none", name |-> None, trust |-> 0, admins |-> {}]]
    /\ taken = [id |-> {}, name |-> [n \in ChainName |-> None], acc |-> Supers]
    /\ admin = [key |-> [a \in Account |-> None], role |-> [a \in Account |-> None],
                ids |-> [c \in Chain |-> {}]]
    /\ rule = [c \in Chain |-> [r \in Rule |-> "none"]]
    /\ svc = [s \in Service |-> [st |-> "none", name |-> None, listed |-> FALSE]]
    /\ svcTaken = [n \in ServiceName |-> None]

AdminSets == {as \in SUBSET Account : as # {} /\ Cardinality(as) <= 2}
Caller == Account \cup Supers

Next ==
    \/ \E a \in Account, c \in Chain, n \in ChainName, as \in AdminSets, r \in Rule :
           RegisterAppchain(a, c, n, as, r)
    \/ \E a \in Account, c \in Chain, n \in ChainName, as \in AdminSets, t \in {0, 1} :
           UpdateAppchain(a, c, n, as, t)
    \/ \E a \in Caller, c \in Chain : FreezeAppchain(a, c)
    \/ \E a \in Caller, c \in Chain : ActivateAppchain(a, c)
    \/ \E a \in Caller, c \in Chain : LogoutAppchain(a, c)
    \/ \E a \in Caller, c \in Chain, r \in Rule : RegisterRule(a, c, r)
    \/ \E a \in Caller, c \in Chain, r \in Rule : UpdateMasterRule(a, c, r)
    \/ \E a \in Caller, c \in Chain, r \in Rule : LogoutRule(a, c, r)
    \/ \E a \in Caller, s \in Service, n \in ServiceName : RegisterService(a, s, n)
    \/ \E a \in Caller, s \in Service, n \in ServiceName : UpdateService(a, s, n)
    \/ \E a \in Caller, s \in Service : FreezeService(a, s)
    \/ \E a \in Caller, s \in Service : ActivateService(a, s)
    \/ \E a \in Caller, s \in Service : LogoutService(a, s)
    \/ \E a \in Supers, id \in DOMAIN book.p, v \in {"approve", "reject"} :
           VoteProposal(a, id, v)
    \/ \E a \in Caller, id \in DOMAIN book.p : WithdrawProposal(a, id)

Spec == Init /\ [][Next]_vars

-----------------------------------------------------------------------------
(* Statuses, claims and the status index of the book are well formed. *)
TypeOK ==
    /\ IndexAgrees(book)
    /\ \A c \in Chain : /\ chain[c].st \in {"none", "available", "updating", "freezing",
                              "frozen", "activating", "logouting", "forbidden"}
                        /\ chain[c].admins \subseteq Account
    /\ \A s \in Service : svc[s].st \in ServiceStates["clear"] \cup
                              {"none", "unavailable", "forbidden"}

Living(c) == chain[c].st \notin {"none", "forbidden"}

(* A chain keeps the claim on the name it carries, whatever becomes of the  *)
(* updates that would rename it: so no two chains carry the same name       *)
(* (isOccupiedName).                                                        *)
NamesOwned == \A c \in Chain : Living(c) => taken.name[chain[c].name] = c

(* A chain has exactly one master rule at any time, and a candidate that is *)
(* being bound exactly while the master is being unbound: proofs of the     *)
(* chain can always be verified by a definite rule.                         *)
OneMaster ==
    \A c \in Chain : Living(c) =>
        /\ Cardinality(GetMaster(World, c)) = 1
        /\ (\E r \in Rule : rule[c][r] = "binding") <=> ~HasMasterRule(World, c)

(* A rule that is being bound is decided upon by an open proposal: a chain  *)
(* whose master rule is being replaced does not wait for ever.              *)
BindingHasProposal ==
    \A c \in Chain, r \in Rule : rule[c][r] = "binding" =>
        \E i \in DOMAIN book.p : book.p[i].obj = <<c, r>> /\ book.p[i].status = "proposed"

(* Every service the pause of its chain stopped is resumed when the chain   *)
(* is available again, and the proposals about it that the pause locked are *)
(* reopened: one that is still paused is locked by another open proposal.   *)
ResumedWithChain ==
    \A s \in Service : chain[ChainOf[s]].st = "available" =>
        /\ svc[s].st # "pause"
        /\ \A i \in getProposalsByObjStatus(book, s, "paused") :
              \E j \in DOMAIN book.p : book.p[j].lock = i /\ book.p[j].status \in Open

(* A proposal that an open proposal has locked stays paused until that one  *)
(* is decided (handleResult, "unlock low-priority proposal").               *)
LockHeld ==
    \A j \in DOMAIN book.p :
        book.p[j].lock # 0 /\ book.p[j].status \in Open
            => book.p[book.p[j].lock].status = "paused"
=============================================================================
