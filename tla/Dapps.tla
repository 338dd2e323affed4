--------------------------------- MODULE Dapps ---------------------------------
(***************************************************************************)
(* The dapp registry (contracts/dapp_manager.go) on the proposal book of   *)
(* Governance: registration, update, freezing, activation and transfer of  *)
(* dapps, with the indexes by name, contract and owner.                    *)
(*                                                                         *)
(* A dapp id is <<owner, n>>, the owner's address and a number             *)
(* (packageDappInfo).  The url, permissions and description of a dapp are  *)
(* one value, info, of which only a change matters.                        *)
(***************************************************************************)
EXTENDS Governance

CONSTANTS Account,       \* addresses that own dapps
          Name, Contract,
          ZeroPermitted, \* whether the strategy of dapp_mgr is zero-permission
          None,          \* "not found"
          MaxProposals,  \* bound on the length of the book
          MaxDapps       \* bound on the dapps one account registers

VARIABLES book,   \* the proposal book
          dapp,   \* DappKey: status, name, contracts, owner and transfer records
          byName, \* DappNameKey, the index of GetDappByName
          taken,  \* occupied names and contract addresses
          owned   \* OwnerKey: the ids an account owns or once owned

vars == <<book, dapp, byName, taken, owned>>

Id == Account \X (0..MaxDapps)

World == [b |-> book, dapp |-> dapp, byName |-> byName, taken |-> taken, owned |-> owned,
          err |-> FALSE]

Commit(w) ==
    /\ ~w.err
    /\ book' = w.b /\ dapp' = w.dapp /\ byName' = w.byName
    /\ taken' = w.taken /\ owned' = w.owned

-----------------------------------------------------------------------------
(* The status machine.                                                     *)

dappStateMap ==
    [register |-> {"unavailable"}, update |-> {"available", "frozen", "transferring"},
     freeze |-> {"available", "transferring"}, activate |-> {"frozen"},
     transfer |-> {"available"}]

setFSM(s, event, last) ==
    CASE event = "update" /\ s \in {"available", "transferring", "frozen"} -> "updating"
      [] event = "freeze" /\ s \in {"available", "transferring"} -> "freezing"
      [] event = "activate" /\ s \in {"frozen", "freezing"} -> "activating"
      [] event = "transfer" /\ s \in {"available", "freezing", "updating"} -> "transferring"
      [] event = "approve" /\ s \in {"registing", "updating", "activating", "transferring"}
           -> "available"
      [] event = "approve" /\ s = "freezing" -> "frozen"
      [] event = "reject" /\ s = "updating" -> "frozen"
      [] event = "reject" /\ s \in {"registing", "freezing", "activating", "transferring"}
           -> last
      [] OTHER -> ""

(* Nothing is stored under the id of a registration. *)
governancePre(d, event) ==
    \/ dapp[d].st \in dappStateMap[event]
    \/ dapp[d].st = "none" /\ event = "register"

changeStatus(w, d, event, last) ==
    LET To(s) == IF w.err \/ s = "" THEN Fail(w) ELSE [w EXCEPT !.dapp[d].st = s]
    IN  To(setFSM(w.dapp[d].st, event, last))

Admin(a) == a \in Supers
checkPermission(d, a) == [self |-> dapp[d].owner = a,
                          admin |-> dapp[d].owner # a /\ Admin(a)]

-----------------------------------------------------------------------------
(* The indexes.                                                            *)

occupyDappName(w, n, d) == [w EXCEPT !.taken.name[n] = d]
freeDappName(w, n) == [w EXCEPT !.taken.name[n] = None]
occupyContractAddr(w, cs, d) ==
    [w EXCEPT !.taken.con = [k \in Contract |-> IF k \in cs THEN d ELSE @[k]]]
freeContractAddr(w, cs) ==
    [w EXCEPT !.taken.con = [k \in Contract |-> IF k \in cs THEN None ELSE @[k]]]
addToOwner(w, a, d) == [w EXCEPT !.owned[a] = @ \cup {d}]

register(w, d) ==
    addToOwner([w EXCEPT !.byName[w.dapp[d].name] = d], w.dapp[d].owner, d)

(* The index of the old name is removed and written again; the new name is  *)
(* never indexed.                                                           *)
update(w, d, n, cs) ==
    [w EXCEPT !.dapp[d].name = n, !.dapp[d].con = cs,
              !.byName[w.dapp[d].name] = IF n # w.dapp[d].name THEN d ELSE @]

(* Mutant: the account that hands a dapp over loses the id. *)
ForgetsFormerOwner(w, d, rec) ==
    LET x == [w EXCEPT !.dapp[d].recs = Append(@, rec), !.dapp[d].owner = rec.to,
                       !.owned[rec.from] = @ \ {d}]
    IN  addToOwner(x, rec.to, d)

transfer(w, d, rec) ==
    addToOwner([w EXCEPT !.dapp[d].recs = Append(@, rec), !.dapp[d].owner = rec.to], rec.to, d)

-----------------------------------------------------------------------------
(* Manage, called when a proposal is decided.                              *)

ManageApproved(w, k) ==
    LET d == k.obj
        e == k.extra
        named == IF e.name.edit THEN freeDappName(w, e.name.old) ELSE w
        moved == IF e.con.edit
                 THEN occupyContractAddr(freeContractAddr(named, e.con.old), e.con.new, d)
                 ELSE named
    IN  CASE k.event = "register" -> register(w, d)
          [] k.event = "update" -> update(moved, d, e.name.new, e.con.new)
          [] k.event = "transfer" -> transfer(w, d, e)
          [] OTHER -> w

ManageRejected(w, k) ==
    LET d == k.obj
        e == k.extra
        named == IF e.name.edit THEN freeDappName(w, e.name.new) ELSE w
    IN  CASE k.event = "register" ->
               freeContractAddr(freeDappName(w, w.dapp[d].name), w.dapp[d].con)
          [] k.event = "update" ->
               IF e.con.edit
               THEN occupyContractAddr(freeContractAddr(named, e.con.new), e.con.old, d)
               ELSE named
          [] OTHER -> w

Manage(w, k) ==
    Then(changeStatus(w, k.obj, k.next, k.last),
         LAMBDA x : IF k.next = "approve" THEN ManageApproved(x, k) ELSE ManageRejected(x, k))

FinishProposal(w, id) ==
    LET Decide(r) == Manage([w EXCEPT !.b = r.b], r.call) IN Decide(handleResult(w.b, id))

Strategy == [typ |-> IF ZeroPermitted THEN "zero" ELSE "simple", exp |-> SimpleMajority]

Submit(w, a, event, d, last, extra) ==
    Booked(w, SubmitProposal(w.b, a, event, "dapp_mgr", d, last, extra, Supers, Strategy))

(* The result of ZeroPermission is ignored, its effects stay. *)
ZeroPermission(w) ==
    LET id == Len(w.b.p)
        closed == [w EXCEPT !.b = Close(@, id, "approve", "zero_permission")]
    IN  IF w.err \/ ~ZeroPermitted THEN w
        ELSE [FinishProposal(closed, id) EXCEPT !.err = FALSE]

-----------------------------------------------------------------------------
(* Transactions.  a is the caller.                                         *)

MaySubmit == Len(book.p) < MaxProposals

packageDappInfo(a) == <<a, Cardinality(owned[a])>>

checkDappInfo(d, n, cs, isRegister) ==
    LET free == IF isRegister THEN {None} ELSE {None, d}
    IN  taken.name[n] \in free /\ \A k \in cs : taken.con[k] \in free

RegisterDapp(a, n, cs) ==
    LET d == packageDappInfo(a)
        occ == occupyContractAddr(occupyDappName(World, n, d), cs, d)
        sub == Submit(occ, a, "register", d, "unavailable", None)
        pre == [sub EXCEPT !.dapp[d] = [st |-> "registing", name |-> n, con |-> cs,
                                        owner |-> a, recs |-> <<>>]]
    IN  /\ MaySubmit /\ d \in Id
        /\ checkDappInfo(d, n, cs, TRUE)
        /\ governancePre(d, "register")
        /\ Commit(ZeroPermission(pre))

(* info says whether the url or the permissions change.  A change of the    *)
(* description alone is applied without a proposal and is not visible here. *)
UpdateDapp(a, d, n, cs, info) ==
    LET old == dapp[d]
        extra == [name |-> [old |-> old.name, new |-> n, edit |-> n # old.name],
                  con |-> [old |-> old.con, new |-> cs, edit |-> cs # old.con]]
        named == IF extra.name.edit THEN occupyDappName(World, n, d) ELSE World
        occ == IF extra.con.edit THEN occupyContractAddr(named, cs, d) ELSE named
        sub == Submit(occ, a, "update", d, old.st, extra)
    IN  /\ MaySubmit /\ governancePre(d, "update")
        /\ checkPermission(d, a).self
        /\ checkDappInfo(d, n, cs, FALSE)
        /\ extra.name.edit \/ extra.con.edit \/ info
        /\ Commit(ZeroPermission(changeStatus(sub, d, "update", old.st)))

basicGovernance(a, d, event, extra) ==
    LET sub == Submit(World, a, event, d, dapp[d].st, extra)
    IN  /\ MaySubmit /\ governancePre(d, event)
        /\ Commit(ZeroPermission(changeStatus(sub, d, event, dapp[d].st)))

FreezeDapp(a, d) == checkPermission(d, a).admin /\ basicGovernance(a, d, "freeze", None)

ActivateDapp(a, d) ==
    /\ checkPermission(d, a).self \/ checkPermission(d, a).admin
    /\ basicGovernance(a, d, "activate", None)

TransferDapp(a, d, to) ==
    /\ to # a
    /\ checkPermission(d, a).self
    /\ basicGovernance(a, d, "transfer", [from |-> a, to |-> to, confirm |-> FALSE])

ConfirmTransfer(a, d) ==
    /\ dapp[d].st # "none" /\ checkPermission(d, a).self
    /\ dapp[d].recs # <<>> /\ ~Last(dapp[d].recs).confirm
    /\ Commit([World EXCEPT !.dapp[d].recs[Len(dapp[d].recs)].confirm = TRUE])

VoteProposal(a, id, ballot) ==
    LET v == Vote(book, id, a, ballot)
        w == [World EXCEPT !.b = v.b]
    IN  /\ Admin(a) /\ v.ok
        /\ Commit(IF v.over THEN FinishProposal(w, id) ELSE w)

(* Proposals that are locked are not withdrawn here; Roles shows what       *)
(* becomes of an object when they are.                                      *)
WithdrawProposal(a, id) ==
    /\ book.p[id].from = a /\ book.p[id].status = "proposed"
    /\ Commit(FinishProposal([World EXCEPT !.b = endProposal(@, id, "withdraw")], id))

-----------------------------------------------------------------------------
(* Queries.                                                                *)

getOwnerAll(a) ==
    [d \in owned[a] |-> IF dapp[d].owner = a THEN dapp[d].st ELSE "transferred"]

-----------------------------------------------------------------------------
Init ==
    /\ book = EmptyBook
    /\ dapp = [d \in Id |-> [st |-> "none", name |-> None, con |-> {}, owner |-> None,
                             recs |-> <<>>]]
    /\ byName = [n \in Name |-> None]
    /\ taken = [name |-> [n \in Name |-> None], con |-> [k \in Contract |-> None]]
    /\ owned = [a \in Account |-> {}]

Caller == Account \cup Supers

Next ==
    \/ \E a \in Account, n \in Name, cs \in SUBSET Contract : RegisterDapp(a, n, cs)
    \/ \E a \in Account, d \in Id, n \in Name, cs \in SUBSET Contract, info \in BOOLEAN :
           UpdateDapp(a, d, n, cs, info)
    \/ \E a \in Caller, d \in Id : FreezeDapp(a, d)
    \/ \E a \in Caller, d \in Id : ActivateDapp(a, d)
    \/ \E a \in Account, d \in Id, to \in Account : TransferDapp(a, d, to)
    \/ \E a \in Account, d \in Id : ConfirmTransfer(a, d)
    \/ \E a \in Supers, id \in DOMAIN book.p, v \in {"approve", "reject"} :
           VoteProposal(a, id, v)
    \/ \E a \in Caller, id \in DOMAIN book.p : WithdrawProposal(a, id)

Spec == Init /\ [][Next]_vars

-----------------------------------------------------------------------------
(* Statuses are those of the machine and the status index of the book       *)
(* agrees with the proposals.                                               *)
TypeOK ==
    /\ IndexAgrees(book)
    /\ \A d \in Id : dapp[d].st \in {"none", "registing", "unavailable", "available",
                         "updating", "freezing", "frozen", "activating", "transferring"}
    /\ \A a \in Account : owned[a] \subseteq Id

Approved(d) == dapp[d].st \notin {"none", "registing", "unavailable"}

(* A registered dapp keeps its claims on its name and its contracts through *)
(* every update, decided either way: no other dapp can take them over       *)
(* (isOccupiedName, isOccupiedContractAddr).                                *)
ClaimsHeld ==
    \A d \in Id : Approved(d) =>
        /\ taken.name[dapp[d].name] = d
        /\ \A k \in dapp[d].con : taken.con[k] = d

(* The id an account registers its next dapp under is never the id of a     *)
(* dapp it registered before, however many it has handed over meanwhile:    *)
(* it is new, left over from a rejected registration, or being registered.  *)
NextIdIsFree ==
    \A a \in Account : packageDappInfo(a) \in Id => ~Approved(packageDappInfo(a))

(* Transfers form a chain from the first owner to the present one, and the  *)
(* present owner finds the dapp among its own (getOwnerAll).                *)
TransfersChain ==
    \A d \in Id : Approved(d) =>
        LET rs == dapp[d].recs
        IN  /\ \A i \in 1..Len(rs) : rs[i].from = IF i = 1 THEN d[1] ELSE rs[i - 1].to
            /\ dapp[d].owner = IF rs = <<>> THEN d[1] ELSE Last(rs).to
            /\ d \in DOMAIN getOwnerAll(dapp[d].owner)

(* A dapp that waits for a decision has an open proposal of the event it     *)
(* waits for, so that some decision brings it back to a stable status.       *)
WaitsForProposal ==
    LET event == [registing |-> "register", updating |-> "update", freezing |-> "freeze",
                  activating |-> "activate", transferring |-> "transfer"]
    IN  \A d \in Id : dapp[d].st \in DOMAIN event =>
            \E i \in getProposalsByObjStatus(book, d, "proposed") :
                book.p[i].event = event[dapp[d].st]
=============================================================================
