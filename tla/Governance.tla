------------------------------ MODULE Governance ------------------------------
(***************************************************************************)
(* The proposal book of the governance contract                           *)
(* (contracts/governance.go), as operators on a book value.  Every         *)
(* governance contract submits its proposals here; voting, withdrawal,     *)
(* zero-permission approval and a change of the electorate close them, and *)
(* closing one calls the Manage method of the contract that submitted it.  *)
(*                                                                         *)
(* A transaction that fails is reverted as a whole (applyBxhTransaction),  *)
(* so an operator that can fail returns a record with a field ok and the   *)
(* modules that compose it take no step when it is FALSE.                  *)
(*                                                                         *)
(* A book is [p, idx]: the proposals in the order of their submission,     *)
(* whose position stands for the id, and the status index, an ordered list *)
(* of ids for every status.                                                *)
(***************************************************************************)
EXTENDS Integers, Sequences, FiniteSets, SequencesExt, FiniteSetsExt

CONSTANTS Supers,  \* the administrators with SuperAdminWeight
          Word     \* the modulus of uint64, small enough for TLC's integers

ASSUME WordAssumption == Word \in Nat /\ Word > 8

ProposalStatus == {"proposed", "paused", "approve", "reject"}
Open == {"proposed", "paused"}
EmptyBook == [p |-> <<>>, idx |-> [s \in ProposalStatus |-> <<>>]]

priority == [register |-> 1, update |-> 2, freeze |-> 2, activate |-> 1,
             bind |-> 1, unbind |-> 1, logout |-> 3, pause |-> 3,
             unpause |-> 1, clear |-> 3, transfer |-> 0]

isSpecialProposal(typ, event) ==
    \/ typ \in {"role_mgr", "proposal_strategy_mgr"}
    \/ event \in {"freeze", "activate", "logout"}

-----------------------------------------------------------------------------
(* Voting strategies: an expression over a, r and t, the approvals, the    *)
(* rejections and the initial electorate.                                  *)

SimpleMajority == "a > 0.5 * t"
Expressions == {SimpleMajority, "a >= 2", "a >= 3", "a == t"}

Holds(exp, a, r, t) ==
    CASE exp = SimpleMajority -> 2 * a > t
      [] exp = "a >= 2" -> a >= 2
      [] exp = "a >= 3" -> a >= 3
      [] exp = "a == t" -> a = t

MakeStrategyDecision(exp, a, r, t, avail) ==
    CASE Holds(exp, a, r, t) -> "approve"
      [] ~Holds(exp, a, r, t) /\ Holds(exp, (avail - r) % Word, r, t) -> "wait"
      [] OTHER -> "reject"

(* getCurThresholdApproveNum finds a number of approvals that passes. *)
HasThreshold(exp, a, r, t) == \E n \in a..t : Holds(exp, n, r, t)

CheckStrategyExpression(exp, admins) == \E a \in 0..admins : Holds(exp, a, 0, admins)

-----------------------------------------------------------------------------
(* The book.                                                               *)

addProposal(b, p) ==
    [p |-> Append(b.p, p),
     idx |-> [b.idx EXCEPT ![p.status] = Append(@, Len(b.p) + 1)]]

changeProposalStatus(b, id, status) ==
    LET out == [b.idx EXCEPT ![b.p[id].status] = SelectSeq(@, LAMBDA i : i # id)]
    IN  [p |-> [b.p EXCEPT ![id].status = status],
         idx |-> [out EXCEPT ![status] = Append(@, id)]]

Close(b, id, status, reason) ==
    changeProposalStatus([b EXCEPT !.p[id].reason = reason], id, status)

getProposalsByObjStatus(b, obj, status) ==
    {i \in DOMAIN b.p : b.p[i].obj = obj /\ b.p[i].status = status}

GetNotClosedProposals(b) == b.idx.proposed \o b.idx.paused

(* Mutant: the proposal is noted but not paused. *)
LocksWithoutPausing(b, obj, event) ==
    LET low == {i \in getProposalsByObjStatus(b, obj, "proposed") :
                  priority[b.p[i].event] < priority[event]}
    IN  [b |-> b, id |-> IF low = {} THEN 0 ELSE Min(low)]

lockLowPriorityProposal(b, obj, event) ==
    LET low == {i \in getProposalsByObjStatus(b, obj, "proposed") :
                  priority[b.p[i].event] < priority[event]}
    IN  IF low = {} THEN [b |-> b, id |-> 0]
        ELSE [b |-> changeProposalStatus(b, Min(low), "paused"), id |-> Min(low)]

(* Neither branch looks at the present status of the locked proposal. *)
unlockLowPriorityProposal(b, id, restore) ==
    IF restore THEN changeProposalStatus(b, id, "proposed")
    ELSE Close(b, id, "reject", "priority")

getHightestPriorityPausedProposalByObjId(b, obj) ==
    LET paused == getProposalsByObjStatus(b, obj, "paused")
        top == {i \in paused : \A j \in paused :
                  priority[b.p[j].event] <= priority[b.p[i].event]}
    IN  IF paused = {} THEN 0 ELSE Min(top)

-----------------------------------------------------------------------------
(* The contracts above the book work on a record w of their state, with the *)
(* book in w.b and an error in w.err.                                       *)
Fail(w) == [w EXCEPT !.err = TRUE]
Then(w, Op(_)) == IF w.err THEN w ELSE Op(w)

(* The book after a submission, or the error of SubmitProposal. *)
Booked(w, s) == IF w.err \/ ~s.ok THEN Fail(w) ELSE [w EXCEPT !.b = s.b]

-----------------------------------------------------------------------------
(* Submitting, ending and voting.                                          *)

SubmitProposal(b, from, event, typ, obj, last, extra, electorate, strategy) ==
    LET n == Cardinality(electorate)
        locked == lockLowPriorityProposal(b, obj, event)
    IN  [ok |-> strategy.typ = "zero" \/ HasThreshold(strategy.exp, 0, 0, n),
         b |-> addProposal(locked.b,
                 [from |-> from, event |-> event, typ |-> typ, obj |-> obj,
                  last |-> last, extra |-> extra, status |-> "proposed",
                  reason |-> "", approve |-> {}, against |-> {},
                  electorate |-> electorate, initial |-> n, available |-> n,
                  lock |-> locked.id, strategy |-> strategy.typ,
                  exp |-> strategy.exp,
                  special |-> isSpecialProposal(typ, event)])]

IsSuperAdminVoted(p) == (p.approve \cup p.against) \cap Supers # {}

endProposal(b, id, reason) == Close(b, id, "reject", reason)

EndObjProposal(b, obj, reason) ==
    FoldLeft(LAMBDA x, i : IF x.p[i].obj = obj /\ x.p[i].status \in Open
                           THEN endProposal(x, i, reason) ELSE x,
             b, [i \in 1..Len(b.p) |-> i])

setVote(b, id, a, ballot) ==
    LET p == b.p[id]
        q == IF ballot = "approve" THEN [p EXCEPT !.approve = @ \cup {a}]
                                   ELSE [p EXCEPT !.against = @ \cup {a}]
    IN  [ok |-> /\ p.status = "proposed"
                /\ a \in p.electorate
                /\ a \notin p.approve \cup p.against
                /\ HasThreshold(q.exp, Cardinality(q.approve),
                                Cardinality(q.against), q.initial),
         b |-> [b EXCEPT !.p[id] = q]]

Decision(p) ==
    MakeStrategyDecision(p.exp, Cardinality(p.approve), Cardinality(p.against),
                         p.initial, p.available)

countVote(b, id) ==
    LET p == b.p[id]
        d == IF p.special /\ ~IsSuperAdminVoted(p) THEN "wait" ELSE Decision(p)
    IN  [over |-> d # "wait",
         b |-> IF d = "wait" THEN b ELSE Close(b, id, d, "normal")]

(* The part of Vote on the book; the caller's role is checked by the        *)
(* modules that know the roles.                                             *)
Vote(b, id, a, ballot) ==
    LET Counted(set) == [ok |-> set.ok] @@ countVote(set.b, id)
    IN  Counted(setVote(b, id, a, ballot))

(* handleResult unlocks the proposal this one locked and says which Manage  *)
(* call follows: with the result, or, when a locked proposal is restored,   *)
(* with that proposal's event.                                              *)
handleResult(b, id) ==
    LET p == b.p[id]
        restore == p.status # "approve"
    IN  [b |-> IF p.lock = 0 THEN b ELSE unlockLowPriorityProposal(b, p.lock, restore),
         call |-> [typ |-> p.typ, event |-> p.event, last |-> p.last, obj |-> p.obj,
                   extra |-> p.extra,
                   next |-> IF p.lock = 0 \/ ~restore THEN p.status
                            ELSE b.p[p.lock].event]]

Unlocked(b, id, obj, event, none) ==
    [found |-> id # 0,
     b |-> IF id = 0 THEN b ELSE unlockLowPriorityProposal(b, id, TRUE),
     call |-> IF id = 0 THEN none
              ELSE [typ |-> b.p[id].typ, event |-> event, next |-> b.p[id].event,
                    last |-> "", obj |-> obj, extra |-> none]]

UnLockLowPriorityProposal(b, obj, event, none) ==
    Unlocked(b, getHightestPriorityPausedProposalByObjId(b, obj), obj, event, none)

(* A zero-permission proposal is returned without being stored. *)
UpdateAvailableElectorateNum(b, id, num) ==
    LET q == [b.p[id] EXCEPT !.available = num]
        d == Decision(q)
        stored == [b EXCEPT !.p[id] = q]
    IN  IF q.strategy = "zero" THEN [ok |-> TRUE, over |-> FALSE, b |-> b]
        ELSE [ok |-> HasThreshold(q.exp, Cardinality(q.approve),
                                  Cardinality(q.against), q.initial),
              over |-> d # "wait",
              b |-> IF d = "wait" THEN stored ELSE Close(stored, id, d, "electorate")]

-----------------------------------------------------------------------------
(* What the queries of the contract rely on, for every module that holds a *)
(* book.                                                                    *)

IndexAgrees(b) ==
    \A s \in ProposalStatus :
        /\ IsInjective(b.idx[s])
        /\ ToSet(b.idx[s]) = {i \in DOMAIN b.p : b.p[i].status = s}
=============================================================================
