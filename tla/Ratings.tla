------------------------------- MODULE Ratings --------------------------------
(***************************************************************************)
(* The ratings of a service (service_manager.go) and of a dapp             *)
(* (dapp_manager.go): the score, a running mean of the evaluations, and    *)
(* what the interchain manager records of every settled call.  Floats are  *)
(* fixed-point numbers of Scale units; Scale is a multiple of every        *)
(* denominator the bounds allow, so the arithmetic is exact, except that a *)
(* difference that is zero may come out as a rounding residue.             *)
(***************************************************************************)
EXTENDS Naturals, Integers, FiniteSets, Functions, FiniteSetsExt

CONSTANTS Caller,     \* accounts that evaluate and services that invoke
          Scores,     \* the scores the evaluations give
          Scale,      \* units per one
          MaxInvoke   \* bound: recorded invocations

VARIABLES
    evaluations,  \* EvaluationRecords: partial function, caller -> score
    score,        \* Score
    records,      \* InvokeRecords: caller -> [Succeed, Failure]
    count,        \* InvokeCount
    rate,         \* InvokeSuccessRate
    residue       \* a zero rate is a rounding residue, not the float 0
vars == <<evaluations, score, records, count, rate, residue>>
rated == <<evaluations, score>>
invoked == <<records, count, rate, residue>>

NoRecord == [Succeed |-> 0, Failure |-> 0]

\* PackageServiceInfo and packageDappInfo build the object without records.
Fresh ==
    /\ evaluations = [x \in {} |-> 0] /\ score = 0
    /\ records = [x \in Caller |-> NoRecord]
    /\ count = 0 /\ rate = 0 /\ residue = FALSE
Init == Fresh

\* The mutant takes the old score for one evaluation more.
CountsTwice(num) == num + 2
\* The weight of the new score is one of num + 1.
Weight(num) == num + 1

LegalScore(given) == given >= 0 /\ given <= 5

\* EvaluateService and EvaluateDapp: once per caller, a score from 0 to 5.
Evaluate(x, given) ==
    LET num == Cardinality(DOMAIN evaluations) IN
    /\ LegalScore(given)
    /\ x \notin DOMAIN evaluations
    /\ score' = (num * score + given * Scale) \div Weight(num)
    /\ evaluations' = [y \in DOMAIN evaluations \cup {x} |->
                          IF y = x THEN given ELSE evaluations[y]]
    /\ UNCHANGED invoked

Recorded(rec, result) ==
    IF result THEN [rec EXCEPT !.Succeed = @ + 1]
              ELSE [rec EXCEPT !.Failure = @ + 1]

\* RecordInvokeService, for a call from x that settled with result.  Zero
\* compares equal to 0 only if the float arithmetic left no residue.
RecordInvokeService(x, result) ==
    LET num == count + 1
        up == (num * rate + Scale) \div (num + 1)
        down == (num * rate - Scale) \div (num + 1)
        new == IF result THEN up
               ELSE IF rate # 0 \/ residue THEN down ELSE rate IN
    /\ count < MaxInvoke
    /\ records' = [records EXCEPT ![x] = Recorded(@, result)]
    /\ count' = num
    /\ rate' = new
    /\ residue' \in IF new = 0 /\ (rate # 0 \/ residue) THEN BOOLEAN ELSE {FALSE}
    /\ UNCHANGED rated

\* A service or dapp registered anew, after its registration was rejected.
RegisterAgain ==
    /\ evaluations' = [x \in {} |-> 0] /\ score' = 0
    /\ records' = [x \in Caller |-> NoRecord]
    /\ count' = 0 /\ rate' = 0 /\ residue' = FALSE

Next ==
    \/ \E x \in Caller, given \in Scores : Evaluate(x, given)
    \/ \E x \in Caller, result \in BOOLEAN : RecordInvokeService(x, result)
    \/ RegisterAgain
Spec == Init /\ [][Next]_vars

-----------------------------------------------------------------------------
\* The sum of f[x] over x in S.
Total(f, S) == MapThenSumSet(LAMBDA x : f[x], S)

\* Types; a score is a mean of legal scores.
TypeOK ==
    /\ DOMAIN evaluations \subseteq Caller
    /\ score \in 0..5 * Scale
    /\ records \in [Caller -> [Succeed : Nat, Failure : Nat]]
    /\ count \in 0..MaxInvoke
    /\ rate \in Int /\ residue \in BOOLEAN

\* The score kept by EvaluateService without the past scores is the mean of
\* all evaluations recorded.
ScoreIsMean ==
    score * Cardinality(DOMAIN evaluations)
        = Scale * Total(evaluations, DOMAIN evaluations)

\* RecordInvokeService counts a call under the caller and in InvokeCount; the
\* two must not drift apart.
CountMatches ==
    count = Total([x \in Caller |-> records[x].Succeed + records[x].Failure], Caller)
=============================================================================
