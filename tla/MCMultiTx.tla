------------------------------ MODULE MCMultiTx ------------------------------
(***************************************************************************)
(* Instances of MultiTx for TLC.                                           *)
(***************************************************************************)
EXTENDS MultiTx

CONSTANTS src1, dst1, dst2,  \* services: src1 sends to dst1 and dst2
          g1, g2             \* two groups

to1 == <<src1, dst1>>
to2 == <<src1, dst2>>

MCChannel == {to1, to2}

\* g1 goes to both destinations and g2 follows it on both channels.
TwoGroups == [g \in {g1, g2} |-> IF g = g1 THEN {<<to1, 1>>, <<to2, 1>>}
                                           ELSE {<<to1, 2>>, <<to2, 2>>}]

\* A negative number, never, and the next blocks.
Timeouts == {-3, 0, 1, 2}

OneGroup == [g \in {g1} |-> {<<to1, 1>>, <<to2, 1>>}]

\* pb.StatusChange.NotifyFlags.
MCNotifySrc ==
  {<<"none", "BEGIN_FAILURE">>, <<"none", "BEGIN_ROLLBACK">>}
    \cup {<<"BEGIN", s>> : s \in TransactionStatus \ {"BEGIN"}}
    \cup {<<"BEGIN_FAILURE", "FAILURE">>, <<"BEGIN_ROLLBACK", "ROLLBACK">>}
MCNotifyDst ==
  {<<"none", "BEGIN">>, <<"none", "BEGIN_FAILURE">>, <<"BEGIN", "BEGIN_FAILURE">>}
=============================================================================
